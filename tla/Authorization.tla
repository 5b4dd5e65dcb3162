--------------------------- MODULE Authorization ---------------------------
(***************************************************************************)
(* Grants of one account: by transaction, by signature, and the            *)
(* cancellation of a signature (builders/authorization.ts,                 *)
(* builders/authorizationSig.ts).                                          *)
(*                                                                         *)
(* A grant lets another contract act on the account's positions.  It is    *)
(* made and withdrawn by transactions of the account, or by a signature    *)
(* anybody may submit while its deadline has not passed and the account's  *)
(* nonce on the contract is the one it was built against.  The cancel      *)
(* builder reads the nonce and answers later; in between, signatures land. *)
(*                                                                         *)
(* The contract is external.  Signatures also reach the submitting side    *)
(* from elsewhere, made without the checks of the typed-data builder.  The *)
(* two explicit overrides (allowUnknownTarget, maxTtlSeconds) are not      *)
(* passed.                                                                 *)
(***************************************************************************)
EXTENDS Integers, FiniteSets

CONSTANTS
  Target,         \* contracts somebody may be asked to authorize
  Authorizable,   \* what the entries of AUTHORIZABLE_CONTRACTS resolve to
  Zero,           \* what an unconfigured entry resolves to
  Self,           \* the account
  Ttl,            \* DEFAULT_AUTHORIZATION_TTL_SECONDS, in ticks
  CancelTtl,      \* how long a cancelling signature stays valid, in ticks
  MaxNow,         \* bound on time
  MaxNonce,       \* bound on the nonces signed for
  MaxSigned       \* bound on the signatures made

ASSUME AuthorizationAssumption ==
  /\ Authorizable \subseteq Target
  /\ Self \notin Target
  /\ Ttl \in Nat /\ CancelTtl \in Nat \ {0}
  /\ MaxNow \in Nat /\ MaxNonce \in Nat /\ MaxSigned \in Nat

VARIABLES
  now,       \* block time
  granted,   \* on chain: contracts the account has authorized
  nonce,     \* on chain: Moolah.nonce of the account
  signed,    \* signatures that exist, in whoever's hands
  cancel,    \* a call of the cancel builder in progress
  spent,     \* history: nonces the cancel builder called consumed
  landed     \* history: signatures the contract accepted

authVars == <<now, granted, nonce, signed, cancel, spent, landed>>

NotACancel == -1

(* origin, signedAt and burns (the nonce a cancellation was asked for) are *)
(* history; the rest is MoolahAuthorization.                               *)
Signature == [authorized   : Target \cup {Self},
              isAuthorized : BOOLEAN,
              nonce        : Nat,
              deadline     : Nat,
              origin       : {"sdk", "elsewhere"},
              signedAt     : Nat,
              burns        : Nat \cup {NotACancel}]

AuthTypeOK ==
  /\ now \in 0..MaxNow
  /\ granted \subseteq Target
  /\ nonce \in Nat
  /\ signed \subseteq Signature
  /\ cancel \in [asking : BOOLEAN, nonce : Nat, current : Nat]
  /\ spent \subseteq Nat
  /\ landed \subseteq signed

AuthInit ==
  /\ now = 0
  /\ granted = {}
  /\ nonce = 0
  /\ signed = {}
  /\ cancel = [asking |-> FALSE, nonce |-> 0, current |-> 0]
  /\ spent = {}
  /\ landed = {}
-----------------------------------------------------------------------------
(* The contract, external.                                                 *)

SetAuthorization(t, isAuthorized) ==
  granted' = IF isAuthorized THEN granted \cup {t} ELSE granted \ {t}

(* A signature is good once, in nonce order, up to its deadline.           *)
SetAuthorizationWithSig(a) ==
  /\ now <= a.deadline
  /\ nonce = a.nonce
  /\ nonce' = nonce + 1
  /\ landed' = landed \cup {a}
  /\ SetAuthorization(a.authorized, a.isAuthorized)
-----------------------------------------------------------------------------
(* The transaction path.                                                   *)

AssertAuthorizable(t) == t \in Authorizable \ {Zero}

BuildSetAuthorizationSteps(t) ==
  /\ AssertAuthorizable(t)
  /\ SetAuthorization(t, TRUE)
  /\ UNCHANGED <<now, nonce, signed, cancel, spent, landed>>

(* Clears the flag; the nonce stays where it is.                           *)
BuildRevokeAuthorizationSteps(t) ==
  /\ SetAuthorization(t, FALSE)
  /\ UNCHANGED <<now, nonce, signed, cancel, spent, landed>>
-----------------------------------------------------------------------------
(* The signature path.                                                     *)

(* Variant: a deadline as far ahead as one likes.                          *)
DeadlineUncapped(a, ttl) ==
  /\ a.isAuthorized => AssertAuthorizable(a.authorized)
  /\ a.deadline > now

BuildAuthorizationTypedData(a, ttl) ==
  /\ a.isAuthorized => AssertAuthorizable(a.authorized)
  /\ a.deadline > now
  /\ a.deadline - now <= ttl

Signed(a) ==
  /\ Cardinality(signed) < MaxSigned
  /\ signed' = signed \cup {a}

Authorization(t, yes, n, deadline, origin) ==
  [authorized |-> t, isAuthorized |-> yes, nonce |-> n, deadline |-> deadline,
   origin |-> origin, signedAt |-> now, burns |-> NotACancel]

(* The nonce is the caller's to fill in: current, stale or ahead.          *)
Sign(t, yes, n, deadline) ==
  LET a == Authorization(t, yes, n, deadline, "sdk") IN
  /\ BuildAuthorizationTypedData(a, Ttl)
  /\ Signed(a)
  /\ UNCHANGED <<now, granted, nonce, cancel, spent, landed>>

SignElsewhere(t, n, deadline) ==
  /\ Signed(Authorization(t, TRUE, n, deadline, "elsewhere"))
  /\ UNCHANGED <<now, granted, nonce, cancel, spent, landed>>

(* Variant: the list is applied where the data is built and nowhere else.  *)
SubmitsUnchecked(a) ==
  /\ SetAuthorizationWithSig(a)
  /\ UNCHANGED <<now, signed, cancel, spent>>

(* Anybody may submit; what the contract rejects changes nothing.          *)
BuildSetAuthorizationWithSigSteps(a) ==
  /\ a.isAuthorized => AssertAuthorizable(a.authorized)
  /\ SetAuthorizationWithSig(a)
  /\ UNCHANGED <<now, signed, cancel, spent>>
-----------------------------------------------------------------------------
(* Cancelling.                                                             *)

(* The read of the nonce.                                                  *)
AskCancel(n) ==
  /\ ~cancel.asking
  /\ cancel' = [asking |-> TRUE, nonce |-> n, current |-> nonce]
  /\ UNCHANGED <<now, granted, nonce, signed, spent, landed>>

(* Variants: a nonce just reached passes for a consumed one; the burn is   *)
(* built against the nonce before the one asked for.                       *)
ReachedCountsAsSpent(current, n) == current >= n
BurnsThePrevious(n) == n - 1

Consumed(current, n) == current > n
BurntNonce(n) == n

(* A grant of nothing to oneself, at the nonce to be consumed.             *)
Cancellation(n) ==
  [authorized |-> Self, isAuthorized |-> FALSE, nonce |-> BurntNonce(n),
   deadline |-> now + CancelTtl, origin |-> "sdk", signedAt |-> now, burns |-> n]

SaysConsumed ==
  /\ Consumed(cancel.current, cancel.nonce)
  /\ spent' = spent \cup {cancel.nonce}
  /\ UNCHANGED signed

(* Variant: a nonce not reached yet has the one before it burnt instead.   *)
BurnsTheCurrent ==
  /\ cancel.current < cancel.nonce
  /\ Signed([Cancellation(cancel.nonce) EXCEPT !.nonce = cancel.current])
  /\ UNCHANGED spent

SaysNotReached ==
  /\ cancel.current < cancel.nonce
  /\ UNCHANGED <<spent, signed>>

SignsCancellation ==
  /\ ~Consumed(cancel.current, cancel.nonce)
  /\ cancel.current = cancel.nonce
  /\ BuildAuthorizationTypedData(Cancellation(cancel.nonce), CancelTtl)
  /\ Signed(Cancellation(cancel.nonce))
  /\ UNCHANGED spent

(* The answer is about the nonce that was read, not the one of now.        *)
AnswerCancel ==
  /\ cancel.asking
  /\ cancel' = [cancel EXCEPT !.asking = FALSE]
  /\ SaysConsumed \/ SaysNotReached \/ SignsCancellation
  /\ UNCHANGED <<now, granted, nonce, landed>>

Tick ==
  /\ now < MaxNow
  /\ now' = now + 1
  /\ UNCHANGED <<granted, nonce, signed, cancel, spent, landed>>
-----------------------------------------------------------------------------
Transact ==
  \E t \in Target : BuildSetAuthorizationSteps(t) \/ BuildRevokeAuthorizationSteps(t)

MakeSignature ==
  \E t \in Target, n \in 0..MaxNonce, deadline \in 0..MaxNow :
    \/ \E yes \in BOOLEAN : Sign(t, yes, n, deadline)
    \/ SignElsewhere(t, n, deadline)

Relay == \E a \in signed : BuildSetAuthorizationWithSigSteps(a)

AskToCancel == \E n \in 0..MaxNonce : AskCancel(n)

AuthNext == Transact \/ MakeSignature \/ Relay \/ AskToCancel \/ AnswerCancel \/ Tick
AuthSpec == AuthInit /\ [][AuthNext]_authVars
-----------------------------------------------------------------------------
(* Correctness.                                                            *)

(* Once a cancellation has landed, no grant signed for the nonce its       *)
(* caller asked to cancel lands any more, however late and whoever submits *)
(* it.                                                                     *)
CancelledNeverLands ==
  [][\A a \in landed' \ landed :
       a.isAuthorized => ~\E c \in landed : c.burns = a.nonce]_authVars

(* A grant signed through the SDK is dead when its time to live is over:   *)
(* it never lands later than that after it was signed.                     *)
GrantsExpire ==
  [][\A a \in landed' \ landed :
       (a.origin = "sdk" /\ a.isAuthorized) => now <= a.signedAt + Ttl]_authVars

(* No path, by transaction or by a signature made anywhere, authorizes a   *)
(* contract the address book does not name, nor the zero address it uses   *)
(* for what is not deployed.                                               *)
OnlyTheAddressBook ==
  [][granted' \ granted \subseteq Authorizable \ {Zero}]_authVars

(* What the cancel builder calls consumed stays so: although it answers on *)
(* a nonce read earlier, no signature for that nonce lands after it has    *)
(* said so, and the caller who turns to revoking has nothing more to fear  *)
(* from it.                                                                *)
SpentIsFinal ==
  [][\A a \in landed' \ landed : a.nonce \notin spent]_authVars

(* The message of the cancel builder, "that signature was already          *)
(* submitted": where it says so of a nonce the account signed a grant for, *)
(* a grant has landed with it.                                             *)
SpentMeansSubmitted ==
  \A n \in spent :
    (\E a \in signed : a.nonce = n /\ a.isAuthorized)
      => \E a \in landed : a.nonce = n /\ a.isAuthorized
=============================================================================
