------------------------------ MODULE Figures ------------------------------
(***************************************************************************)
(* The figures the SDK gives an account, together: what it says of a       *)
(* position in a market, a Smart market or a vault (Advice), or of its     *)
(* loans at the lending broker (LoanQuotes), on one token's decimals.  An  *)
(* account is watched with one or the other; the broker's loans are read   *)
(* by functions of their own and share nothing with a position but the     *)
(* arithmetic.                                                             *)
(***************************************************************************)
EXTENDS Advice, LoanQuotes

OfAPosition ==
  /\ Init
  /\ loans = <<>> /\ integral = <<>> /\ dynamic = Nothing
  /\ clock = 0 /\ told = Unread /\ quote = Unquoted /\ parts = 0 /\ settled = "none"

OfLoans ==
  /\ LoanInit
  /\ kind = "loans"
  /\ now = 1 /\ lag = 0 /\ readAt = 0 /\ owedThen = 0 /\ phase = "start"
  /\ chain = Nothing /\ info = Nothing /\ data = Nothing
  /\ asked = Nothing /\ sim = Nothing

FiguresInit == OfAPosition \/ OfLoans

FiguresNext ==
  \/ kind # "loans" /\ Next /\ UNCHANGED loanVars
  \/ kind = "loans" /\ LoanNext /\ UNCHANGED vars

FiguresSpec == FiguresInit /\ [][FiguresNext]_<<vars, loanVars>>

(* What is read, simulated, quoted and on the chain is of its type.        *)
TypeOK == IF kind = "loans" THEN LoanTypeOK ELSE AdviceTypeOK
=============================================================================
