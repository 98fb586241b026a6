----------------------------- MODULE TokenLedger -----------------------------
(****************************************************************************)
(* The SPL token program as processor.rs and the API use it: accounts that    *)
(* hold an amount of one mint and have one owner, and the Transfer            *)
(* instruction.  The token program is not part of the repository; what is     *)
(* modelled is the behaviour the escrow program relies on when it invokes it. *)
(*                                                                          *)
(* A ledger is a function from token accounts to amounts.  The operators are  *)
(* pure, so that one transaction can run several of them in a row.            *)
(****************************************************************************)
EXTENDS TokenMath

CONSTANTS
  Keys,           \* public keys of wallets and of program-derived authorities
  TokenAccounts,  \* accounts of the size of a token account, initialised for one mint
  SplAccounts,    \* those the token program owns: the others only look like one
  Mints,
  MintOf,         \* [TokenAccounts -> Mints]
  OwnerOf         \* [TokenAccounts -> Keys], who signs transfers out of it

ASSUME LedgerAssumption ==
  /\ MintOf \in [TokenAccounts -> Mints]
  /\ OwnerOf \in [TokenAccounts -> Keys]
  /\ SplAccounts \subseteq TokenAccounts

Ledgers == [TokenAccounts -> Amounts]

(* The token program executes Transfer of n, signed by authority.  A transfer *)
(* of an account to itself is accepted and moves nothing; of or to an account  *)
(* of another program, nothing is accepted.                                   *)
CanTransfer(ledger, from, to, authority, n) ==
  /\ {from, to} \subseteq SplAccounts
  /\ OwnerOf[from] = authority
  /\ MintOf[from] = MintOf[to]
  /\ ledger[from] >= n
  /\ from = to \/ ledger[to] + n < U64

Transferred(ledger, from, to, n) ==
  IF from = to THEN ledger
  ELSE [ledger EXCEPT ![from] = @ - n, ![to] = @ + n]
=============================================================================
