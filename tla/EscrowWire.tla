------------------------------- MODULE EscrowWire -------------------------------
(****************************************************************************)
(* Instructions on the wire: program/src/instruction.rs, which packs arguments   *)
(* into bytes and lists the accounts of an instruction, and the other side: the  *)
(* unpacking, and the order in which each process_* function of processor.rs     *)
(* takes the accounts with next_account_info.                                   *)
(*                                                                            *)
(* An instruction is [data |-> <<bytes>>, accounts |-> <<metas>>]; a meta is      *)
(* [key, is_signer, is_writable].                                              *)
(****************************************************************************)
EXTENDS AccountData, SequencesExt

\* Two functions as one: f, and g where f says nothing
Joined(f, g) == [x \in DOMAIN f \cup DOMAIN g |-> IF x \in DOMAIN f THEN f[x] ELSE g[x]]

Kinds == {"FactoryInitialize", "Initialize", "Setup", "StoreResults",
          "StoreFinalAmounts", "Payout", "Cancel", "Complete"}

\* The tags and argument lists of EscrowInstruction::pack ...
PackTag ==
  [FactoryInitialize |-> 1, Initialize |-> 2, Setup |-> 3, StoreResults |-> 4,
   StoreFinalAmounts |-> 5, Payout |-> 6, Cancel |-> 7, Complete |-> 8]

PackArguments ==
  [FactoryInitialize |-> <<"version">>,
   Initialize |-> <<"duration">>,
   Setup |-> <<"reputation_oracle_stake", "recording_oracle_stake",
               "manifest_url", "manifest_hash">>,
   StoreResults |-> <<"final_results_url", "final_results_hash">>,
   StoreFinalAmounts |-> <<"total_amount", "total_recipients">>,
   Payout |-> <<"amount">>,
   Cancel |-> <<>>,
   Complete |-> <<>>]

\* ... and of EscrowInstruction::unpack
UnpackKind ==
  <<"FactoryInitialize", "Initialize", "Setup", "StoreResults",
    "StoreFinalAmounts", "Payout", "Cancel", "Complete">>

UnpackArguments ==
  [FactoryInitialize |-> <<"version">>,
   Initialize |-> <<"duration">>,
   Setup |-> <<"reputation_oracle_stake", "recording_oracle_stake",
               "manifest_url", "manifest_hash">>,
   StoreResults |-> <<"final_results_url", "final_results_hash">>,
   StoreFinalAmounts |-> <<"total_amount", "total_recipients">>,
   Payout |-> <<"amount">>,
   Cancel |-> <<>>,
   Complete |-> <<>>]

\* unpack_u8, unpack_u64, unpack_url and unpack_hash take this many bytes.
WidthOf(n) ==
  CASE TypeOf[n] = "u8" -> 1
    [] TypeOf[n] = "word" -> 8
    [] TypeOf[n] = "url" -> URL_LEN
    [] TypeOf[n] = "hash" -> 20

Blank(n) == IF TypeOf[n] \in {"url", "hash"} THEN NoDocument ELSE 0

PackData(kind, arguments) ==
  <<<<"u8", PackTag[kind]>>>> \o
  FlattenSeq([a \in DOMAIN PackArguments[kind] |->
    LET n == PackArguments[kind][a]
    IN  [i \in 1 .. WidthOf(n) |-> Byte(TypeOf[n], arguments[n], Blank(n), i - 1)]])

\* Every argument needs its bytes; those past the last one are ignored, for
\* every instruction.
UnpackData(data) ==
  IF data = <<>> \/ Head(data) \notin {<<"u8", t>> : t \in DOMAIN UnpackKind} THEN {}
  ELSE LET kind == UnpackKind[Head(data)[2]]
           names == UnpackArguments[kind]
           places == Places(names, [a \in DOMAIN names |-> WidthOf(names[a])])
           value(n) == Value(TypeOf[n],
                             [i \in Bytes(places[n].size) |-> data[places[n].start + i + 2]],
                             Blank(n))
       IN  IF \E n \in Range(names) :
                \/ places[n].start + places[n].size + 1 > Len(data)
                \/ value(n) = {}
           THEN {}
           ELSE {[kind |-> kind,
                  arguments |-> [n \in Range(names) |-> CHOOSE v \in value(n) : TRUE]]}

-----------------------------------------------------------------------------
\* The account lists of the builders: W writable, R read only, S signing
W(role) == [role |-> role, is_signer |-> FALSE, is_writable |-> TRUE]
R(role) == [role |-> role, is_signer |-> FALSE, is_writable |-> FALSE]
S(role) == [role |-> role, is_signer |-> TRUE, is_writable |-> FALSE]

BuiltAccounts ==
  [FactoryInitialize |-> <<W("factory")>>,
   Initialize |-> <<W("escrow"), R("factory"), R("clock"), R("token_mint"),
                    R("token_account"), R("launcher"), R("canceler"),
                    R("canceler_token_account")>>,
   Setup |-> <<W("escrow"), S("trusted_handler"), R("clock"),
               R("reputation_oracle"), R("reputation_oracle_token_account"),
               R("recording_oracle"), R("recording_oracle_token_account")>>,
   StoreResults |-> <<W("escrow"), S("trusted_handler"), R("clock")>>,
   StoreFinalAmounts |-> <<W("escrow"), S("trusted_handler"), R("clock")>>,
   Payout |-> <<W("escrow"), S("trusted_handler"), R("clock"), W("token_account"),
                R("authority"), W("recipient_token_account"),
                W("reputation_oracle_token_account"),
                W("recording_oracle_token_account"), R("token_program")>>,
   Cancel |-> <<W("escrow"), S("trusted_handler"), W("token_account"),
                R("authority"), W("canceler_token_account"), R("token_program")>>,
   Complete |-> <<W("escrow"), S("trusted_handler"), R("clock")>>]

\* What factory_initialize, initialize, setup and the others return; names maps
\* each role to the key the caller passes for it, and each argument to its value.
Built(kind, names) ==
  [data |-> PackData(kind, names),
   accounts |-> [a \in DOMAIN BuiltAccounts[kind] |->
     LET meta == BuiltAccounts[kind][a]
     IN  [key |-> names[meta.role], is_signer |-> meta.is_signer,
          is_writable |-> meta.is_writable]]]

\* as if process_cancel took a clock that cancel does not pass
BugCancelTakesClock ==
  [k \in Kinds |->
     IF k = "Cancel"
     THEN <<"escrow", "trusted_handler", "clock", "token_account", "authority",
            "canceler_token_account", "token_program">>
     ELSE [a \in DOMAIN BuiltAccounts[k] |-> BuiltAccounts[k][a].role]]

TakenAccounts ==
  [FactoryInitialize |-> <<"factory">>,
   Initialize |-> <<"escrow", "factory", "clock", "token_mint", "token_account",
                    "launcher", "canceler", "canceler_token_account">>,
   Setup |-> <<"escrow", "trusted_handler", "clock", "reputation_oracle",
               "reputation_oracle_token_account", "recording_oracle",
               "recording_oracle_token_account">>,
   StoreResults |-> <<"escrow", "trusted_handler", "clock">>,
   StoreFinalAmounts |-> <<"escrow", "trusted_handler", "clock">>,
   Payout |-> <<"escrow", "trusted_handler", "clock", "token_account", "authority",
                "recipient_token_account", "reputation_oracle_token_account",
                "recording_oracle_token_account", "token_program">>,
   Cancel |-> <<"escrow", "trusted_handler", "token_account", "authority",
                "canceler_token_account", "token_program">>,
   Complete |-> <<"escrow", "trusted_handler", "clock">>]

\* next_account_info for each role in turn: NotEnoughAccountKeys, or the metas
Taken(kind, accounts) ==
  LET roles == TakenAccounts[kind]
  IN  IF Len(accounts) < Len(roles) THEN {}
      ELSE {[role \in Range(roles) |->
               accounts[CHOOSE a \in DOMAIN roles : roles[a] = role]]}
=============================================================================
