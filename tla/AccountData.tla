------------------------------ MODULE AccountData ------------------------------
(****************************************************************************)
(* The bytes of an escrow account: pack_into_slice and unpack_from_slice of     *)
(* program/src/state.rs.                                                       *)
(*                                                                            *)
(* A byte of a u8 is <<"u8", n>>; byte i of a wider value v of type t is the    *)
(* symbol <<t, v, i>>, so that a value is read back only where all its bytes    *)
(* lie in order.  Default values (0, the key 11...1, no document) are all zero *)
(* bytes, as in the code.  Whatever can be refused returns a set: the value, or *)
(* nothing.  Bytes that are no value of their type (only a wrong layout makes   *)
(* such) count as refused: the program would go on with a meaningless value.    *)
(****************************************************************************)
EXTENDS EscrowInstructions, Sequences, Functions

CONSTANTS
  URL_LEN,     \* bytes of a DataUrl
  BumpSeed     \* [Escrows -> 1 .. 255]: find_program_address, the seed

ASSUME LayoutAssumption ==
  /\ URL_LEN \in Nat \ {0}
  /\ BumpSeed \in [Escrows -> 1 .. 255]

Zero == <<"u8", 0>>
Bytes(size) == 0 .. size - 1

\* The types of the fields of Escrow, and of the arguments of the instructions
TypeOf ==
  LET u8 == {"bump_seed", "state", "reputation_oracle_stake", "recording_oracle_stake",
             "version"}
      word == {"expires", "total_amount", "total_recipients", "sent_amount",
               "sent_recipients", "duration", "amount"}
      key == {"token_mint", "token_account", "launcher", "canceler",
              "canceler_token_account", "factory"}
      option == {"reputation_oracle", "reputation_oracle_token_account",
                 "recording_oracle", "recording_oracle_token_account"}
      url == {"manifest_url", "final_results_url"}
      hash == {"manifest_hash", "final_results_hash"}
  IN  [n \in u8 \cup word \cup key \cup option \cup url \cup hash |->
         CASE n \in u8 -> "u8"
           [] n \in word -> "word"
           [] n \in key -> "key"
           [] n \in option -> "option"
           [] n \in url -> "url"
           [] n \in hash -> "hash"]

-----------------------------------------------------------------------------
\* One value: byte i of it, and the value that a function of bytes holds
Byte(type, v, default, i) ==
  IF type = "u8" THEN <<"u8", v>> ELSE IF v = default THEN Zero ELSE <<type, v, i>>

Value(type, bytes, default) ==
  IF type = "u8"
  THEN {n \in {bytes[0][2]} : bytes[0] = <<"u8", n>>}
  ELSE IF \A i \in DOMAIN bytes : bytes[i] = Zero THEN {default}
       ELSE {v \in {bytes[0][2]} : \A i \in DOMAIN bytes : bytes[i] = <<type, v, i>>}

\* pack_coption_key writes no body for None: what was there stays.
OptionByte(v, default, i, old) ==
  IF i >= 4 THEN IF v = default THEN old ELSE <<"key", v, i - 4>>
  ELSE IF i = 0 /\ v # default THEN <<"u8", 1>> ELSE Zero

OptionValue(bytes, default) ==
  LET tag == [i \in Bytes(4) |-> bytes[i]]
      body == [i \in Bytes(32) |-> bytes[i + 4]]
      None == [i \in Bytes(4) |-> Zero]
  IN  IF tag = None THEN {default}
      ELSE IF tag = [None EXCEPT ![0] = <<"u8", 1>>] THEN Value("key", body, default)
      ELSE {}

-----------------------------------------------------------------------------
(* The names and the sizes of the fields are written down twice in the code,    *)
(* once for each direction; nothing but a test ties the two together.          *)
PackNames ==
  <<"expires", "bump_seed", "token_mint", "token_account", "reputation_oracle",
    "reputation_oracle_token_account", "reputation_oracle_stake",
    "recording_oracle", "recording_oracle_token_account",
    "recording_oracle_stake", "launcher", "canceler", "canceler_token_account",
    "total_amount", "total_recipients", "sent_amount", "sent_recipients",
    "state", "factory", "manifest_url", "manifest_hash", "final_results_url",
    "final_results_hash">>
PackSizes ==
  <<8, 1, 32, 32, 36, 36, 1, 36, 36, 1, 32, 32, 32, 8, 8, 8, 8, 1, 32, URL_LEN,
    20, URL_LEN, 20>>

\* as if two fields of one size had changed places in one list of names
BugSwapsCounters ==
  [PackNames EXCEPT ![15] = "sent_amount", ![16] = "total_recipients"]

UnpackNames ==
  <<"expires", "bump_seed", "token_mint", "token_account", "reputation_oracle",
    "reputation_oracle_token_account", "reputation_oracle_stake",
    "recording_oracle", "recording_oracle_token_account",
    "recording_oracle_stake", "launcher", "canceler", "canceler_token_account",
    "total_amount", "total_recipients", "sent_amount", "sent_recipients",
    "state", "factory", "manifest_url", "manifest_hash", "final_results_url",
    "final_results_hash">>

\* as if one list of sizes had the url and its hash in the other order
BugSwapsSizes == [PackSizes EXCEPT ![20] = 20, ![21] = URL_LEN]

UnpackSizes ==
  <<8, 1, 32, 32, 36, 36, 1, 36, 36, 1, 32, 32, 32, 8, 8, 8, 8, 1, 32, URL_LEN,
    20, URL_LEN, 20>>

\* array_refs!: each name with its place, one after the other
Places(names, sizes) ==
  LET start[i \in 1 .. Len(sizes)] == IF i = 1 THEN 0 ELSE start[i - 1] + sizes[i - 1]
  IN  [n \in Range(names) |->
         LET i == CHOOSE j \in 1 .. Len(names) : names[j] = n
         IN  [start |-> start[i], size |-> sizes[i]]]

PackPlaces == Places(PackNames, PackSizes)
UnpackPlaces == Places(UnpackNames, UnpackSizes)
EscrowLen == 420 + URL_LEN + URL_LEN

\* The field a byte belongs to when packing
PackOwner ==
  [p \in Bytes(EscrowLen) |->
     CHOOSE n \in DOMAIN PackPlaces :
       p - PackPlaces[n].start \in Bytes(PackPlaces[n].size)]

-----------------------------------------------------------------------------
\* EscrowState as u8, and try_from_primitive
Discriminants == <<"Uninitialized", "Launched", "Pending", "Partial", "Paid",
                   "Complete", "Cancelled">>
AsU8(state) == CHOOSE n \in 0 .. 6 : Discriminants[n + 1] = state

\* The record with the fields of the struct that EscrowInstructions leaves out
Struct(esc, bump_seed) ==
  [n \in Range(PackNames) |->
     CASE n = "bump_seed" -> bump_seed
       [] n = "state" -> AsU8(esc.state)
       [] n \in {"manifest_url", "manifest_hash"} -> esc.manifest
       [] n \in {"final_results_url", "final_results_hash"} -> esc.final_results
       [] OTHER -> esc[n]]

DefaultStruct == Struct(BlankEscrow, 0)
BlankData == [p \in Bytes(EscrowLen) |-> Zero]

Pack(esc, bump_seed, old) ==
  LET struct == Struct(esc, bump_seed)
  IN  [p \in Bytes(EscrowLen) |->
         LET n == PackOwner[p]
             i == p - PackPlaces[n].start
         IN  IF TypeOf[n] = "option" THEN OptionByte(struct[n], DefaultStruct[n], i, old[p])
             ELSE Byte(TypeOf[n], struct[n], DefaultStruct[n], i)]

\* The values of one field: none if its bytes are no such value
Unpacked(data, n) ==
  LET place == UnpackPlaces[n]
      bytes == [i \in Bytes(place.size) |-> data[place.start + i]]
  IN  IF TypeOf[n] = "option" THEN OptionValue(bytes, DefaultStruct[n])
      ELSE Value(TypeOf[n], bytes, DefaultStruct[n])

\* An escrow record with its bump seed, or nothing: InvalidAccountData.  A url
\* and its hash are one document: the code only ever writes them together.
Unpack(data) ==
  LET got == [n \in DOMAIN UnpackPlaces |-> Unpacked(data, n)]
      the(n) == CHOOSE v \in got[n] : TRUE
  IN  IF \/ \E n \in DOMAIN got : got[n] = {}
         \/ the("state") \notin 0 .. 6
         \/ the("manifest_url") # the("manifest_hash")
         \/ the("final_results_url") # the("final_results_hash")
      THEN {}
      ELSE {[bump_seed |-> the("bump_seed"),
             escrow |->
               [n \in DOMAIN BlankEscrow |->
                  CASE n = "state" -> Discriminants[the("state") + 1]
                    [] n = "manifest" -> the("manifest_url")
                    [] n = "final_results" -> the("final_results_url")
                    [] OTHER -> the(n)]]}

\* RpcFilterType::Memcmp: do the bytes of a key lie at an offset of the data?
HoldsKeyAt(data, offset, key) ==
  \A i \in Bytes(32) : data[offset + i] = <<"key", key, i>>
=============================================================================
