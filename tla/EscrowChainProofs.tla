---------------------------- MODULE EscrowChainProofs ----------------------------
(****************************************************************************)
(* Accounts and instructions as bytes: what pack_into_slice writes                *)
(* unpack_from_slice reads (RoundTrip), no transaction of any client leaves an      *)
(* escrow account that cannot be read or whose vault nobody can sign for            *)
(* (AccountsStayReadable), and what the builder of an instruction writes the        *)
(* program understands (WireRoundTrip, CallsAreUnderstood).                         *)
(*                                                                            *)
(* First the layout: where array_refs! puts the 23 fields, that they do not        *)
(* overlap and that both directions agree.  Then each type of field on its own,    *)
(* the record they make, the worlds a transaction passes through, and the          *)
(* arguments and account lists of instructions.                                    *)
(****************************************************************************)
EXTENDS EscrowChain, FoldLemmas, SequenceTheorems

(* Where the fields begin, worked out.                                           *)
Starts ==
  <<0, 8, 9, 41, 73, 109, 145, 146, 182, 218, 219, 251, 283, 315, 323, 331, 339, 347, 348,
    380, 380 + URL_LEN, 400 + URL_LEN, 400 + URL_LEN + URL_LEN>>
(* The place of each name in the list                                               *)
FieldIndex ==
  [expires |-> 1, bump_seed |-> 2, token_mint |-> 3, token_account |-> 4,
   reputation_oracle |-> 5, reputation_oracle_token_account |-> 6,
   reputation_oracle_stake |-> 7, recording_oracle |-> 8,
   recording_oracle_token_account |-> 9, recording_oracle_stake |-> 10, launcher |-> 11,
   canceler |-> 12, canceler_token_account |-> 13, total_amount |-> 14,
   total_recipients |-> 15, sent_amount |-> 16, sent_recipients |-> 17, state |-> 18,
   factory |-> 19, manifest_url |-> 20, manifest_hash |-> 21, final_results_url |-> 22,
   final_results_hash |-> 23]

(* The names in the list are different, for each has a place of its own in it.      *)
LEMMA NamesDiffer ==
  /\ Len(PackNames) = 23 /\ Len(PackSizes) = 23 /\ DOMAIN PackNames = 1 .. 23
  /\ \A i \in 1 .. 23 : FieldIndex[PackNames[i]] = i
  /\ \A i \in 1 .. 23 : PackSizes[i] \in Nat \ {0}
  <1>1. Len(PackNames) = 23 /\ Len(PackSizes) = 23 /\ DOMAIN PackNames = 1 .. 23
    BY DEF PackNames, PackSizes
  <1>2. \A i \in 1 .. 23 : FieldIndex[PackNames[i]] = i
    BY DEF FieldIndex, PackNames
  <1>3. \A i \in 1 .. 23 : PackSizes[i] \in Nat \ {0}
    BY LayoutAssumption DEF PackSizes
  <1> QED BY <1>1, <1>2, <1>3

(* Each field begins where the one before ends.                                     *)
LEMMA StartsFollow ==
  /\ Starts[1] = 0
  /\ \A i \in 2 .. 23 : Starts[i] = Starts[i - 1] + PackSizes[i - 1]
  /\ \A i \in 1 .. 23 : Starts[i] \in Nat
  <1>1. Starts[1] = 0 /\ \A i \in 1 .. 23 : Starts[i] \in Nat
    BY LayoutAssumption DEF Starts
  <1>2. \A i \in 2 .. 23 : Starts[i] = Starts[i - 1] + PackSizes[i - 1]
    BY LayoutAssumption DEF Starts, PackSizes
  <1> QED BY <1>1, <1>2

(* The recursive function that adds up the sizes gives those places.                *)
LEMMA PlacesAre ==
  /\ DOMAIN PackPlaces = {PackNames[i] : i \in 1 .. 23}
  /\ \A i \in 1 .. 23 : PackPlaces[PackNames[i]] = [start |-> Starts[i], size |-> PackSizes[i]]
  <1> DEFINE start == CHOOSE f : f = [i \in 1 .. Len(PackSizes) |->
                        IF i = 1 THEN 0 ELSE f[i - 1] + PackSizes[i - 1]]
  <1>1. start = [i \in 1 .. 23 |-> IF i = 1 THEN 0 ELSE start[i - 1] + PackSizes[i - 1]]
    <2> DEFINE f == [i \in 1 .. 23 |-> Starts[i]]
    <2>1. f = [i \in 1 .. 23 |-> IF i = 1 THEN 0 ELSE f[i - 1] + PackSizes[i - 1]]
      <3>1. ASSUME NEW i \in 1 .. 23
            PROVE  f[i] = IF i = 1 THEN 0 ELSE f[i - 1] + PackSizes[i - 1]
        <4>1. CASE i = 1
          BY <4>1, StartsFollow
        <4>2. CASE i # 1
          <5>1. i \in 2 .. 23 /\ i - 1 \in 1 .. 23
            BY <4>2
          <5>2. f[i - 1] = Starts[i - 1]
            BY <5>1
          <5> QED BY <4>2, <5>1, <5>2, StartsFollow
        <4> QED BY <4>1, <4>2
      <3> HIDE DEF f
      <3>2. DOMAIN f = 1 .. 23 /\ f = [i \in DOMAIN f |-> f[i]]
        BY DEF f
      <3> QED BY <3>1, <3>2
    <2> HIDE DEF f
    <2>2. \E g : g = [i \in 1 .. Len(PackSizes) |->
                        IF i = 1 THEN 0 ELSE g[i - 1] + PackSizes[i - 1]]
      BY <2>1, NamesDiffer
    <2>3. start = [i \in 1 .. Len(PackSizes) |->
                     IF i = 1 THEN 0 ELSE start[i - 1] + PackSizes[i - 1]]
      BY <2>2
    <2> QED BY <2>3, NamesDiffer
  <1> DEFINE place(n) == LET i == CHOOSE j \in 1 .. Len(PackNames) : PackNames[j] = n
                         IN  [start |-> start[i], size |-> PackSizes[i]]
  <1>2. PackPlaces = [n \in Range(PackNames) |-> place(n)]
    BY DEF PackPlaces, Places
  <1> HIDE DEF start
  <1>3. Range(PackNames) = {PackNames[i] : i \in 1 .. 23}
    BY NamesDiffer DEF Range
  <1>4. ASSUME NEW i \in 1 .. 23
        PROVE  start[i] = Starts[i]
    <2> DEFINE P == {j \in 0 .. 22 : start[j + 1] = Starts[j + 1]}
    <2>1. 0 \in P
      BY <1>1, StartsFollow
    <2>2. ASSUME NEW j \in 1 .. 22, j - 1 \in P
          PROVE  j \in P
      <3>1. start[j + 1] = start[j] + PackSizes[j]
        BY <1>1
      <3>2. j + 1 \in 2 .. 23
        OBVIOUS
      <3>3. Starts[j + 1] = Starts[j] + PackSizes[j]
        BY <3>2, StartsFollow
      <3> QED BY <2>2, <3>1, <3>3
    <2>3. 22 \in Nat
      OBVIOUS
    <2>4. \A j \in 0 .. 22 : j \in P
      <3> HIDE DEF P
      <3> QED BY <2>1, <2>2, PrefixInduction
    <2>5. i - 1 \in P
      BY <2>4
    <2> QED BY <2>5
  <1>5. ASSUME NEW i \in 1 .. 23
        PROVE  (CHOOSE j \in 1 .. Len(PackNames) : PackNames[j] = PackNames[i]) = i
    <2>1. \A j \in 1 .. 23 : PackNames[j] = PackNames[i] => j = i
      BY NamesDiffer
    <2> QED BY <2>1, NamesDiffer
  <1>6. ASSUME NEW i \in 1 .. 23
        PROVE  PackPlaces[PackNames[i]] = [start |-> Starts[i], size |-> PackSizes[i]]
    BY <1>2, <1>3, <1>4, <1>5
  <1> QED BY <1>2, <1>3, <1>6

(* Fields lie one after the other, ...                                           *)
LEMMA FieldsDisjoint ==
  /\ \A i, j \in 1 .. 23 : i < j => Starts[i] + PackSizes[i] <= Starts[j]
  /\ \A i \in 1 .. 23 : Starts[i] + PackSizes[i] <= EscrowLen
  <1>1. ASSUME NEW i \in 1 .. 23
        PROVE  \A j \in 1 .. 23 : i < j => Starts[i] + PackSizes[i] <= Starts[j]
    <2> DEFINE P == {k \in 0 .. 23 : i < k => Starts[i] + PackSizes[i] <= Starts[k]}
    <2>1. 0 \in P
      OBVIOUS
    <2>2. ASSUME NEW k \in 1 .. 23, k - 1 \in P
          PROVE  k \in P
      <3>1. CASE k <= i
        BY <3>1
      <3>2. CASE k = i + 1
        <4>1. k \in 2 .. 23 /\ k - 1 = i
          BY <3>2
        <4>2. Starts[k] = Starts[i] + PackSizes[i]
          BY <4>1, StartsFollow
        <4>3. Starts[k] \in Nat
          BY StartsFollow
        <4> QED BY <4>2, <4>3
      <3>3. CASE k > i + 1
        <4>1. k \in 2 .. 23 /\ k - 1 \in 1 .. 23 /\ i < k - 1
          BY <3>3
        <4>2. Starts[k] = Starts[k - 1] + PackSizes[k - 1]
          BY <4>1, StartsFollow
        <4>3. Starts[i] + PackSizes[i] <= Starts[k - 1]
          BY <2>2, <4>1
        <4>4. Starts[i] \in Nat /\ PackSizes[i] \in Nat /\ Starts[k - 1] \in Nat
              /\ PackSizes[k - 1] \in Nat
          BY <4>1, StartsFollow, NamesDiffer
        <4> QED BY <4>2, <4>3, <4>4
      <3> QED BY <3>1, <3>2, <3>3
    <2>3. 23 \in Nat
      OBVIOUS
    <2>4. \A k \in 0 .. 23 : k \in P
      <3> HIDE DEF P
      <3> QED BY <2>1, <2>2, <2>3, PrefixInduction
    <2> QED BY <2>4
  <1>2. Starts[23] + PackSizes[23] = EscrowLen
    BY LayoutAssumption DEF Starts, PackSizes, EscrowLen
  <1>3. ASSUME NEW i \in 1 .. 23
        PROVE  Starts[i] + PackSizes[i] <= EscrowLen
    <2>1. Starts[i] \in Nat /\ PackSizes[i] \in Nat /\ Starts[23] \in Nat /\ PackSizes[23] \in Nat
      BY StartsFollow, NamesDiffer
    <2>2. CASE i = 23
      BY <1>2, <2>1, <2>2
    <2>3. CASE i # 23
      <3>1. Starts[i] + PackSizes[i] <= Starts[23]
        BY <1>1, <2>3
      <3> QED BY <1>2, <2>1, <3>1
    <2> QED BY <2>2, <2>3
  <1> QED BY <1>1, <1>3

(* ... so that each byte has one owner.                                          *)
LEMMA ByteHasOwner ==
  ASSUME NEW i \in 1 .. 23, NEW b \in Bytes(PackSizes[i])
  PROVE  /\ Starts[i] + b \in Bytes(EscrowLen)
         /\ PackOwner[Starts[i] + b] = PackNames[i]
         /\ (Starts[i] + b) - PackPlaces[PackNames[i]].start = b
  <1> DEFINE p == Starts[i] + b
  <1>1. Starts[i] \in Nat /\ PackSizes[i] \in Nat /\ b \in Nat /\ b < PackSizes[i]
    BY StartsFollow, NamesDiffer DEF Bytes
  <1>2. EscrowLen \in Nat /\ Starts[i] + PackSizes[i] <= EscrowLen
    BY FieldsDisjoint, LayoutAssumption DEF EscrowLen
  <1>3. p \in Bytes(EscrowLen)
    BY <1>1, <1>2 DEF Bytes
  <1>4. PackPlaces[PackNames[i]].start = Starts[i]
    BY PlacesAre
  <1>5. p - PackPlaces[PackNames[i]].start \in Bytes(PackPlaces[PackNames[i]].size)
    BY <1>1, <1>4, PlacesAre DEF Bytes
  <1>6. ASSUME NEW n \in DOMAIN PackPlaces, p - PackPlaces[n].start \in Bytes(PackPlaces[n].size)
        PROVE  n = PackNames[i]
    <2>1. PICK j \in 1 .. 23 : n = PackNames[j]
      BY PlacesAre
    <2>2. PackPlaces[n].start = Starts[j] /\ PackPlaces[n].size = PackSizes[j]
      BY <2>1, PlacesAre
    <2>3. Starts[j] \in Nat /\ PackSizes[j] \in Nat
      BY StartsFollow, NamesDiffer
    <2>4. Starts[j] <= p /\ p < Starts[j] + PackSizes[j]
      BY <1>1, <1>6, <2>2, <2>3 DEF Bytes
    <2>5. ~(i < j) /\ ~(j < i)
      BY <1>1, <2>3, <2>4, FieldsDisjoint
    <2> QED BY <2>1, <2>5
  <1>7. PackNames[i] \in DOMAIN PackPlaces
    BY PlacesAre
  <1>8. PackOwner[p] = PackNames[i]
    <2>1. PackOwner[p] = CHOOSE n \in DOMAIN PackPlaces :
                           p - PackPlaces[n].start \in Bytes(PackPlaces[n].size)
      BY <1>3 DEF PackOwner
    <2> HIDE DEF p
    <2> QED BY <1>5, <1>6, <1>7, <2>1
  <1> QED BY <1>1, <1>3, <1>4, <1>8

-----------------------------------------------------------------------------
(* A value is read back from the bytes it is written to.                         *)
LEMMA ValueRoundTrip ==
  ASSUME NEW type, NEW size \in Nat \ {0}, type = "u8" => size = 1, NEW v, NEW default,
         NEW bytes, DOMAIN bytes = Bytes(size),
         \A b \in Bytes(size) : bytes[b] = Byte(type, v, default, b)
  PROVE  Value(type, bytes, default) = {v}
  <1>1. 0 \in Bytes(size)
    BY DEF Bytes
  <1>2. CASE type = "u8"
    <2>1. bytes[0] = <<"u8", v>>
      BY <1>1, <1>2 DEF Byte
    <2>2. bytes[0][2] = v
      BY <2>1
    <2> QED BY <1>2, <2>1, <2>2 DEF Value
  <1>3. CASE type # "u8" /\ v = default
    <2>1. \A b \in Bytes(size) : bytes[b] = Zero
      BY <1>3 DEF Byte
    <2> QED BY <1>1, <1>3, <2>1 DEF Value
  <1>4. CASE type # "u8" /\ v # default
    <2>1. \A b \in Bytes(size) : bytes[b] = <<type, v, b>>
      BY <1>4 DEF Byte
    <2>2. bytes[0] # Zero
      <3>1. DOMAIN Zero = 1 .. 2 /\ \A x, y, z : DOMAIN <<x, y, z>> = 1 .. 3
        BY DEF Zero
      <3>2. 3 \in 1 .. 3 /\ 3 \notin 1 .. 2
        OBVIOUS
      <3> QED BY <1>1, <2>1, <3>1, <3>2
    <2>3. bytes[0][2] = v
      BY <1>1, <2>1
    <2>4. Value(type, bytes, default) =
            {x \in {bytes[0][2]} : \A b \in DOMAIN bytes : bytes[b] = <<type, x, b>>}
      BY <1>1, <1>4, <2>2 DEF Value
    <2> QED BY <1>1, <2>1, <2>3, <2>4
  <1> QED BY <1>2, <1>3, <1>4

(* An optional key too, whatever bytes it is written over.                       *)
LEMMA OptionRoundTrip ==
  ASSUME NEW v, NEW default, NEW old, NEW bytes, DOMAIN bytes = Bytes(36),
         \A b \in Bytes(36) : bytes[b] = OptionByte(v, default, b, old[b])
  PROVE  OptionValue(bytes, default) = {v}
  <1> DEFINE tag == [i \in Bytes(4) |-> bytes[i]]
             body == [i \in Bytes(32) |-> bytes[i + 4]]
             None4 == [i \in Bytes(4) |-> Zero]
             Some4 == [None4 EXCEPT ![0] = <<"u8", 1>>]
  <1>1. \A b \in Bytes(4) : b \in Bytes(36) /\ b < 4
    BY DEF Bytes
  <1>2. \A b \in Bytes(32) : b + 4 \in Bytes(36) /\ b + 4 >= 4 /\ (b + 4) - 4 = b
    BY DEF Bytes
  <1>3. OptionValue(bytes, default) =
          IF tag = None4 THEN {default}
          ELSE IF tag = Some4 THEN Value("key", body, default) ELSE {}
    BY DEF OptionValue
  <1>4. CASE v = default
    <2>1. \A b \in Bytes(4) : tag[b] = Zero
      BY <1>1, <1>4 DEF OptionByte, Bytes
    <2>2. tag = None4
      BY <2>1
    <2> QED BY <1>3, <1>4, <2>2
  <1>5. CASE v # default
    <2>1. ASSUME NEW b \in Bytes(4)
          PROVE  tag[b] = IF b = 0 THEN <<"u8", 1>> ELSE Zero
      <3>1. ~(b >= 4) /\ b \in Bytes(36)
        BY <1>1 DEF Bytes
      <3>2. tag[b] = OptionByte(v, default, b, old[b])
        BY <3>1
      <3> HIDE DEF tag
      <3> QED BY <1>5, <3>1, <3>2 DEF OptionByte
    <2>2. tag = Some4
      BY <2>1
    <2>3. Zero # <<"u8", 1>>
      BY DEF Zero
    <2>4. tag # None4
      <3>1. tag[0] # None4[0]
        <4>1. 0 \in Bytes(4)
          BY DEF Bytes
        <4> QED BY <2>1, <2>3, <4>1
      <3> QED BY <3>1
    <2>5. \A b \in Bytes(32) : body[b] = Byte("key", v, default, b)
      BY <1>2, <1>5 DEF OptionByte, Byte
    <2>6. Value("key", body, default) = {v}
      <3>1. DOMAIN body = Bytes(32) /\ 32 \in Nat \ {0} /\ "key" # "u8"
        OBVIOUS
      <3> HIDE DEF body
      <3> QED BY <2>5, <3>1, ValueRoundTrip
    <2> HIDE DEF tag, body, None4, Some4
    <2> QED BY <1>3, <2>2, <2>4, <2>6
  <1> QED BY <1>4, <1>5

(* Both lists of the code agree, and give each field the bytes its type takes.     *)
LEMMA LayoutsAgree ==
  /\ UnpackPlaces = PackPlaces
  /\ \A i \in 1 .. 23 : TypeOf[PackNames[i]] = "u8" => PackSizes[i] = 1
  /\ \A i \in 1 .. 23 : TypeOf[PackNames[i]] = "option" => PackSizes[i] = 36
  <1>1. UnpackPlaces = PackPlaces
    BY DEF UnpackPlaces, PackPlaces, UnpackNames, PackNames, UnpackSizes, PackSizes
  <1>2. \A i \in 1 .. 23 : TypeOf[PackNames[i]] = "u8" => i \in {2, 7, 10, 18}
    BY DEF TypeOf, PackNames
  <1>3. \A i \in 1 .. 23 : TypeOf[PackNames[i]] = "option" => i \in {5, 6, 8, 9}
    BY DEF TypeOf, PackNames
  <1>4. \A i \in {2, 7, 10, 18} : PackSizes[i] = 1
    BY DEF PackSizes
  <1>5. \A i \in {5, 6, 8, 9} : PackSizes[i] = 36
    BY DEF PackSizes
  <1> QED BY <1>1, <1>2, <1>3, <1>4, <1>5

(* So every field of an account reads as it was written.                         *)
LEMMA FieldRoundTrip ==
  ASSUME NEW esc, NEW bump_seed, NEW old, NEW i \in 1 .. 23
  PROVE  Unpacked(Pack(esc, bump_seed, old), PackNames[i]) =
           {Struct(esc, bump_seed)[PackNames[i]]}
  <1> DEFINE n == PackNames[i]
             v == Struct(esc, bump_seed)[n]
             default == DefaultStruct[n]
             data == Pack(esc, bump_seed, old)
             bytes == [b \in Bytes(PackSizes[i]) |-> data[Starts[i] + b]]
             before == [b \in Bytes(PackSizes[i]) |-> old[Starts[i] + b]]
  <1>1. Unpacked(data, n) = IF TypeOf[n] = "option" THEN OptionValue(bytes, default)
                            ELSE Value(TypeOf[n], bytes, default)
    <2>1. UnpackPlaces[n] = [start |-> Starts[i], size |-> PackSizes[i]]
      BY LayoutsAgree, PlacesAre
    <2> HIDE DEF data
    <2> QED BY <2>1 DEF Unpacked
  <1>2. ASSUME NEW b \in Bytes(PackSizes[i])
        PROVE  bytes[b] = IF TypeOf[n] = "option" THEN OptionByte(v, default, b, before[b])
                          ELSE Byte(TypeOf[n], v, default, b)
    <2> DEFINE p == Starts[i] + b
    <2>1. p \in Bytes(EscrowLen) /\ PackOwner[p] = n /\ p - PackPlaces[n].start = b
      BY ByteHasOwner
    <2>2. bytes[b] = data[p] /\ before[b] = old[p]
      OBVIOUS
    <2> HIDE DEF p, v, default, n
    <2>3. data[p] = IF TypeOf[n] = "option"
                    THEN OptionByte(Struct(esc, bump_seed)[n], DefaultStruct[n], b, old[p])
                    ELSE Byte(TypeOf[n], Struct(esc, bump_seed)[n], DefaultStruct[n], b)
      BY <2>1 DEF Pack
    <2> QED BY <2>2, <2>3 DEF v, default
  <1>3. DOMAIN bytes = Bytes(PackSizes[i]) /\ PackSizes[i] \in Nat \ {0}
    BY NamesDiffer
  <1> HIDE DEF bytes, before, data, v, default
  <1>4. CASE TypeOf[n] = "option"
    <2>1. PackSizes[i] = 36
      BY <1>4, LayoutsAgree
    <2> QED BY <1>1, <1>2, <1>3, <1>4, <2>1, OptionRoundTrip DEF v, data
  <1>5. CASE TypeOf[n] # "option"
    <2>1. TypeOf[n] = "u8" => PackSizes[i] = 1
      BY LayoutsAgree
    <2>2. Value(TypeOf[n], bytes, default) = {v}
      <3> DEFINE type == TypeOf[n]
                 size == PackSizes[i]
      <3>1. \A b \in Bytes(size) : bytes[b] = Byte(type, v, default, b)
        BY <1>2, <1>5
      <3>2. size \in Nat \ {0} /\ (type = "u8" => size = 1) /\ DOMAIN bytes = Bytes(size)
        BY <1>3, <2>1
      <3> HIDE DEF type, size, n
      <3>3. Value(type, bytes, default) = {v}
        BY <3>1, <3>2, ValueRoundTrip
      <3> QED BY <3>3 DEF type
    <2> QED BY <1>1, <1>5, <2>2 DEF v, data
  <1> QED BY <1>4, <1>5

(* The struct behind a record, field by field.                                   *)
LEMMA StructFields ==
  ASSUME NEW esc, NEW bump_seed
  PROVE  LET struct == Struct(esc, bump_seed) IN
         /\ {"bump_seed", "state", "manifest_url", "manifest_hash", "final_results_url",
             "final_results_hash"} \subseteq Range(PackNames)
         /\ struct["bump_seed"] = bump_seed
         /\ struct["state"] = AsU8(esc.state)
         /\ struct["manifest_url"] = esc.manifest /\ struct["manifest_hash"] = esc.manifest
         /\ struct["final_results_url"] = esc.final_results
         /\ struct["final_results_hash"] = esc.final_results
         /\ \A n \in DOMAIN BlankEscrow \ {"state", "manifest", "final_results"} :
              n \in Range(PackNames) /\ struct[n] = esc[n]
  <1> DEFINE struct == Struct(esc, bump_seed)
  <1>1. Range(PackNames) = {PackNames[i] : i \in 1 .. 23}
    BY NamesDiffer DEF Range
  <1>2. {"bump_seed", "state", "manifest_url", "manifest_hash", "final_results_url",
         "final_results_hash"} \subseteq Range(PackNames)
    <2>1. /\ PackNames[2] = "bump_seed" /\ PackNames[18] = "state"
          /\ PackNames[20] = "manifest_url" /\ PackNames[21] = "manifest_hash"
          /\ PackNames[22] = "final_results_url" /\ PackNames[23] = "final_results_hash"
      BY DEF PackNames
    <2> QED BY <1>1, <2>1
  <1>3. /\ struct["bump_seed"] = bump_seed
        /\ struct["state"] = AsU8(esc.state)
        /\ struct["manifest_url"] = esc.manifest /\ struct["manifest_hash"] = esc.manifest
        /\ struct["final_results_url"] = esc.final_results
        /\ struct["final_results_hash"] = esc.final_results
    BY <1>2 DEF Struct
  <1>4. DOMAIN BlankEscrow \ {"state", "manifest", "final_results"} \subseteq Range(PackNames)
    <2>1. ASSUME NEW n \in DOMAIN BlankEscrow \ {"state", "manifest", "final_results"}
          PROVE  n \in {PackNames[1], PackNames[3], PackNames[4], PackNames[5], PackNames[6],
                        PackNames[7], PackNames[8], PackNames[9], PackNames[10], PackNames[11],
                        PackNames[12], PackNames[13], PackNames[14], PackNames[15],
                        PackNames[16], PackNames[17], PackNames[19]}
      BY <2>1 DEF BlankEscrow, PackNames
    <2> QED BY <1>1, <2>1
  <1>5. ASSUME NEW n \in DOMAIN BlankEscrow \ {"state", "manifest", "final_results"}
        PROVE  struct[n] = esc[n]
    <2>1. n \notin {"bump_seed", "state", "manifest_url", "manifest_hash",
                    "final_results_url", "final_results_hash"}
      BY <1>5 DEF BlankEscrow
    <2> QED BY <1>4, <1>5, <2>1 DEF Struct
  <1> QED BY <1>2, <1>3, <1>4, <1>5

(* try_from_primitive takes back what the cast to u8 gave.                          *)
LEMMA DiscriminantsRoundTrip ==
  ASSUME NEW state \in EscrowStates
  PROVE  AsU8(state) \in 0 .. 6 /\ Discriminants[AsU8(state) + 1] = state
  <1>1. \E n \in 0 .. 6 : Discriminants[n + 1] = state
    <2>1. /\ Discriminants[0 + 1] = "Uninitialized" /\ Discriminants[1 + 1] = "Launched"
          /\ Discriminants[2 + 1] = "Pending" /\ Discriminants[3 + 1] = "Partial"
          /\ Discriminants[4 + 1] = "Paid" /\ Discriminants[5 + 1] = "Complete"
          /\ Discriminants[6 + 1] = "Cancelled"
      BY DEF Discriminants
    <2> HIDE DEF Discriminants
    <2> QED BY <2>1 DEF EscrowStates
  <1> QED BY <1>1 DEF AsU8

(* An account whose fields read like a record's reads as that record.             *)
LEMMA FieldsMakeTheRecord ==
  ASSUME NEW esc, esc = [n \in DOMAIN BlankEscrow |-> esc[n]], esc.state \in EscrowStates,
         NEW bump_seed, NEW data,
         \A i \in 1 .. 23 : Unpacked(data, PackNames[i]) = {Struct(esc, bump_seed)[PackNames[i]]}
  PROVE  Unpack(data) = {[bump_seed |-> bump_seed, escrow |-> esc]}
  <1> DEFINE struct == Struct(esc, bump_seed)
             got == [n \in DOMAIN UnpackPlaces |-> Unpacked(data, n)]
             the(n) == CHOOSE v \in got[n] : TRUE
             read == [n \in DOMAIN BlankEscrow |->
                        CASE n = "state" -> Discriminants[the("state") + 1]
                          [] n = "manifest" -> the("manifest_url")
                          [] n = "final_results" -> the("final_results_url")
                          [] OTHER -> the(n)]
  <1>1. DOMAIN UnpackPlaces = Range(PackNames)
    BY LayoutsAgree, PlacesAre, NamesDiffer DEF Range
  <1>2. \A n \in Range(PackNames) : Unpacked(data, n) = {struct[n]}
    BY NamesDiffer DEF Range
  <1> HIDE DEF struct
  <1>3. \A n \in Range(PackNames) : got[n] = {struct[n]} /\ the(n) = struct[n]
    BY <1>1, <1>2
  <1>4. Unpack(data) =
          IF \/ \E n \in DOMAIN got : got[n] = {}
             \/ the("state") \notin 0 .. 6
             \/ the("manifest_url") # the("manifest_hash")
             \/ the("final_results_url") # the("final_results_hash")
          THEN {} ELSE {[bump_seed |-> the("bump_seed"), escrow |-> read]}
    BY DEF Unpack
  <1>5. DOMAIN got = Range(PackNames)
    BY <1>1
  <1> HIDE DEF got, the
  <1>6. /\ the("bump_seed") = bump_seed
        /\ the("state") = AsU8(esc.state)
        /\ the("manifest_url") = esc.manifest /\ the("manifest_hash") = esc.manifest
        /\ the("final_results_url") = esc.final_results
        /\ the("final_results_hash") = esc.final_results
        /\ \A n \in DOMAIN BlankEscrow \ {"state", "manifest", "final_results"} : the(n) = esc[n]
    BY <1>3, StructFields DEF struct
  <1>7. AsU8(esc.state) \in 0 .. 6 /\ Discriminants[AsU8(esc.state) + 1] = esc.state
    BY DiscriminantsRoundTrip
  <1>8. read = esc
    <2>1. ASSUME NEW n \in DOMAIN BlankEscrow
          PROVE  read[n] = esc[n]
      BY <1>6, <1>7
    <2> HIDE DEF read
    <2>2. read = [n \in DOMAIN BlankEscrow |-> read[n]]
      BY DEF read
    <2> QED BY <2>1, <2>2
  <1>9. ~ \E n \in DOMAIN got : got[n] = {}
    BY <1>3, <1>5
  <1> HIDE DEF read
  <1> QED BY <1>4, <1>6, <1>7, <1>8, <1>9

(* An escrow account reads as it was written, whatever it was written over.       *)
THEOREM RoundTrip ==
  ASSUME NEW esc, esc = [n \in DOMAIN BlankEscrow |-> esc[n]], esc.state \in EscrowStates,
         NEW bump_seed, NEW old
  PROVE  Unpack(Pack(esc, bump_seed, old)) = {[bump_seed |-> bump_seed, escrow |-> esc]}
  BY FieldRoundTrip, FieldsMakeTheRecord

(* Fresh zeros are a blank escrow.                                               *)
LEMMA BlankReadsBlank ==
  Unpack(BlankData) = {[bump_seed |-> 0, escrow |-> BlankEscrow]}
  <1>1. AsU8("Uninitialized") = 0
    <2>1. AsU8("Uninitialized") \in 0 .. 6
          /\ Discriminants[AsU8("Uninitialized") + 1] = "Uninitialized"
      BY DiscriminantsRoundTrip DEF EscrowStates
    <2>2. \A n \in 0 .. 6 : Discriminants[n + 1] = "Uninitialized" => n = 0
      BY DEF Discriminants
    <2> QED BY <2>1, <2>2
  <1>2. \A n \in {"bump_seed", "state", "reputation_oracle_stake", "recording_oracle_stake"} :
          DefaultStruct[n] = 0
    BY <1>1, StructFields DEF DefaultStruct, BlankEscrow
  <1>3. ASSUME NEW i \in 1 .. 23
        PROVE  Unpacked(BlankData, PackNames[i]) = {DefaultStruct[PackNames[i]]}
    <2> DEFINE n == PackNames[i]
               default == DefaultStruct[n]
               bytes == [b \in Bytes(PackSizes[i]) |-> BlankData[Starts[i] + b]]
               tag == [b \in Bytes(4) |-> bytes[b]]
               None4 == [b \in Bytes(4) |-> Zero]
    <2>1. Unpacked(BlankData, n) = IF TypeOf[n] = "option" THEN OptionValue(bytes, default)
                                   ELSE Value(TypeOf[n], bytes, default)
      <3>1. UnpackPlaces[n] = [start |-> Starts[i], size |-> PackSizes[i]]
        BY LayoutsAgree, PlacesAre
      <3> QED BY <3>1 DEF Unpacked
    <2>2. \A b \in Bytes(PackSizes[i]) : bytes[b] = Zero
      BY ByteHasOwner DEF BlankData
    <2>3. DOMAIN bytes = Bytes(PackSizes[i]) /\ 0 \in Bytes(PackSizes[i])
      BY NamesDiffer DEF Bytes
    <2>4. CASE TypeOf[n] = "option"
      <3>1. PackSizes[i] = 36
        BY <2>4, LayoutsAgree
      <3>2. \A b \in Bytes(4) : b \in Bytes(36)
        BY DEF Bytes
      <3> HIDE DEF bytes
      <3>3. tag = None4
        BY <2>2, <3>1, <3>2
      <3>4. OptionValue(bytes, default) = {default}
        BY <3>3 DEF OptionValue
      <3> QED BY <2>1, <2>4, <3>4
    <2>5. CASE TypeOf[n] = "u8"
      <3>1. n \in {"bump_seed", "state", "reputation_oracle_stake", "recording_oracle_stake"}
        BY <2>5 DEF TypeOf, PackNames
      <3>2. default = 0
        BY <1>2, <3>1
      <3>3. bytes[0] = <<"u8", 0>> /\ bytes[0][2] = 0
        BY <2>2, <2>3 DEF Zero
      <3> HIDE DEF bytes, default
      <3>4. Value(TypeOf[n], bytes, default) = {x \in {0} : bytes[0] = <<"u8", x>>}
        BY <2>5, <3>3 DEF Value
      <3> QED BY <2>1, <2>5, <3>2, <3>3, <3>4 DEF default
    <2>6. CASE TypeOf[n] \notin {"option", "u8"}
      <3> HIDE DEF bytes, default
      <3>1. Value(TypeOf[n], bytes, default) = {default}
        BY <2>2, <2>3, <2>6 DEF Value
      <3> QED BY <2>1, <2>6, <3>1 DEF default
    <2> QED BY <2>4, <2>5, <2>6
  <1>4. /\ BlankEscrow = [n \in DOMAIN BlankEscrow |-> BlankEscrow[n]]
        /\ BlankEscrow.state \in EscrowStates
    BY DEF BlankEscrow, EscrowStates
  <1> QED BY <1>3, <1>4, FieldsMakeTheRecord DEF DefaultStruct

-----------------------------------------------------------------------------
(* What can be read of an account is a whole record, and one only.                *)
LEMMA UnpackShape ==
  ASSUME NEW data, NEW got \in Unpack(data)
  PROVE  /\ Unpack(data) = {got}
         /\ got.escrow = [n \in DOMAIN BlankEscrow |-> got.escrow[n]]
         /\ got.escrow.state \in EscrowStates
  <1> DEFINE g == [n \in DOMAIN UnpackPlaces |-> Unpacked(data, n)]
             the(n) == CHOOSE v \in g[n] : TRUE
             read == [n \in DOMAIN BlankEscrow |->
                        CASE n = "state" -> Discriminants[the("state") + 1]
                          [] n = "manifest" -> the("manifest_url")
                          [] n = "final_results" -> the("final_results_url")
                          [] OTHER -> the(n)]
             one == [bump_seed |-> the("bump_seed"), escrow |-> read]
  <1>1. Unpack(data) =
          IF \/ \E n \in DOMAIN g : g[n] = {}
             \/ the("state") \notin 0 .. 6
             \/ the("manifest_url") # the("manifest_hash")
             \/ the("final_results_url") # the("final_results_hash")
          THEN {} ELSE {one}
    BY DEF Unpack
  <1>2. "state" \in DOMAIN BlankEscrow
    BY DEF BlankEscrow
  <1>3. read.state = Discriminants[the("state") + 1]
    BY <1>2
  <1>4. one.escrow = read
    OBVIOUS
  <1>5. read = [n \in DOMAIN BlankEscrow |-> read[n]]
    OBVIOUS
  <1> HIDE DEF g, the, read, one
  <1>6. Unpack(data) = {one} /\ got = one /\ the("state") \in 0 .. 6
    BY <1>1
  <1>7. \A k \in 0 .. 6 : Discriminants[k + 1] \in EscrowStates
    BY DEF Discriminants, EscrowStates
  <1> QED BY <1>3, <1>4, <1>5, <1>6, <1>7

-----------------------------------------------------------------------------
(* The account of an escrow can be read, and signed for                           *)
Readable(e, contents) ==
  /\ "data" \in DOMAIN contents
  /\ \E got \in Unpack(contents.data) :
       got.bump_seed = IF EscrowInitialized(got.escrow) THEN BumpSeed[e] ELSE 0

(* What holds of every world a transaction passes through                         *)
WorldInv(w) ==
  /\ "account" \in DOMAIN w
  /\ DOMAIN w.account = Addresses
  /\ \A a \in Addresses : "kind" \in DOMAIN w.account[a]
  /\ \A e \in Escrows : w.account[e].kind = "Escrow" => Readable(e, w.account[e])

(* A world in which one account changed                                           *)
LEMMA OneAccountChanged ==
  ASSUME NEW w, WorldInv(w), NEW v, "account" \in DOMAIN v, DOMAIN v.account = Addresses,
         NEW x, \A a \in Addresses \ {x} : v.account[a] = w.account[a],
         x \in Addresses => "kind" \in DOMAIN v.account[x],
         x \in Escrows /\ v.account[x].kind = "Escrow" => Readable(x, v.account[x])
  PROVE  WorldInv(v)
  <1>1. Escrows \subseteq Addresses
    BY DEF Addresses
  <1>2. \A a \in Addresses : "kind" \in DOMAIN v.account[a]
    BY DEF WorldInv
  <1>3. \A e \in Escrows : v.account[e].kind = "Escrow" => Readable(e, v.account[e])
    BY <1>1 DEF WorldInv
  <1> QED BY <1>2, <1>3 DEF WorldInv

(* A new account is all zeros, and reads as a blank escrow if it is one.            *)
LEMMA CreateAccountKeeps ==
  ASSUME NEW w, WorldInv(w), NEW signers, NEW i, i.kind \in DOMAIN Blanks,
         NEW v \in CreateAccount(w, signers, i)
  PROVE  WorldInv(v)
  <1>1. v = [w EXCEPT !.account[i.new] = Blanks[i.kind], !.lamports = @ - Rent[i.kind]]
    BY DEF CreateAccount, When
  <1>2. "account" \in DOMAIN v /\ v.account = [w.account EXCEPT ![i.new] = Blanks[i.kind]]
    BY <1>1 DEF WorldInv
  <1>3. /\ DOMAIN v.account = Addresses
        /\ \A a \in Addresses \ {i.new} : v.account[a] = w.account[a]
        /\ i.new \in Addresses => v.account[i.new] = Blanks[i.kind]
    BY <1>2 DEF WorldInv
  <1>4. "kind" \in DOMAIN Blanks[i.kind]
    BY DEF Blanks
  <1>5. Blanks[i.kind].kind = "Escrow" => Blanks[i.kind] = [kind |-> "Escrow", data |-> BlankData]
    BY DEF Blanks
  <1>6. \A e \in Escrows : Readable(e, [kind |-> "Escrow", data |-> BlankData])
    <2>1. [bump_seed |-> 0, escrow |-> BlankEscrow] \in Unpack(BlankData)
      BY BlankReadsBlank
    <2>2. ~EscrowInitialized(BlankEscrow)
      BY DEF EscrowInitialized, BlankEscrow
    <2> QED BY <2>1, <2>2 DEF Readable
  <1>7. Escrows \subseteq Addresses
    BY DEF Addresses
  <1> QED BY <1>2, <1>3, <1>4, <1>5, <1>6, <1>7, OneAccountChanged

(* The token program only touches its own kinds of account: a mint, ...             *)
LEMMA InitializeMintKeeps ==
  ASSUME NEW w, WorldInv(w), NEW i, NEW v \in InitializeMint(w, i)
  PROVE  WorldInv(v)
  <1>1. /\ v = [w EXCEPT !.account[i.mint].initialized = TRUE]
        /\ w.account[i.mint] = Blanks.Mint
    BY DEF InitializeMint, When
  <1>2. /\ "account" \in DOMAIN v
        /\ v.account = [w.account EXCEPT ![i.mint] = [@ EXCEPT !.initialized = TRUE]]
    BY <1>1 DEF WorldInv
  <1>3. /\ DOMAIN v.account = Addresses
        /\ \A a \in Addresses \ {i.mint} : v.account[a] = w.account[a]
        /\ i.mint \in Addresses =>
             v.account[i.mint] = [w.account[i.mint] EXCEPT !.initialized = TRUE]
    BY <1>2 DEF WorldInv
  <1>4. i.mint \in Addresses =>
          "kind" \in DOMAIN v.account[i.mint] /\ v.account[i.mint].kind = "Mint"
    BY <1>1, <1>3 DEF Blanks
  <1>5. Escrows \subseteq Addresses
    BY DEF Addresses
  <1> QED BY <1>2, <1>3, <1>4, <1>5, OneAccountChanged

(* ... a token account, ...                                                         *)
LEMMA InitializeAccountKeeps ==
  ASSUME NEW w, WorldInv(w), NEW i, NEW v \in InitializeAccount(w, i)
  PROVE  WorldInv(v)
  <1>1. /\ v = [w EXCEPT !.account[i.account].mint = i.mint, !.account[i.account].owner = i.owner]
        /\ w.account[i.account] = Blanks.TokenAccount
    BY DEF InitializeAccount, When
  <1>2. /\ "account" \in DOMAIN v
        /\ v.account = [[w.account EXCEPT ![i.account] = [@ EXCEPT !.mint = i.mint]]
                          EXCEPT ![i.account] = [@ EXCEPT !.owner = i.owner]]
    BY <1>1 DEF WorldInv
  <1>3. /\ DOMAIN v.account = Addresses
        /\ \A a \in Addresses \ {i.account} : v.account[a] = w.account[a]
        /\ i.account \in Addresses =>
             v.account[i.account] =
               [[w.account[i.account] EXCEPT !.mint = i.mint] EXCEPT !.owner = i.owner]
    BY <1>2 DEF WorldInv
  <1>4. i.account \in Addresses =>
          "kind" \in DOMAIN v.account[i.account] /\ v.account[i.account].kind = "TokenAccount"
    BY <1>1, <1>3 DEF Blanks
  <1>5. Escrows \subseteq Addresses
    BY DEF Addresses
  <1> QED BY <1>2, <1>3, <1>4, <1>5, OneAccountChanged

(* process_*: the account of the call is read, and another record is stored.      *)
LEMMA StoredKeeps ==
  ASSUME NEW w, WorldInv(w), NEW e, Has(w, e, "Escrow"),
         NEW esc, esc = [n \in DOMAIN BlankEscrow |-> esc[n]], esc.state \in EscrowStates,
         NEW bump_seed,
         e \in Escrows => bump_seed = IF EscrowInitialized(esc) THEN BumpSeed[e] ELSE 0
  PROVE  WorldInv(Stored(w, e, esc, bump_seed))
  <1> DEFINE v == Stored(w, e, esc, bump_seed)
             contents == [w.account[e] EXCEPT !.data = Pack(esc, bump_seed, @)]
  <1>1. "account" \in DOMAIN v /\ v.account = [w.account EXCEPT ![e] = contents]
    BY DEF Stored, WorldInv
  <1>2. /\ DOMAIN v.account = Addresses
        /\ \A a \in Addresses \ {e} : v.account[a] = w.account[a]
        /\ v.account[e] = contents
    BY <1>1 DEF WorldInv, Has
  <1>3. "kind" \in DOMAIN contents /\ contents.kind = "Escrow"
    BY DEF WorldInv, Has
  <1>4. ASSUME e \in Escrows
        PROVE  Readable(e, contents)
    <2>1. "data" \in DOMAIN w.account[e]
      BY <1>4 DEF WorldInv, Has, Readable
    <2>2. "data" \in DOMAIN contents
          /\ contents.data = Pack(esc, bump_seed, w.account[e].data)
      BY <2>1
    <2>3. [bump_seed |-> bump_seed, escrow |-> esc] \in Unpack(contents.data)
      BY <2>2, RoundTrip
    <2> HIDE DEF contents
    <2> QED BY <1>4, <2>2, <2>3 DEF Readable
  <1> HIDE DEF v, contents
  <1>5. /\ "kind" \in DOMAIN v.account[e]
        /\ e \in Escrows => Readable(e, v.account[e])
    BY <1>2, <1>3, <1>4
  <1>6. WorldInv(v)
    BY ZenonT(30), <1>1, <1>2, <1>5, OneAccountChanged
  <1> QED BY <1>6 DEF v

(* ... the amounts of any number of them.                                           *)
LEMMA PaidKeeps ==
  ASSUME NEW w, WorldInv(w), NEW ledger
  PROVE  WorldInv(Paid(w, ledger))
  <1> DEFINE v == Paid(w, ledger)
  <1>1. /\ "account" \in DOMAIN v
        /\ v.account = [a \in Addresses |->
             IF Has(w, a, "TokenAccount") THEN [w.account[a] EXCEPT !.amount = ledger[a]]
             ELSE w.account[a]]
    BY DEF Paid, WorldInv
  <1>2. ASSUME NEW a \in Addresses
        PROVE  /\ "kind" \in DOMAIN v.account[a]
               /\ v.account[a].kind = w.account[a].kind
               /\ v.account[a].kind # "TokenAccount" => v.account[a] = w.account[a]
    <2>1. CASE Has(w, a, "TokenAccount")
      <3>1. v.account[a] = [w.account[a] EXCEPT !.amount = ledger[a]]
        BY <1>1, <2>1
      <3>2. "kind" \in DOMAIN w.account[a] /\ w.account[a].kind = "TokenAccount"
        BY <2>1 DEF WorldInv, Has
      <3> HIDE DEF v
      <3> QED BY <3>1, <3>2
    <2>2. CASE ~Has(w, a, "TokenAccount")
      BY <1>1, <2>2 DEF WorldInv, Has
    <2> QED BY <2>1, <2>2
  <1>3. Escrows \subseteq Addresses /\ DOMAIN v.account = Addresses
    BY <1>1 DEF Addresses
  <1> HIDE DEF v
  <1>4. ASSUME NEW e \in Escrows, v.account[e].kind = "Escrow"
        PROVE  Readable(e, v.account[e])
    BY <1>2, <1>3, <1>4 DEF WorldInv
  <1>5. WorldInv(v)
    BY <1>1, <1>2, <1>3, <1>4 DEF WorldInv
  <1> QED BY <1>5 DEF v

(* A record with every field of the account, in one of the seven states            *)
WholeRecord(esc) ==
  /\ esc = [n \in DOMAIN BlankEscrow |-> esc[n]]
  /\ esc.state \in EscrowStates

(* Every handler stores a whole record.  All but two of the handlers store an        *)
(* initialised one, and those two leave that as it was.                              *)
LEMMA WritesAreWhole ==
  ASSUME NEW esc, WholeRecord(esc), NEW now, NEW call, NEW amount
  PROVE  /\ \A stored \in {InitializeWrites(now, call), SetupWrites(esc, call),
                           StoreResultsWrites(esc, amount), StoreAmountsWrites(esc, call),
                           PayoutWrites(esc, amount), CancelWrites(esc), CompleteWrites(esc)} :
              WholeRecord(stored)
         /\ \A stored \in {InitializeWrites(now, call), SetupWrites(esc, call),
                           PayoutWrites(esc, amount), CancelWrites(esc), CompleteWrites(esc)} :
              EscrowInitialized(stored)
         /\ \A stored \in {StoreResultsWrites(esc, amount), StoreAmountsWrites(esc, call)} :
              EscrowInitialized(stored) = EscrowInitialized(esc)
  <1> DEFINE D == DOMAIN BlankEscrow
  <1>1. "state" \in D
    BY DEF BlankEscrow
  <1>2. DOMAIN esc = D
    BY DEF WholeRecord
  <1>3. /\ DOMAIN InitializeWrites(now, call) = D
        /\ DOMAIN SetupWrites(esc, call) = D
        /\ DOMAIN StoreResultsWrites(esc, amount) = D
        /\ DOMAIN StoreAmountsWrites(esc, call) = D
        /\ DOMAIN PayoutWrites(esc, amount) = D
        /\ DOMAIN CancelWrites(esc) = D
        /\ DOMAIN CompleteWrites(esc) = D
    BY <1>2 DEF InitializeWrites, SetupWrites, StoreResultsWrites, StoreAmountsWrites,
                PayoutWrites, CancelWrites, CompleteWrites
  <1>4. /\ InitializeWrites(now, call) = [n \in D |-> InitializeWrites(now, call)[n]]
        /\ SetupWrites(esc, call) = [n \in D |-> SetupWrites(esc, call)[n]]
        /\ StoreResultsWrites(esc, amount) = [n \in D |-> StoreResultsWrites(esc, amount)[n]]
        /\ StoreAmountsWrites(esc, call) = [n \in D |-> StoreAmountsWrites(esc, call)[n]]
        /\ PayoutWrites(esc, amount) = [n \in D |-> PayoutWrites(esc, amount)[n]]
        /\ CancelWrites(esc) = [n \in D |-> CancelWrites(esc)[n]]
        /\ CompleteWrites(esc) = [n \in D |-> CompleteWrites(esc)[n]]
    BY <1>2 DEF InitializeWrites, SetupWrites, StoreResultsWrites, StoreAmountsWrites,
                PayoutWrites, CancelWrites, CompleteWrites
  <1>5. /\ InitializeWrites(now, call).state = "Launched"
        /\ SetupWrites(esc, call).state = "Pending"
        /\ StoreResultsWrites(esc, amount).state = esc.state
        /\ StoreAmountsWrites(esc, call).state = esc.state
        /\ PayoutWrites(esc, amount).state \in {"Partial", "Paid"}
        /\ CancelWrites(esc).state = "Cancelled"
        /\ CompleteWrites(esc).state = "Complete"
    BY <1>1, <1>2 DEF InitializeWrites, SetupWrites, StoreResultsWrites, StoreAmountsWrites,
                PayoutWrites, CancelWrites, CompleteWrites, BlankEscrow
  <1>6. esc.state \in EscrowStates
    BY DEF WholeRecord
  <1> QED BY <1>4, <1>5, <1>6 DEF WholeRecord, EscrowStates, EscrowInitialized

(* What a handler gets to read.                                                      *)
LEMMA GotIsWhole ==
  ASSUME NEW w, WorldInv(w), NEW e, NEW got \in EscrowIn(w, e)
  PROVE  /\ Has(w, e, "Escrow")
         /\ WholeRecord(got.escrow)
         /\ e \in Escrows =>
              got.bump_seed = IF EscrowInitialized(got.escrow) THEN BumpSeed[e] ELSE 0
  <1>1. Has(w, e, "Escrow") /\ got \in Unpack(w.account[e].data)
    BY DEF EscrowIn
  <1>2. Unpack(w.account[e].data) = {got} /\ WholeRecord(got.escrow)
    BY <1>1, UnpackShape DEF WholeRecord
  <1>3. e \in Escrows => Readable(e, w.account[e])
    BY <1>1 DEF WorldInv, Has
  <1>4. e \in Escrows =>
          got.bump_seed = IF EscrowInitialized(got.escrow) THEN BumpSeed[e] ELSE 0
    BY <1>2, <1>3 DEF Readable
  <1> QED BY <1>1, <1>2, <1>4

(* Storing a record that is initialised exactly if the one read was keeps its seed, *)
(* and so does storing an initialised one with the derived seed.                   *)
LEMMA StoringKeeps ==
  ASSUME NEW w, WorldInv(w), NEW e, NEW got \in EscrowIn(w, e),
         NEW esc, WholeRecord(esc), NEW bump_seed,
         \/ EscrowInitialized(esc) = EscrowInitialized(got.escrow) /\ bump_seed = got.bump_seed
         \/ EscrowInitialized(esc) /\ bump_seed = BumpSeed[e]
  PROVE  WorldInv(Stored(w, e, esc, bump_seed))
  <1>1. Has(w, e, "Escrow")
    BY GotIsWhole
  <1>2. e \in Escrows => bump_seed = IF EscrowInitialized(esc) THEN BumpSeed[e] ELSE 0
    BY GotIsWhole
  <1> QED BY <1>1, <1>2, StoredKeeps DEF WholeRecord

(* One step per process_* function that stores an escrow: each has checked that the  *)
(* escrow was initialised, or that its seed is the derived one, or derives it.      *)
LEMMA HandlersKeep ==
  ASSUME NEW w, WorldInv(w), NEW now, NEW handler, NEW call,
         NEW got \in EscrowIn(w, call.escrow)
  PROVE  /\ \A v \in ProcessInitialize(w, now, got, call) : WorldInv(v)
         /\ \A v \in ProcessSetup(w, now, got, handler, call) : WorldInv(v)
         /\ \A v \in ProcessStoreResults(w, now, got, handler, call) : WorldInv(v)
         /\ \A v \in ProcessStoreAmounts(w, now, got, handler, call) : WorldInv(v)
         /\ \A v \in ProcessPayout(w, now, got, handler, call) : WorldInv(v)
         /\ \A v \in ProcessCancel(w, got, handler, call) : WorldInv(v)
         /\ \A v \in ProcessComplete(w, now, got, handler, call) : WorldInv(v)
  <1> DEFINE esc == got.escrow
             e == call.escrow
  <1>1. WholeRecord(esc)
    BY GotIsWhole
  <1>2. ASSUME NEW v \in ProcessInitialize(w, now, got, call)
        PROVE  WorldInv(v)
    <2>1. v = Stored(w, e, InitializeWrites(now, call), BumpSeed[e])
      BY <1>2 DEF ProcessInitialize, When
    <2>2. WholeRecord(InitializeWrites(now, call)) /\ EscrowInitialized(InitializeWrites(now, call))
      BY <1>1, WritesAreWhole
    <2> QED BY <2>1, <2>2, StoringKeeps
  <1>3. ASSUME NEW v \in ProcessSetup(w, now, got, handler, call)
        PROVE  WorldInv(v)
    <2>1. /\ v = Stored(w, e, SetupWrites(esc, call), got.bump_seed)
          /\ Program(MintIn(w), OwnerIn(w))!SetupAccepts(esc, now, handler, call)
      BY <1>3 DEF ProcessSetup, When
    <2>2. EscrowInitialized(esc)
      BY <2>1 DEF Program!SetupAccepts, Program!StateCheck, Program!EscrowInitialized,
                  EscrowInitialized
    <2>3. WholeRecord(SetupWrites(esc, call)) /\ EscrowInitialized(SetupWrites(esc, call))
      BY <1>1, WritesAreWhole
    <2> QED BY <2>1, <2>2, <2>3, StoringKeeps
  <1>4. ASSUME NEW v \in ProcessStoreResults(w, now, got, handler, call)
        PROVE  WorldInv(v)
    <2> DEFINE stored == StoreResultsWrites(esc, call.final_results)
    <2>1. v = Stored(w, e, stored, got.bump_seed)
      BY <1>4 DEF ProcessStoreResults, When
    <2>2. WholeRecord(stored) /\ EscrowInitialized(stored) = EscrowInitialized(esc)
      BY <1>1, WritesAreWhole
    <2> HIDE DEF stored
    <2> QED BY <2>1, <2>2, StoringKeeps
  <1>5. ASSUME NEW v \in ProcessStoreAmounts(w, now, got, handler, call)
        PROVE  WorldInv(v)
    <2> DEFINE stored == StoreAmountsWrites(esc, call)
    <2>1. v = Stored(w, e, stored, got.bump_seed)
      BY <1>5 DEF ProcessStoreAmounts, When
    <2>2. WholeRecord(stored) /\ EscrowInitialized(stored) = EscrowInitialized(esc)
      BY <1>1, WritesAreWhole
    <2> HIDE DEF stored
    <2> QED BY <2>1, <2>2, StoringKeeps
  <1>6. ASSUME NEW v \in ProcessPayout(w, now, got, handler, call)
        PROVE  WorldInv(v)
    <2> DEFINE stored == PayoutWrites(esc, call.amount)
    <2>1. /\ v = Paid(Stored(w, e, stored, got.bump_seed), PayoutLedger(esc, LedgerIn(w), call))
          /\ SeedGivesAuthority(e, got)
      BY <1>6 DEF ProcessPayout, When
    <2>2. WholeRecord(stored) /\ EscrowInitialized(stored)
      BY <1>1, WritesAreWhole
    <2>3. got.bump_seed = BumpSeed[e]
      BY <2>1 DEF SeedGivesAuthority
    <2> HIDE DEF stored
    <2>4. WorldInv(Stored(w, e, stored, got.bump_seed))
      BY <2>2, <2>3, StoringKeeps
    <2> QED BY <2>1, <2>4, PaidKeeps
  <1>7. ASSUME NEW v \in ProcessCancel(w, got, handler, call)
        PROVE  WorldInv(v)
    <2> DEFINE stored == CancelWrites(esc)
    <2>1. /\ v = Paid(Stored(w, e, stored, got.bump_seed), CancelLedger(LedgerIn(w), call))
          /\ SeedGivesAuthority(e, got)
      BY <1>7 DEF ProcessCancel, When
    <2>2. WholeRecord(stored) /\ EscrowInitialized(stored)
      BY <1>1, WritesAreWhole
    <2>3. got.bump_seed = BumpSeed[e]
      BY <2>1 DEF SeedGivesAuthority
    <2> HIDE DEF stored
    <2>4. WorldInv(Stored(w, e, stored, got.bump_seed))
      BY <2>2, <2>3, StoringKeeps
    <2> QED BY <2>1, <2>4, PaidKeeps
  <1>8. ASSUME NEW v \in ProcessComplete(w, now, got, handler, call)
        PROVE  WorldInv(v)
    <2> DEFINE stored == CompleteWrites(esc)
    <2>1. v = Stored(w, e, stored, got.bump_seed) /\ CompleteAccepts(esc, now, handler)
      BY <1>8 DEF ProcessComplete, When
    <2>2. WholeRecord(stored) /\ EscrowInitialized(stored)
      BY <1>1, WritesAreWhole
    <2>3. EscrowInitialized(esc)
      BY <2>1 DEF CompleteAccepts, StateCheck
    <2> HIDE DEF stored
    <2> QED BY <2>1, <2>2, <2>3, StoringKeeps
  <1> QED BY <1>2, <1>3, <1>4, <1>5, <1>6, <1>7, <1>8

(* process_factory_initialize stores a version and nothing else.                     *)
LEMMA FactoryInitializeKeeps ==
  ASSUME NEW w, WorldInv(w), NEW call, NEW v \in ProcessFactoryInitialize(w, call)
  PROVE  WorldInv(v)
  <1> DEFINE f == call.factory
             contents == [w.account[f] EXCEPT !.version = call.version]
  <1>1. Has(w, f, "Factory") /\ v = [w EXCEPT !.account[f].version = call.version]
    BY DEF ProcessFactoryInitialize, When
  <1>2. "account" \in DOMAIN v /\ v.account = [w.account EXCEPT ![f] = contents]
    BY <1>1 DEF WorldInv
  <1>3. /\ DOMAIN v.account = Addresses
        /\ \A a \in Addresses \ {f} : v.account[a] = w.account[a]
        /\ v.account[f] = contents
    BY <1>1, <1>2 DEF WorldInv, Has
  <1>4. "kind" \in DOMAIN contents /\ contents.kind = "Factory"
    BY <1>1 DEF WorldInv, Has
  <1> HIDE DEF contents
  <1> QED BY ZenonT(30), <1>2, <1>3, <1>4, OneAccountChanged

(* Whatever bytes and accounts an instruction of the escrow program has.             *)
LEMMA ProcessKeeps ==
  ASSUME NEW w, WorldInv(w), NEW now, NEW i, NEW v \in Process(w, now, i)
  PROVE  WorldInv(v)
  <1>1. PICK u \in Understood(i) : v \in Dispatched(w, now, u.kind, HandlerOf(u.metas), u.call)
    BY DEF Process
  <1>2. PICK d \in UnpackData(i.data) : \E metas \in Taken(d.kind, i.accounts) :
          u = [kind |-> d.kind, metas |-> metas, call |-> CallOf(metas, d.arguments)]
    BY <1>1 DEF Understood
  <1>3. d.kind \in Kinds
    <2> DEFINE named == UnpackKind[Head(i.data)[2]]
               names == UnpackArguments[named]
               places == Places(names, [a \in DOMAIN names |-> WidthOf(names[a])])
               value(n) == Value(TypeOf[n],
                             [b \in Bytes(places[n].size) |-> i.data[places[n].start + b + 2]],
                             Blank(n))
               short == \E n \in Range(names) :
                          \/ places[n].start + places[n].size + 1 > Len(i.data)
                          \/ value(n) = {}
               arguments == [n \in Range(names) |-> CHOOSE x \in value(n) : TRUE]
    <2>0. UnpackData(i.data) =
            IF i.data = <<>> \/ Head(i.data) \notin {<<"u8", t>> : t \in DOMAIN UnpackKind}
            THEN {}
            ELSE IF short THEN {} ELSE {[kind |-> named, arguments |-> arguments]}
      BY DEF UnpackData
    <2> HIDE DEF named, short, arguments
    <2>1. /\ Head(i.data) \in {<<"u8", t>> : t \in DOMAIN UnpackKind}
          /\ d.kind = UnpackKind[Head(i.data)[2]]
      BY <1>2, <2>0 DEF named
    <2>2. PICK t \in DOMAIN UnpackKind : Head(i.data) = <<"u8", t>>
      BY <2>1
    <2>3. d.kind = UnpackKind[t]
      BY <2>1, <2>2
    <2>4. \A k \in DOMAIN UnpackKind : UnpackKind[k] \in Kinds
      BY DEF UnpackKind, Kinds
    <2> QED BY <2>3, <2>4
  <1> DEFINE kind == u.kind
             handler == HandlerOf(u.metas)
             call == u.call
  <1>4. kind \in Kinds
    BY <1>2, <1>3
  <1> HIDE DEF kind, handler, call
  <1>5. v \in Dispatched(w, now, kind, handler, call)
    BY <1>1 DEF kind, handler, call
  <1>6. CASE kind = "FactoryInitialize"
    BY <1>5, <1>6, FactoryInitializeKeeps DEF Dispatched
  <1>7. CASE kind # "FactoryInitialize"
    <2>1. PICK got \in EscrowIn(w, call.escrow) :
            v \in CASE kind = "Initialize" -> ProcessInitialize(w, now, got, call)
                    [] kind = "Setup" -> ProcessSetup(w, now, got, handler, call)
                    [] kind = "StoreResults" -> ProcessStoreResults(w, now, got, handler, call)
                    [] kind = "StoreFinalAmounts" ->
                         ProcessStoreAmounts(w, now, got, handler, call)
                    [] kind = "Payout" -> ProcessPayout(w, now, got, handler, call)
                    [] kind = "Cancel" -> ProcessCancel(w, got, handler, call)
                    [] kind = "Complete" -> ProcessComplete(w, now, got, handler, call)
      BY <1>5, <1>7 DEF Dispatched
    <2>2. \/ v \in ProcessInitialize(w, now, got, call)
          \/ v \in ProcessSetup(w, now, got, handler, call)
          \/ v \in ProcessStoreResults(w, now, got, handler, call)
          \/ v \in ProcessStoreAmounts(w, now, got, handler, call)
          \/ v \in ProcessPayout(w, now, got, handler, call)
          \/ v \in ProcessCancel(w, got, handler, call)
          \/ v \in ProcessComplete(w, now, got, handler, call)
      BY <1>4, <1>7, <2>1 DEF Kinds
    <2> QED BY <2>2, HandlersKeep
  <1> QED BY <1>6, <1>7

-----------------------------------------------------------------------------
(* An instruction of one of the programs the clients use                           *)
WellBuilt(i) ==
  /\ i.program \in {"create_account", "initialize_mint", "initialize_account", "escrow"}
  /\ i.program = "create_account" => i.kind \in DOMAIN Blanks

(* Whatever program it is for.                                                       *)
LEMMA ExecuteKeeps ==
  ASSUME NEW w, WorldInv(w), NEW now, NEW signers, NEW i, WellBuilt(i),
         NEW v \in Execute(w, now, signers, i)
  PROVE  WorldInv(v)
  <1>1. CASE i.program = "create_account"
    BY <1>1, CreateAccountKeeps DEF Execute, WellBuilt
  <1>2. CASE i.program = "initialize_mint"
    BY <1>2, InitializeMintKeeps DEF Execute
  <1>3. CASE i.program = "initialize_account"
    BY <1>3, InitializeAccountKeeps DEF Execute
  <1>4. CASE i.program = "escrow"
    <2>1. v \in Process(w, now, i)
      BY <1>4 DEF Execute
    <2> QED BY <2>1, ProcessKeeps
  <1> QED BY <1>1, <1>2, <1>3, <1>4 DEF WellBuilt

(* Where instruction i takes a set of worlds                                       *)
Stepped(worlds, now, signers, i) == UNION {Execute(v, now, signers, i) : v \in worlds}

(* The sets of worlds a transaction of n instructions goes through from w          *)
IsExecution(run, w, now, tx, n) ==
  /\ run[0] = {w}
  /\ \A k \in 1 .. n :
       run[k] = Stepped(run[k - 1], now, tx.signers, tx.instructions[k])
  /\ Executed(w, now, tx) = run[n]

(* The worlds a transaction can lead to are where a run of its instructions ends.   *)
LEMMA ExecutionRuns ==
  ASSUME NEW w, NEW now, NEW tx, NEW n \in Nat, DOMAIN tx.instructions = 1 .. n
  PROVE  \E run : IsExecution(run, w, now, tx, n)
  <1> DEFINE indices == 1 .. n
             Step(worlds, i) == Stepped(worlds, now, tx.signers, i)
             Next1(f) == [s \in SUBSET indices |->
                            IF s = {} THEN {w}
                            ELSE Step(f[s \ {Max(s)}], tx.instructions[Max(s)])]
             UpTo(f, k) == \A s \in SUBSET indices : Cardinality(s) <= k => f[s] = Next1(f)[s]
             T == {k \in Nat : \E f : DOMAIN f = SUBSET indices /\ UpTo(f, k)}
             iter == CHOOSE f : f = [s \in SUBSET DOMAIN tx.instructions |->
                            IF s = {} THEN {w}
                            ELSE Step(f[s \ {Max(s)}], tx.instructions[Max(s)])]
  <1>1. Executed(w, now, tx) = iter[DOMAIN tx.instructions]
    BY DEF Executed, FoldLeft, MapThenFoldSet, Stepped
  <1>2. IsFiniteSet(indices)
    BY FS_Interval
  <1>3. 0 \in T
    <2> DEFINE start == [s \in SUBSET indices |-> {w}]
    <2>1. ASSUME NEW s \in SUBSET indices, Cardinality(s) <= 0
          PROVE  s = {}
      <3>1. s # {} => Cardinality(s) \in Nat \ {0}
        BY MaxOfSome
      <3> QED BY <2>1, <3>1
    <2>2. UpTo(start, 0) /\ DOMAIN start = SUBSET indices
      BY <2>1
    <2> HIDE DEF UpTo, start
    <2> QED BY <2>2
  <1>4. ASSUME NEW k \in Nat, k \in T
        PROVE  k + 1 \in T
    <2>1. PICK f : DOMAIN f = SUBSET indices /\ UpTo(f, k)
      BY <1>4
    <2>2. ASSUME NEW s \in SUBSET indices, Cardinality(s) <= k + 1
          PROVE  Next1(f)[s] = Next1(Next1(f))[s]
      <3>1. CASE s = {}
        BY <3>1
      <3>2. CASE s # {}
        <4>1. s \ {Max(s)} \in SUBSET indices /\ Cardinality(s \ {Max(s)}) <= k
          BY <2>2, <3>2, MaxOfSome
        <4>2. f[s \ {Max(s)}] = Next1(f)[s \ {Max(s)}]
          BY <2>1, <4>1
        <4> HIDE DEF Step
        <4>3. \A g : Next1(g)[s] = Step(g[s \ {Max(s)}], tx.instructions[Max(s)])
          BY <3>2
        <4> HIDE DEF Next1
        <4> QED BY <4>2, <4>3
      <3> QED BY <3>1, <3>2
    <2>3. UpTo(Next1(f), k + 1)
      BY <2>2
    <2>4. DOMAIN Next1(f) = SUBSET indices
      OBVIOUS
    <2> HIDE DEF UpTo, Next1
    <2> QED BY <2>3, <2>4
  <1>5. Cardinality(indices) \in T
    <2>1. Nat \subseteq T
      <3> HIDE DEF T
      <3> QED BY <1>3, <1>4, NatSetInduction
    <2> QED BY <1>2, <2>1, FS_CardinalityType
  <1>6. PICK f : DOMAIN f = SUBSET indices /\ UpTo(f, Cardinality(indices))
    BY <1>5
  <1>7. \A s \in SUBSET indices : f[s] = Next1(f)[s]
    <2>1. \A s \in SUBSET indices : Cardinality(s) <= Cardinality(indices)
      BY <1>2, FS_Subset
    <2> HIDE DEF Next1
    <2> QED BY <1>6, <2>1
  <1> HIDE DEF Step
  <1>8. \E g : g = [s \in SUBSET DOMAIN tx.instructions |->
                      IF s = {} THEN {w} ELSE Step(g[s \ {Max(s)}], tx.instructions[Max(s)])]
    <2> DEFINE g == [s \in SUBSET indices |-> f[s]]
    <2>1. \A s \in SUBSET indices : s \ {Max(s)} \in SUBSET indices /\ g[s] = f[s]
      OBVIOUS
    <2> HIDE DEF g
    <2>2. \A s \in SUBSET indices :
            g[s] = IF s = {} THEN {w} ELSE Step(g[s \ {Max(s)}], tx.instructions[Max(s)])
      BY <1>7, <2>1
    <2>3. DOMAIN g = SUBSET indices /\ g = [s \in DOMAIN g |-> g[s]]
      BY DEF g
    <2>4. g = [s \in SUBSET indices |->
                 IF s = {} THEN {w} ELSE Step(g[s \ {Max(s)}], tx.instructions[Max(s)])]
      BY <2>2, <2>3
    <2> QED BY <2>4
  <1>9. iter = [s \in SUBSET DOMAIN tx.instructions |->
                  IF s = {} THEN {w} ELSE Step(iter[s \ {Max(s)}], tx.instructions[Max(s)])]
    BY <1>8
  <1> DEFINE run == [k \in 0 .. n |-> iter[1 .. k]]
  <1> HIDE DEF iter
  <1>10. run[0] = {w}
    <2>1. 1 .. 0 = {} /\ 0 \in 0 .. n
      OBVIOUS
    <2> QED BY <1>9, <2>1
  <1>11. ASSUME NEW k \in 1 .. n
         PROVE  run[k] = Step(run[k - 1], tx.instructions[k])
    <2>1. Max(1 .. k) = k /\ (1 .. k) \ {k} = 1 .. (k - 1)
      BY MaxOfPrefix
    <2>2. (1 .. k) \in SUBSET DOMAIN tx.instructions /\ 1 .. k # {}
      <3>1. 1 .. k \subseteq 1 .. n /\ k \in 1 .. k
        OBVIOUS
      <3> QED BY <3>1
    <2>3. iter[1 .. k] = Step(iter[(1 .. k) \ {Max(1 .. k)}], tx.instructions[Max(1 .. k)])
      BY <1>9, <2>2
    <2>4. run[k] = iter[1 .. k] /\ run[k - 1] = iter[1 .. (k - 1)]
      OBVIOUS
    <2> QED BY <2>1, <2>3, <2>4
  <1>12. Executed(w, now, tx) = run[n]
    BY <1>1
  <1> HIDE DEF run
  <1> QED BY <1>10, <1>11, <1>12 DEF Step, IsExecution

(* So every world at the end of a transaction of any length keeps the invariant.     *)
LEMMA ExecutedKeeps ==
  ASSUME NEW w, WorldInv(w), NEW now, NEW tx, NEW n \in Nat, DOMAIN tx.instructions = 1 .. n,
         \A k \in 1 .. n : WellBuilt(tx.instructions[k]),
         NEW result \in Executed(w, now, tx)
  PROVE  WorldInv(result)
  <1>0. PICK run : IsExecution(run, w, now, tx, n)
    BY ExecutionRuns
  <1>1. /\ run[0] = {w}
        /\ \A k \in 1 .. n :
             run[k] = Stepped(run[k - 1], now, tx.signers, tx.instructions[k])
        /\ Executed(w, now, tx) = run[n]
    BY <1>0 DEF IsExecution
  <1> DEFINE P == {k \in 0 .. n : \A x \in run[k] : WorldInv(x)}
  <1>2. 0 \in P
    BY <1>1
  <1>3. ASSUME NEW k \in 1 .. n, k - 1 \in P
        PROVE  k \in P
    BY <1>1, <1>3, ExecuteKeeps DEF Stepped
  <1>4. \A k \in 0 .. n : k \in P
    <2> HIDE DEF P
    <2> QED BY <1>2, <1>3, PrefixInduction
  <1> QED BY <1>1, <1>4

(* A transaction of such instructions                                             *)
WellBuiltTransaction(tx) ==
  \E n \in Nat : /\ DOMAIN tx.instructions = 1 .. n
                 /\ \A k \in 1 .. n : WellBuilt(tx.instructions[k])

(* A transaction put together of well-built instructions is well built: what the    *)
(* clients do, for every request and whichever accounts they have to create.        *)
LEMMA SequencesAreWellBuilt ==
  ASSUME NEW parts, \A i \in parts : WellBuilt(i), NEW instructions \in Seq(parts), NEW signers, NEW budget
  PROVE  WellBuiltTransaction(Transaction(instructions, signers, budget))
  <1> DEFINE n == Len(instructions)
  <1>1. n \in Nat /\ DOMAIN instructions = 1 .. n /\ \A k \in 1 .. n : instructions[k] \in parts
    OBVIOUS
  <1>2. Transaction(instructions, signers, budget).instructions = instructions
    BY DEF Transaction
  <1> HIDE DEF n
  <1> QED BY <1>1, <1>2 DEF WellBuiltTransaction

(* Their building blocks                                                            *)
LEMMA BlocksAreWellBuilt ==
  /\ \A a, kind : kind \in DOMAIN Blanks => WellBuilt(NewAccount(a, kind))
  /\ \A a, m, o : /\ NewTokenAccount(a, m, o)[1] = NewAccount(a, "TokenAccount")
                  /\ WellBuilt(NewTokenAccount(a, m, o)[1])
                  /\ WellBuilt(NewTokenAccount(a, m, o)[2])
                  /\ NewTokenAccount(a, m, o) = <<NewTokenAccount(a, m, o)[1],
                                                  NewTokenAccount(a, m, o)[2]>>
  /\ \A kind, names : WellBuilt(Escrow(kind, names))
  <1>1. \A a, kind : kind \in DOMAIN Blanks => WellBuilt(NewAccount(a, kind))
    BY DEF WellBuilt, NewAccount
  <1>2. ASSUME NEW a, NEW m, NEW o
        PROVE  /\ NewTokenAccount(a, m, o)[1] = NewAccount(a, "TokenAccount")
               /\ WellBuilt(NewTokenAccount(a, m, o)[1])
               /\ WellBuilt(NewTokenAccount(a, m, o)[2])
               /\ NewTokenAccount(a, m, o) = <<NewTokenAccount(a, m, o)[1],
                                               NewTokenAccount(a, m, o)[2]>>
    <2> DEFINE init == [program |-> "initialize_account", account |-> a, mint |-> m, owner |-> o]
    <2>1. NewTokenAccount(a, m, o) = <<NewAccount(a, "TokenAccount"), init>>
      BY DEF NewTokenAccount
    <2>2. WellBuilt(init)
      BY DEF WellBuilt
    <2>3. "TokenAccount" \in DOMAIN Blanks
      BY DEF Blanks
    <2> HIDE DEF init
    <2> QED BY <1>1, <2>1, <2>2, <2>3
  <1>3. \A kind, names : WellBuilt(Escrow(kind, names))
    <2> TAKE kind, names
    <2>1. Escrow(kind, names).program = "escrow"
      BY DEF Escrow
    <2> QED BY <2>1 DEF WellBuilt
  <1> QED BY <1>1, <1>2, <1>3

(* new_factory                                                                      *)
LEMMA NewFactoryIsWellBuilt ==
  ASSUME NEW r
  PROVE  WellBuiltTransaction(NewFactory(r))
  <1> DEFINE one == NewAccount(r.factory, "Factory")
             two == Escrow("FactoryInitialize", [factory |-> r.factory, version |-> r.version])
  <1>1. \A i \in {one, two} : WellBuilt(i)
    BY BlocksAreWellBuilt DEF Blanks
  <1>2. NewFactory(r) = Transaction(<<one, two>>, {r.payer, r.factory}, Rent.Factory)
    BY DEF NewFactory
  <1> HIDE DEF one, two
  <1>3. <<one, two>> \in Seq({one, two})
    OBVIOUS
  <1> QED BY <1>1, <1>2, <1>3, SequencesAreWellBuilt

(* command_create, with or without a refund account to create                       *)
LEMMA CommandCreateIsWellBuilt ==
  ASSUME NEW r
  PROVE  WellBuiltTransaction(CommandCreate(r))
  <1> DEFINE creates == r.canceler_token = NoAccount
             vault == NewTokenAccount(r.token_account, r.token_mint, Authority[r.escrow])
             refund == NewTokenAccount(r.canceler_token_account, r.token_mint, r.canceler)
             blank == NewAccount(r.escrow, "Escrow")
             last == Escrow("Initialize", CreateNames(r))
             parts == {vault[1], vault[2], blank, refund[1], refund[2], last}
             head == <<vault[1], blank, vault[2]>>
             middle == IF creates THEN refund ELSE <<>>
  <1>1. \A i \in parts : WellBuilt(i)
    BY BlocksAreWellBuilt DEF Blanks
  <1>2. refund = <<refund[1], refund[2]>>
    BY BlocksAreWellBuilt
  <1>3. CommandCreate(r) =
          Transaction(head \o middle \o <<last>>,
                      {r.payer, r.token_account, r.escrow}
                        \cup (IF creates THEN {r.canceler_token_account} ELSE {}),
                      CreateBudget(r))
    BY DEF CommandCreate
  <1> HIDE DEF vault, refund, blank, last, creates
  <1>4. head \in Seq(parts) /\ middle \in Seq(parts) /\ <<last>> \in Seq(parts)
    <2>1. head \in Seq(parts) /\ <<last>> \in Seq(parts) /\ <<>> \in Seq(parts)
      OBVIOUS
    <2>2. refund \in Seq(parts)
      <3>1. <<refund[1], refund[2]>> \in Seq(parts)
        OBVIOUS
      <3> HIDE DEF parts
      <3> QED BY <1>2, <3>1
    <2> HIDE DEF parts
    <2> QED BY <2>1, <2>2
  <1> HIDE DEF parts, head, middle
  <1>5. head \o middle \o <<last>> \in Seq(parts)
    BY <1>4
  <1> QED BY <1>1, <1>3, <1>5, SequencesAreWellBuilt

(* command_setup, with none, one or two fee accounts to create                      *)
LEMMA CommandSetupIsWellBuilt ==
  ASSUME NEW r, NEW mint
  PROVE  WellBuiltTransaction(CommandSetup(r, mint))
  <1> DEFINE fresh == {x \in {<<r.reputation_oracle_token, r.reputation_oracle_token_account>>,
                              <<r.recording_oracle_token, r.recording_oracle_token_account>>} :
                         x[1] = NoAccount}
             rep == NewTokenAccount(r.reputation_oracle_token_account, mint, r.reputation_oracle)
             rec == NewTokenAccount(r.recording_oracle_token_account, mint, r.recording_oracle)
             last == Escrow("Setup", SetupNames(r))
             parts == {rep[1], rep[2], rec[1], rec[2], last}
             first == FeeAccount(r.reputation_oracle_token, r.reputation_oracle_token_account,
                                 mint, r.reputation_oracle)
             second == FeeAccount(r.recording_oracle_token, r.recording_oracle_token_account,
                                  mint, r.recording_oracle)
             signers == {r.payer, r.owner} \cup {x[2] : x \in fresh}
             budget == Cardinality(fresh) * Rent.TokenAccount
  <1>1. \A i \in parts : WellBuilt(i)
    BY BlocksAreWellBuilt
  <1>2. rep = <<rep[1], rep[2]>> /\ rec = <<rec[1], rec[2]>>
    BY BlocksAreWellBuilt
  <1>3. CommandSetup(r, mint) = Transaction(first \o second \o <<last>>, signers, budget)
    BY DEF CommandSetup
  <1>4. first \in {rep, <<>>} /\ second \in {rec, <<>>}
    BY DEF FeeAccount
  <1> HIDE DEF rep, rec, last, first, second, signers, budget
  <1>5. first \in Seq(parts) /\ second \in Seq(parts) /\ <<last>> \in Seq(parts)
    <2>1. <<rep[1], rep[2]>> \in Seq(parts) /\ <<rec[1], rec[2]>> \in Seq(parts)
          /\ <<last>> \in Seq(parts) /\ <<>> \in Seq(parts)
      OBVIOUS
    <2> HIDE DEF parts
    <2>2. rep \in Seq(parts) /\ rec \in Seq(parts)
      BY <1>2, <2>1
    <2> QED BY <1>4, <2>1, <2>2
  <1> HIDE DEF parts
  <1>6. first \o second \o <<last>> \in Seq(parts)
    BY <1>5
  <1> QED BY <1>1, <1>3, <1>6, SequencesAreWellBuilt

(* The transactions of one instruction                                              *)
LEMMA OthersAreWellBuilt ==
  /\ \A e : WellBuiltTransaction(Transaction(<<NewAccount(e, "Escrow")>>, {e}, Rent.Escrow))
  /\ \A c : WellBuiltTransaction(Single(c))
  <1>1. ASSUME NEW e
        PROVE  WellBuiltTransaction(Transaction(<<NewAccount(e, "Escrow")>>, {e}, Rent.Escrow))
    <2> DEFINE one == NewAccount(e, "Escrow")
    <2>1. WellBuilt(one)
      BY BlocksAreWellBuilt DEF Blanks
    <2> HIDE DEF one
    <2>2. <<one>> \in Seq({one}) /\ \A i \in {one} : WellBuilt(i)
      BY <2>1
    <2>3. WellBuiltTransaction(Transaction(<<one>>, {e}, Rent.Escrow))
      BY <2>2, SequencesAreWellBuilt
    <2> QED BY <2>3 DEF one
  <1>2. ASSUME NEW c
        PROVE  WellBuiltTransaction(Single(c))
    <2> DEFINE one == Escrow(c.kind, c.names)
               signers == IF "trusted_handler" \in DOMAIN c.names THEN {c.names.trusted_handler}
                          ELSE {}
    <2>1. WellBuilt(one)
      BY BlocksAreWellBuilt
    <2>2. Single(c) = Transaction(<<one>>, signers, 0)
      BY DEF Single
    <2> HIDE DEF one, signers
    <2>3. <<one>> \in Seq({one}) /\ \A i \in {one} : WellBuilt(i)
      BY <2>1
    <2>4. WellBuiltTransaction(Transaction(<<one>>, signers, 0))
      BY <2>3, SequencesAreWellBuilt
    <2> QED BY <2>2, <2>4
  <1> QED BY <1>1, <1>2

-----------------------------------------------------------------------------
(* The inductive invariant: every account can be read, and is seen as what is read. *)
ChainInv == WorldInv(World) /\ view = ViewOf(World)

(* A step to a world that keeps its own part keeps the invariant, ...                *)
LEMMA BecomeKeeps ==
  ASSUME NEW w, WorldInv(w), Become(w)
  PROVE  ChainInv'
  <1>1. account' = w.account /\ lamports' = w.lamports /\ view' = ViewOf(w)
    BY DEF Become
  <1>2. World'.account = w.account /\ "account" \in DOMAIN World'
    BY <1>1 DEF World
  <1>3. WorldInv(World)'
    BY <1>2 DEF WorldInv
  <1>4. ViewOf(World)' = ViewOf(w)
    BY <1>2 DEF ViewOf, Has, EscrowIn, LedgerIn
  <1> QED BY <1>1, <1>3, <1>4 DEF ChainInv

(* ... and a transaction that is executed is such a step.                           *)
LEMMA SubmitKeeps ==
  ASSUME ChainInv, NEW tx, WellBuiltTransaction(tx), Submit(tx)
  PROVE  ChainInv'
  <1>1. PICK w \in Executed(World, clock, tx) : Become(w)
    BY DEF Submit
  <1>2. WorldInv(w)
    BY ExecutedKeeps DEF ChainInv, WellBuiltTransaction
  <1> QED BY <1>1, <1>2, BecomeKeeps

(* The invariant is inductive.                                                       *)
LEMMA ChainInductive ==
  /\ Init => ChainInv
  /\ ChainInv /\ [Next]_vars => ChainInv'
  <1>1. ASSUME Init
        PROVE  ChainInv
    <2>1. account = InitialAccount /\ view = ViewOf(World)
      BY <1>1 DEF Init, World
    <2>2. /\ DOMAIN InitialAccount = Addresses
          /\ \A a \in Addresses : /\ "kind" \in DOMAIN InitialAccount[a]
                                  /\ InitialAccount[a].kind # "Escrow"
      BY DEF InitialAccount, None
    <2>3. Escrows \subseteq Addresses
      BY DEF Addresses
    <2>4. World.account = account /\ "account" \in DOMAIN World
      BY DEF World
    <2>5. WorldInv(World)
      BY <2>1, <2>2, <2>3, <2>4 DEF WorldInv
    <2> QED BY <2>1, <2>5 DEF ChainInv
  <1>2. ASSUME ChainInv, [Next]_vars
        PROVE  ChainInv'
    <2>1. ASSUME UNCHANGED <<account, lamports, view>>
          PROVE  ChainInv'
      BY SMTT(20), <1>2, <2>1 DEF ChainInv, WorldInv, World, ViewOf, Has, EscrowIn, LedgerIn
    <2>2. ASSUME NEW t \in Funding, Fund(t)
          PROVE  ChainInv'
      <3> DEFINE ledger == Transferred(LedgerIn(World), t.from, t.to, t.amount)
      <3>1. Become(Paid(World, ledger))
        BY <2>2 DEF Fund
      <3>2. WorldInv(Paid(World, ledger))
        BY <1>2, PaidKeeps DEF ChainInv
      <3> QED BY <3>1, <3>2, BecomeKeeps
    <2>3. ASSUME NEW r \in FactoryRequests, SubmitNewFactory(r)
          PROVE  ChainInv'
      BY <1>2, <2>3, NewFactoryIsWellBuilt, SubmitKeeps DEF SubmitNewFactory
    <2>4. ASSUME NEW r \in CreateRequests, SubmitCreate(r)
          PROVE  ChainInv'
      BY <1>2, <2>4, CommandCreateIsWellBuilt, SubmitKeeps DEF SubmitCreate
    <2>5. ASSUME NEW r \in SetupRequests, SubmitSetup(r)
          PROVE  ChainInv'
      <3>1. PICK mint \in SeenMints(r.escrow) : Submit(CommandSetup(r, mint))
        BY <2>5 DEF SubmitSetup
      <3>2. WellBuiltTransaction(CommandSetup(r, mint))
        BY CommandSetupIsWellBuilt
      <3> QED BY <1>2, <3>1, <3>2, SubmitKeeps
    <2>6. ASSUME NEW e \in Escrows, CreateBare(e)
          PROVE  ChainInv'
      BY <1>2, <2>6, OthersAreWellBuilt, SubmitKeeps DEF CreateBare
    <2>7. ASSUME NEW c \in Calls, SubmitCall(c)
          PROVE  ChainInv'
      BY <1>2, <2>7, OthersAreWellBuilt, SubmitKeeps DEF SubmitCall
    <2>8. CASE Tick
      BY <2>1, <2>8 DEF Tick
    <2>9. CASE UNCHANGED vars
      BY <2>1, <2>9 DEF vars
    <2> QED BY <1>2, <2>2, <2>3, <2>4, <2>5, <2>6, <2>7, <2>8, <2>9 DEF Next
  <1> QED BY <1>1, <1>2

(* What clients see of an escrow is what its bytes say.                              *)
LEMMA ViewShowsAccount ==
  ASSUME ChainInv, NEW e \in Escrows, Has(World, e, "Escrow")
  PROVE  \E got \in Unpack(account[e].data) :
           /\ view.escrow[e] = got.escrow
           /\ got.bump_seed = IF EscrowInitialized(got.escrow) THEN BumpSeed[e] ELSE 0
  <1>1. World.account = account
    BY DEF World
  <1>2. PICK got \in Unpack(account[e].data) :
          got.bump_seed = IF EscrowInitialized(got.escrow) THEN BumpSeed[e] ELSE 0
    BY <1>1 DEF ChainInv, WorldInv, Readable, Has
  <1>3. EscrowIn(World, e) = {got}
    BY <1>1, <1>2, UnpackShape DEF EscrowIn
  <1>4. view.escrow[e] = (CHOOSE x \in EscrowIn(World, e) : TRUE).escrow
    BY <1>3 DEF ChainInv, ViewOf
  <1>5. view.escrow[e] = got.escrow
    BY <1>3, <1>4
  <1> QED BY <1>2, <1>5

(* No transaction of any length, of any client, makes an account that the next     *)
(* instruction cannot read or whose vault nobody signs for (EscrowDataReadable).    *)
THEOREM AccountsStayReadable == Spec => []EscrowDataReadable
  <1>1. Init => ChainInv
    BY ChainInductive
  <1>2. ChainInv /\ [Next]_vars => ChainInv'
    BY ChainInductive
  <1>3. ChainInv => EscrowDataReadable
    <2> SUFFICES ASSUME ChainInv, NEW e \in Escrows, Has(World, e, "Escrow")
                 PROVE  \E got \in Unpack(account[e].data) :
                          got.bump_seed = IF Initialized(e) THEN BumpSeed[e] ELSE 0
      BY DEF EscrowDataReadable
    <2> QED BY ViewShowsAccount DEF Initialized
  <1> QED BY <1>1, <1>2, <1>3, PTL DEF Spec

-----------------------------------------------------------------------------
(* Instructions as bytes and as account lists                                   *)

\* f puts the parts together, one after the other
Flattens(f, parts, m) ==
  /\ FlattenSeq(parts) = f[m]
  /\ f[1] = parts[1]
  /\ \A i \in 2 .. m : f[i] = f[i - 1] \o parts[i]

\* FlattenSeq of up to four parts, step by step.  No instruction has more arguments.
LEMMA FlattenFour ==
  ASSUME NEW m \in 0 .. 4, NEW parts, Len(parts) = m
  PROVE  /\ m = 0 => FlattenSeq(parts) = parts
         /\ m # 0 => \E f : Flattens(f, parts, m)
  <1> DEFINE flatten == CHOOSE f : f = [i \in 1 .. Len(parts) |->
                          IF i = 1 THEN parts[i] ELSE f[i - 1] \o parts[i]]
             p2 == parts[1] \o parts[2]
             p3 == p2 \o parts[3]
             p4 == p3 \o parts[4]
             g == [i \in 1 .. m |-> CASE i = 1 -> parts[1] [] i = 2 -> p2 [] i = 3 -> p3
                                      [] i = 4 -> p4]
  <1>1. FlattenSeq(parts) = IF Len(parts) = 0 THEN parts ELSE flatten[Len(parts)]
    BY DEF FlattenSeq
  <1>2. g = [i \in 1 .. m |-> IF i = 1 THEN parts[i] ELSE g[i - 1] \o parts[i]]
    <2>1. ASSUME NEW i \in 1 .. m
          PROVE  g[i] = IF i = 1 THEN parts[i] ELSE g[i - 1] \o parts[i]
      <3> HIDE DEF p2, p3, p4
      <3>1. i \in {1, 2, 3, 4} /\ (i # 1 => i - 1 \in 1 .. m)
        OBVIOUS
      <3>2. i = 2 => g[i] = p2 /\ g[i - 1] = parts[1]
        BY <3>1
      <3>3. i = 3 => g[i] = p3 /\ g[i - 1] = p2
        BY <3>1
      <3>4. i = 4 => g[i] = p4 /\ g[i - 1] = p3
        BY <3>1
      <3>5. i = 1 => g[i] = parts[1]
        OBVIOUS
      <3> HIDE DEF g
      <3>6. i = 2 => p2 = g[i - 1] \o parts[i]
        BY <3>2 DEF p2
      <3>7. i = 3 => p3 = g[i - 1] \o parts[i]
        BY <3>3 DEF p3
      <3>8. i = 4 => p4 = g[i - 1] \o parts[i]
        BY <3>4 DEF p4
      <3> QED BY <3>1, <3>2, <3>3, <3>4, <3>5, <3>6, <3>7, <3>8
    <2>2. DOMAIN g = 1 .. m /\ g = [i \in DOMAIN g |-> g[i]]
      OBVIOUS
    <2> HIDE DEF g
    <2> QED BY <2>1, <2>2
  <1> HIDE DEF g
  <1>3. flatten = [i \in 1 .. m |-> IF i = 1 THEN parts[i] ELSE flatten[i - 1] \o parts[i]]
    BY <1>2
  <1> HIDE DEF flatten
  <1>4. m # 0 => /\ flatten[1] = parts[1]
                 /\ \A i \in 2 .. m : flatten[i] = flatten[i - 1] \o parts[i]
    <2>1. \A i \in 1 .. m : flatten[i] = IF i = 1 THEN parts[i] ELSE flatten[i - 1] \o parts[i]
      BY <1>3
    <2>2. m # 0 => 1 \in 1 .. m
      OBVIOUS
    <2>3. \A i \in 2 .. m : i \in 1 .. m /\ i # 1
      OBVIOUS
    <2> QED BY <2>1, <2>2, <2>3
  <1>5. m # 0 => Flattens(flatten, parts, m)
    BY <1>1, <1>4 DEF Flattens
  <1> QED BY <1>1, <1>5

\* st is where the parts of the given sizes start, one after the other
Follow(st, sizes, m) ==
  /\ \A a \in 1 .. m : st[a] \in Nat
  /\ m # 0 => st[1] = 0
  /\ \A a \in 2 .. m : st[a] = st[a - 1] + sizes[a - 1]

\* What Places makes of a short list of names, written without its fold
ArePlaces(st, names, sizes, m) ==
  /\ Follow(st, sizes, m)
  /\ \A a \in 1 .. m :
       Places(names, sizes)[names[a]] = [start |-> st[a], size |-> sizes[a]]

\* Places of up to four names are where they start.
LEMMA PlacesFour ==
  ASSUME NEW m \in 0 .. 4, NEW names \in Seq(DOMAIN TypeOf), Len(names) = m,
         \A a, b \in 1 .. m : names[a] = names[b] => a = b,
         NEW sizes, Len(sizes) = m, \A a \in 1 .. m : sizes[a] \in Nat
  PROVE  \E st : ArePlaces(st, names, sizes, m)
  <1> DEFINE start == CHOOSE f : f = [i \in 1 .. Len(sizes) |->
                        IF i = 1 THEN 0 ELSE f[i - 1] + sizes[i - 1]]
             g == [i \in 1 .. m |-> CASE i = 1 -> 0 [] i = 2 -> 0 + sizes[1]
                                      [] i = 3 -> 0 + sizes[1] + sizes[2]
                                      [] i = 4 -> 0 + sizes[1] + sizes[2] + sizes[3]]
             place(n) == LET i == CHOOSE j \in 1 .. Len(names) : names[j] = n
                         IN  [start |-> start[i], size |-> sizes[i]]
  <1>1. g = [i \in 1 .. m |-> IF i = 1 THEN 0 ELSE g[i - 1] + sizes[i - 1]]
    <2>1. ASSUME NEW i \in 1 .. m
          PROVE  g[i] = IF i = 1 THEN 0 ELSE g[i - 1] + sizes[i - 1]
      <3>1. i \in {1, 2, 3, 4} /\ (i # 1 => i - 1 \in 1 .. m)
        OBVIOUS
      <3>2. i = 2 => g[i] = 0 + sizes[1] /\ g[i - 1] = 0
        BY <3>1
      <3>3. i = 3 => g[i] = 0 + sizes[1] + sizes[2] /\ g[i - 1] = 0 + sizes[1]
        BY <3>1
      <3>4. i = 4 => g[i] = 0 + sizes[1] + sizes[2] + sizes[3]
                     /\ g[i - 1] = 0 + sizes[1] + sizes[2]
        BY <3>1
      <3>5. i = 1 => g[i] = 0
        OBVIOUS
      <3> HIDE DEF g
      <3>6. i = 2 => i - 1 = 1
        OBVIOUS
      <3>7. i = 3 => i - 1 = 2
        OBVIOUS
      <3>8. i = 4 => i - 1 = 3
        OBVIOUS
      <3> QED BY <3>1, <3>2, <3>3, <3>4, <3>5, <3>6, <3>7, <3>8
    <2>2. DOMAIN g = 1 .. m /\ g = [i \in DOMAIN g |-> g[i]]
      OBVIOUS
    <2> HIDE DEF g
    <2> QED BY <2>1, <2>2
  <1>2. \A a \in 1 .. m : g[a] \in Nat
    <2> TAKE a \in 1 .. m
    <2>1. a \in {1, 2, 3, 4} /\ (a # 1 => sizes[1] \in Nat) /\ (a \notin {1, 2} => sizes[2] \in Nat)
          /\ (a \notin {1, 2, 3} => sizes[3] \in Nat)
      OBVIOUS
    <2> QED BY <2>1
  <1> HIDE DEF g
  <1>3. start = [i \in 1 .. m |-> IF i = 1 THEN 0 ELSE start[i - 1] + sizes[i - 1]]
    <2>1. \E f : f = [i \in 1 .. Len(sizes) |-> IF i = 1 THEN 0 ELSE f[i - 1] + sizes[i - 1]]
      BY <1>1
    <2>2. start = [i \in 1 .. Len(sizes) |-> IF i = 1 THEN 0 ELSE start[i - 1] + sizes[i - 1]]
      BY <2>1
    <2> QED BY <2>2
  <1>4. Places(names, sizes) = [n \in Range(names) |-> place(n)]
    BY DEF Places
  <1> HIDE DEF start
  <1>5. Follow(start, sizes, m)
    <2>1. m # 0 => start[1] = 0
      BY <1>3
    <2>2. \A a \in 2 .. m : start[a] = start[a - 1] + sizes[a - 1]
      BY <1>3
    <2>3. m # 0 => start[1] \in Nat
      BY <2>1
    <2>4. 2 \in 1 .. m => start[2] \in Nat
      <3>1. 2 \in 1 .. m => sizes[1] \in Nat /\ start[2] = start[2 - 1] + sizes[2 - 1]
        BY <2>2
      <3> QED BY <2>1, <3>1
    <2>5. 3 \in 1 .. m => start[3] \in Nat
      <3>1. 3 \in 1 .. m => sizes[2] \in Nat /\ start[3] = start[3 - 1] + sizes[3 - 1]
        BY <2>2
      <3> QED BY <2>4, <3>1
    <2>6. 4 \in 1 .. m => start[4] \in Nat
      <3>1. 4 \in 1 .. m => sizes[3] \in Nat /\ start[4] = start[4 - 1] + sizes[4 - 1]
        BY <2>2
      <3> QED BY <2>5, <3>1
    <2>7. \A a \in 1 .. m : a \in {1, 2, 3, 4}
      OBVIOUS
    <2>8. \A a \in 1 .. m : start[a] \in Nat
      <3> TAKE a \in 1 .. m
      <3>1. CASE a = 1
        BY <2>3, <3>1
      <3>2. CASE a = 2
        BY <2>4, <3>2
      <3>3. CASE a = 3
        BY <2>5, <3>3
      <3>4. CASE a = 4
        BY <2>6, <3>4
      <3> QED BY <2>7, <3>1, <3>2, <3>3, <3>4
    <2> QED BY <2>1, <2>2, <2>8 DEF Follow
  <1>6. ASSUME NEW a \in 1 .. m
        PROVE  Places(names, sizes)[names[a]] = [start |-> start[a], size |-> sizes[a]]
    <2>1. names[a] \in Range(names)
      BY DEF Range
    <2>2. (CHOOSE j \in 1 .. Len(names) : names[j] = names[a]) = a
      OBVIOUS
    <2> QED BY ZenonT(30), <1>4, <2>1, <2>2
  <1> QED BY <1>5, <1>6 DEF ArePlaces

\* The first k parts lie in seq one after the other.
Laid(seq, parts, st, k) ==
  /\ \A a \in 1 .. k : st[a] + Len(parts[a]) <= Len(seq)
  /\ \A a \in 1 .. k : \A b \in 1 .. Len(parts[a]) : seq[st[a] + b] = parts[a][b]

\* Parts put together lie where Follow says, each as long as it was.
LEMMA PartsLieInOrder ==
  ASSUME NEW X, NEW m \in 1 .. 4, NEW parts, \A a \in 1 .. m : parts[a] \in Seq(X),
         NEW sizes, \A a \in 1 .. m : sizes[a] = Len(parts[a]),
         NEW st, Follow(st, sizes, m),
         NEW f, f[1] = parts[1], \A i \in 2 .. m : f[i] = f[i - 1] \o parts[i]
  PROVE  f[m] \in Seq(X) /\ Laid(f[m], parts, st, m)
  <1> DEFINE Good(k) == /\ f[k] \in Seq(X)
                        /\ Len(f[k]) = st[k] + Len(parts[k])
                        /\ Laid(f[k], parts, st, k)
             P == {k \in 0 .. m : k # 0 => Good(k)}
  <1>1. 0 \in P
    OBVIOUS
  <1>2. ASSUME NEW k \in 1 .. m, k - 1 \in P
        PROVE  k \in P
    <2>1. CASE k = 1
      <3>1. st[1] = 0 /\ f[1] = parts[1] /\ parts[1] \in Seq(X)
        BY <2>1 DEF Follow
      <3>2. Len(parts[1]) \in Nat /\ (\A a \in 1 .. 1 : a = 1) /\ \A b \in Nat : 0 + b = b
        BY <3>1
      <3>3. Laid(f[1], parts, st, 1)
        <4>1. \A a \in 1 .. 1 : st[a] + Len(parts[a]) <= Len(f[1])
          BY <3>1, <3>2
        <4>2. \A a \in 1 .. 1 : \A b \in 1 .. Len(parts[a]) : f[1][st[a] + b] = parts[a][b]
          BY <3>1, <3>2
        <4> QED BY <4>1, <4>2 DEF Laid
      <3> QED BY <2>1, <3>1, <3>2, <3>3
    <2>2. CASE k # 1
      <3>1. k - 1 \in 1 .. m /\ k \in 2 .. m
        BY <2>2
      <3>2. Good(k - 1)
        BY <1>2, <3>1
      <3>3. /\ st[k] = st[k - 1] + sizes[k - 1] /\ sizes[k - 1] = Len(parts[k - 1])
            /\ st[k] \in Nat
        BY <3>1 DEF Follow
      <3>4. Len(f[k - 1]) = st[k]
        BY <3>2, <3>3
      <3>5. f[k] = f[k - 1] \o parts[k] /\ parts[k] \in Seq(X) /\ f[k - 1] \in Seq(X)
        BY <3>1, <3>2
      <3>6. /\ f[k] \in Seq(X)
            /\ Len(f[k]) = st[k] + Len(parts[k])
            /\ \A i \in 1 .. st[k] + Len(parts[k]) :
                 f[k][i] = IF i <= st[k] THEN f[k - 1][i] ELSE parts[k][i - st[k]]
        <4> DEFINE s1 == f[k - 1]
                   s2 == parts[k]
        <4>1. s1 \in Seq(X) /\ s2 \in Seq(X)
          BY <3>5
        <4> HIDE DEF s1, s2
        <4>2. /\ s1 \o s2 \in Seq(X)
              /\ Len(s1 \o s2) = Len(s1) + Len(s2)
              /\ \A i \in 1 .. Len(s1) + Len(s2) :
                   (s1 \o s2)[i] = IF i <= Len(s1) THEN s1[i] ELSE s2[i - Len(s1)]
          BY <4>1, ConcatProperties
        <4>3. f[k] = s1 \o s2 /\ Len(s1) = st[k]
          BY <3>4, <3>5 DEF s1, s2
        <4> QED BY <4>2, <4>3 DEF s1, s2
      <3>7. Len(parts[k]) \in Nat /\ \A a \in 1 .. k : Len(parts[a]) \in Nat /\ st[a] \in Nat
        <4>1. \A a \in 1 .. k : a \in 1 .. m
          OBVIOUS
        <4> QED BY <3>5, <4>1 DEF Follow
      <3>8. \A a \in 1 .. k : a = k \/ a \in 1 .. (k - 1)
        OBVIOUS
      <3>9. Laid(f[k - 1], parts, st, k - 1)
        BY <3>2
      <3> HIDE DEF Good
      <3>10. ASSUME NEW a \in 1 .. k
             PROVE  st[a] + Len(parts[a]) <= Len(f[k])
        <4>1. CASE a = k
          BY <3>6, <3>7, <4>1
        <4>2. CASE a \in 1 .. (k - 1)
          <5>1. st[a] + Len(parts[a]) <= st[k]
            BY <3>4, <3>9, <4>2 DEF Laid
          <5> QED BY SMTT(20), <3>3, <3>6, <3>7, <5>1
        <4> QED BY <3>8, <4>1, <4>2
      <3>11. ASSUME NEW a \in 1 .. k, NEW b \in 1 .. Len(parts[a])
             PROVE  f[k][st[a] + b] = parts[a][b]
        <4>1. CASE a = k
          <5>1. /\ st[k] + b \in 1 .. st[k] + Len(parts[k]) /\ ~(st[k] + b <= st[k])
                /\ (st[k] + b) - st[k] = b
            BY <3>3, <3>7, <4>1
          <5> QED BY <3>6, <4>1, <5>1
        <4>2. CASE a \in 1 .. (k - 1)
          <5>1. st[a] + Len(parts[a]) <= st[k] /\ f[k - 1][st[a] + b] = parts[a][b]
            BY <3>4, <3>9, <4>2 DEF Laid
          <5>2. st[a] + b \in 1 .. st[k] + Len(parts[k]) /\ st[a] + b <= st[k]
            BY SMTT(20), <3>3, <3>7, <5>1
          <5> QED BY <3>6, <5>1, <5>2
        <4> QED BY <3>8, <4>1, <4>2
      <3>12. Laid(f[k], parts, st, k)
        BY <3>10, <3>11 DEF Laid
      <3>13. Good(k)
        BY <3>6, <3>12 DEF Good
      <3> QED BY <3>13
    <2> QED BY <2>1, <2>2
  <1>3. \A k \in 0 .. m : k \in P
    <2> HIDE DEF P
    <2>1. m \in Nat
      OBVIOUS
    <2> QED BY <1>1, <1>2, <2>1, PrefixInduction
  <1>4. Good(m)
    BY <1>3
  <1> QED BY <1>4

\* The tags and arguments pack writes are those unpack reads (instruction.rs).
LEMMA BothTablesAgree ==
  ASSUME NEW kind \in Kinds
  PROVE  /\ PackTag[kind] \in DOMAIN UnpackKind
         /\ UnpackKind[PackTag[kind]] = kind
         /\ UnpackArguments[kind] = PackArguments[kind]
  <1>1. PackTag[kind] \in DOMAIN UnpackKind /\ UnpackKind[PackTag[kind]] = kind
    BY DEF Kinds, PackTag, UnpackKind
  <1>2. UnpackArguments = PackArguments
    BY DEF UnpackArguments, PackArguments
  <1> QED BY <1>1, <1>2

\* The arguments instructions have
ArgumentNames ==
  {"version", "duration", "reputation_oracle_stake", "recording_oracle_stake", "manifest_url",
   "manifest_hash", "final_results_url", "final_results_hash", "total_amount",
   "total_recipients", "amount"}

\* An instruction has at most four arguments, all different.
LEMMA ArgumentsAreFew ==
  ASSUME NEW kind \in Kinds
  PROVE  LET names == PackArguments[kind] IN
         /\ names \in Seq(ArgumentNames)
         /\ Len(names) \in 0 .. 4
         /\ \A a, b \in 1 .. Len(names) : names[a] = names[b] => a = b
  <1> DEFINE two == <<"final_results_url", "final_results_hash">>
             sums == <<"total_amount", "total_recipients">>
             four == <<"reputation_oracle_stake", "recording_oracle_stake",
                       "manifest_url", "manifest_hash">>
             lists == {<<>>, <<"version">>, <<"duration">>, <<"amount">>, two, sums, four}
             Few(names) == /\ names \in Seq(ArgumentNames)
                           /\ Len(names) \in 0 .. 4
                           /\ \A a, b \in 1 .. Len(names) : names[a] = names[b] => a = b
  <1>1. PackArguments[kind] \in lists
    BY DEF Kinds, PackArguments
  <1>2. Few(<<>>)
    OBVIOUS
  <1>3. Few(<<"version">>) /\ Few(<<"duration">>) /\ Few(<<"amount">>)
    BY DEF ArgumentNames
  <1>4. Few(two) /\ Few(sums)
    BY DEF ArgumentNames
  <1>5. Few(four)
    BY DEF ArgumentNames
  <1> HIDE DEF two, sums, four, Few
  <1>6. Few(PackArguments[kind])
    BY <1>1, <1>2, <1>3, <1>4, <1>5
  <1> QED BY <1>6 DEF Few

\* Every argument takes up some bytes, a u8 exactly one.
LEMMA WidthsArePositive ==
  ASSUME NEW n \in ArgumentNames
  PROVE  /\ n \in DOMAIN TypeOf
         /\ WidthOf(n) \in Nat \ {0}
         /\ TypeOf[n] = "u8" => WidthOf(n) = 1
  <1>1. n \in DOMAIN TypeOf /\ TypeOf[n] \in {"u8", "word", "url", "hash"}
    BY DEF ArgumentNames, TypeOf
  <1>2. WidthOf(n) \in {1, 8, URL_LEN, 20} /\ (TypeOf[n] = "u8" => WidthOf(n) = 1)
    BY <1>1 DEF WidthOf
  <1> QED BY <1>1, <1>2, LayoutAssumption

\* An argument packed on its own unpacks to itself.
LEMMA SlotRoundTrip ==
  ASSUME NEW n \in ArgumentNames, NEW v, NEW bytes, DOMAIN bytes = Bytes(WidthOf(n)),
         \A b \in Bytes(WidthOf(n)) : bytes[b] = Byte(TypeOf[n], v, Blank(n), b)
  PROVE  Value(TypeOf[n], bytes, Blank(n)) = {v}
  <1> DEFINE type == TypeOf[n]
             size == WidthOf(n)
             default == Blank(n)
  <1>1. size \in Nat \ {0} /\ (type = "u8" => size = 1)
    BY WidthsArePositive
  <1>2. DOMAIN bytes = Bytes(size) /\ \A b \in Bytes(size) : bytes[b] = Byte(type, v, default, b)
    OBVIOUS
  <1> HIDE DEF type, size, default
  <1>3. Value(type, bytes, default) = {v}
    BY <1>1, <1>2, ValueRoundTrip
  <1> QED BY <1>3 DEF type, default

\* The arguments unpack returns
ArgumentsOf(kind, names) == [n \in Range(UnpackArguments[kind]) |-> names[n]]

(* What an instruction's builder packs unpack reads back: the kind, and every      *)
(* argument with the value it was given (instruction.rs, pack and unpack).         *)
THEOREM WireRoundTrip ==
  ASSUME NEW kind \in Kinds, NEW arguments
  PROVE  UnpackData(PackData(kind, arguments)) =
           {[kind |-> kind, arguments |-> ArgumentsOf(kind, arguments)]}
  <1> DEFINE names == PackArguments[kind]
             m == Len(names)
             tag == <<"u8", PackTag[kind]>>
             part(a) == LET n == names[a]
                        IN  [i \in 1 .. WidthOf(n) |-> Byte(TypeOf[n], arguments[n], Blank(n), i - 1)]
             parts == [a \in DOMAIN names |-> part(a)]
             sizes == [a \in DOMAIN names |-> WidthOf(names[a])]
             body == FlattenSeq(parts)
             data == <<tag>> \o body
             places == Places(names, sizes)
             value(n) == Value(TypeOf[n],
                               [i \in Bytes(places[n].size) |-> data[places[n].start + i + 2]],
                               Blank(n))
  <1>1. PackData(kind, arguments) = data
    BY DEF PackData
  <1>2. DOMAIN names = 1 .. m /\ m \in 0 .. 4 /\ names \in Seq(ArgumentNames)
        /\ \A a, b \in 1 .. m : names[a] = names[b] => a = b
    BY ArgumentsAreFew
  <1>3. ASSUME NEW a \in 1 .. m
        PROVE  /\ names[a] \in ArgumentNames
               /\ WidthOf(names[a]) \in Nat \ {0}
               /\ sizes[a] = WidthOf(names[a])
               /\ parts[a] = part(a)
               /\ TypeOf[names[a]] = "u8" => WidthOf(names[a]) = 1
    <2> HIDE DEF names, part
    <2>1. names[a] \in ArgumentNames
      BY <1>2
    <2> QED BY <1>2, <2>1, WidthsArePositive
  <1> DEFINE X == UNION {{parts[a][i] : i \in 1 .. sizes[a]} : a \in 1 .. m}
  <1>4. ASSUME NEW a \in 1 .. m
        PROVE  parts[a] \in Seq(X) /\ Len(parts[a]) = sizes[a]
    <2> DEFINE p == parts[a]
               k == sizes[a]
    <2>1. DOMAIN p = 1 .. k /\ k \in Nat /\ p = [i \in 1 .. k |-> p[i]]
      <3>1. k \in Nat /\ k = WidthOf(names[a]) /\ p = part(a)
        <4> HIDE DEF parts, sizes, names, part
        <4> QED BY <1>3
      <3>2. DOMAIN part(a) = 1 .. WidthOf(names[a])
            /\ part(a) = [i \in 1 .. WidthOf(names[a]) |-> part(a)[i]]
        <4> HIDE DEF names
        <4> QED OBVIOUS
      <3> HIDE DEF p, k, part, names
      <3> QED BY <3>1, <3>2
    <2>2. \A i \in 1 .. k : p[i] \in X
      <3> HIDE DEF parts, sizes, m
      <3> QED OBVIOUS
    <2> HIDE DEF p, k, X
    <2>3. p \in [1 .. k -> X]
      BY <2>1, <2>2
    <2>4. p \in Seq(X) /\ Len(p) = k
      BY <2>1, <2>3, SeqDef, LenProperties
    <2> QED BY <2>4 DEF p, k
  <1>5. parts \in Seq(Seq(X)) /\ Len(parts) = m /\ sizes \in Seq(Nat) /\ Len(sizes) = m
    <2> HIDE DEF names, X, part
    <2>1. DOMAIN parts = 1 .. m /\ parts = [a \in 1 .. m |-> parts[a]]
      BY <1>2
    <2>2. DOMAIN sizes = 1 .. m /\ sizes = [a \in 1 .. m |-> sizes[a]]
      BY <1>2
    <2>3. m \in Nat
      BY <1>2
    <2> HIDE DEF parts, sizes, m
    <2> QED BY SMTT(20), <1>3, <1>4, <2>1, <2>2, <2>3
  <1>6a. \E st : ArePlaces(st, names, sizes, m)
    <2>1. names \in Seq(DOMAIN TypeOf)
      <3> HIDE DEF names
      <3>1. ArgumentNames \subseteq DOMAIN TypeOf
        BY WidthsArePositive
      <3> QED BY <1>2, <3>1
    <2>2. Len(names) = m /\ \A a \in 1 .. m : sizes[a] \in Nat
      <3> HIDE DEF names, sizes
      <3> QED BY <1>3
    <2> HIDE DEF names, sizes, m
    <2> QED BY <1>2, <1>5, <2>1, <2>2, PlacesFour
  <1>6. PICK st : /\ Follow(st, sizes, m)
                  /\ \A a \in 1 .. m : places[names[a]] = [start |-> st[a], size |-> sizes[a]]
    <2> HIDE DEF names, sizes, m
    <2> QED BY <1>6a DEF ArePlaces
  <1>7. body \in Seq(X) /\ Laid(body, parts, st, m)
    <2> HIDE DEF parts, sizes, names, X
    <2>1. CASE m = 0
      <3>1. body = parts
        BY <1>5, <2>1, FlattenFour
      <3>2. parts = <<>> /\ \A a \in 1 .. m : FALSE
        BY <1>5, <2>1
      <3>3. body \in Seq(X)
        BY <3>1, <3>2
      <3> QED BY <3>2, <3>3 DEF Laid
    <2>2. CASE m # 0
      <3>1. m \in 1 .. 4
        BY <1>2, <2>2
      <3>2. \E f : Flattens(f, parts, m)
        <4>1. Len(parts) = m /\ m \in 0 .. 4
          BY <1>2, <1>5
        <4> HIDE DEF m
        <4> QED BY <2>2, <4>1, FlattenFour
      <3>3. PICK f : /\ body = f[m] /\ f[1] = parts[1]
                     /\ \A i \in 2 .. m : f[i] = f[i - 1] \o parts[i]
        BY <3>2 DEF Flattens
      <3> HIDE DEF m, body
      <3> QED BY <1>4, <1>6, <3>1, <3>3, PartsLieInOrder
    <2> QED BY <2>1, <2>2
  <1>8. /\ data # <<>> /\ Head(data) = tag /\ Len(data) = Len(body) + 1 /\ Len(body) \in Nat
        /\ \A j \in 1 .. Len(body) : data[j + 1] = body[j]
    <2> HIDE DEF body, tag, X
    <2> QED BY <1>7
  <1>9. Head(data) \in {<<"u8", t>> : t \in DOMAIN UnpackKind} /\ Head(data)[2] = PackTag[kind]
    <2> HIDE DEF body
    <2> QED BY <1>8, BothTablesAgree
  <1>10. UnpackData(data) =
           IF \E n \in Range(names) :
                \/ places[n].start + places[n].size + 1 > Len(data)
                \/ value(n) = {}
           THEN {}
           ELSE {[kind |-> kind, arguments |-> [n \in Range(names) |-> CHOOSE v \in value(n) : TRUE]]}
    <2> DEFINE Got(k, ns) ==
                 LET at == Places(ns, [a \in DOMAIN ns |-> WidthOf(ns[a])])
                     is(n) == Value(TypeOf[n],
                                    [i \in Bytes(at[n].size) |-> data[at[n].start + i + 2]],
                                    Blank(n))
                 IN  IF \E n \in Range(ns) :
                          \/ at[n].start + at[n].size + 1 > Len(data)
                          \/ is(n) = {}
                     THEN {}
                     ELSE {[kind |-> k, arguments |-> [n \in Range(ns) |-> CHOOSE v \in is(n) : TRUE]]}
               read == UnpackKind[Head(data)[2]]
    <2> HIDE DEF data
    <2>1. UnpackData(data) =
            IF data = <<>> \/ Head(data) \notin {<<"u8", t>> : t \in DOMAIN UnpackKind} THEN {}
            ELSE Got(read, UnpackArguments[read])
      BY DEF UnpackData
    <2>2. Got(kind, names) =
            IF \E n \in Range(names) :
                 \/ places[n].start + places[n].size + 1 > Len(data)
                 \/ value(n) = {}
            THEN {}
            ELSE {[kind |-> kind,
                   arguments |-> [n \in Range(names) |-> CHOOSE v \in value(n) : TRUE]]}
      OBVIOUS
    <2>3. read = kind /\ UnpackArguments[kind] = names
      BY <1>9, BothTablesAgree
    <2> HIDE DEF Got, names, places, value, read
    <2>4. UnpackData(data) = Got(kind, names)
      BY <1>8, <1>9, <2>1, <2>3
    <2> QED BY <2>2, <2>4
  <1>11. ASSUME NEW a \in 1 .. m
         PROVE  /\ places[names[a]].start + places[names[a]].size + 1 <= Len(data)
                /\ value(names[a]) = {arguments[names[a]]}
    <2> DEFINE n == names[a]
               type == TypeOf[n]
               size == WidthOf(n)
               v == arguments[n]
               default == Blank(n)
               bytes == [i \in Bytes(size) |-> data[st[a] + i + 2]]
    <2>1. /\ places[n].start = st[a] /\ places[n].size = size /\ st[a] \in Nat
          /\ size \in Nat \ {0} /\ (type = "u8" => size = 1) /\ Len(parts[a]) = size
      <3>1. places[n] = [start |-> st[a], size |-> sizes[a]] /\ st[a] \in Nat
        <4> HIDE DEF places, sizes, names
        <4> QED BY <1>6 DEF Follow
      <3>2. sizes[a] = size /\ size \in Nat \ {0} /\ (type = "u8" => size = 1)
        <4> HIDE DEF sizes, names
        <4> QED BY <1>3
      <3>3. Len(parts[a]) = sizes[a]
        BY <1>4
      <3> HIDE DEF names, places, sizes, parts, size, type, n
      <3> QED BY <3>1, <3>2, <3>3
    <2>2. /\ st[a] + size <= Len(body)
          /\ \A b \in 1 .. size : body[st[a] + b] = parts[a][b]
      <3> HIDE DEF names, body, parts, size
      <3> QED BY <1>7, <2>1 DEF Laid
    <2>3. \A b \in Bytes(size) : bytes[b] = Byte(type, v, default, b)
      <3> TAKE b \in Bytes(size)
      <3>1. /\ b \in Nat /\ b + 1 \in 1 .. size /\ (b + 1) - 1 = b
            /\ st[a] + (b + 1) \in 1 .. Len(body)
            /\ (st[a] + (b + 1)) + 1 = st[a] + b + 2
        <4>1. size \in Nat /\ st[a] \in Nat /\ st[a] + size <= Len(body) /\ Len(body) \in Nat
              /\ b \in Bytes(size)
          <5> HIDE DEF body, size
          <5> QED BY <1>8, <2>1, <2>2
        <4> HIDE DEF body, size
        <4> QED BY <4>1 DEF Bytes
      <3>2. bytes[b] = body[st[a] + (b + 1)]
        <4> HIDE DEF body, size, data
        <4> QED BY <1>8, <3>1
      <3>3. bytes[b] = part(a)[b + 1]
        <4> HIDE DEF body, size, bytes, part, parts
        <4> QED BY <1>3, <2>2, <3>1, <3>2
      <3>4. part(a)[b + 1] = Byte(type, v, default, b)
        <4> HIDE DEF names
        <4> QED BY <3>1
      <3> QED BY <3>3, <3>4
    <2>4. Value(type, bytes, default) = {v}
      <3>1. DOMAIN bytes = Bytes(size)
        OBVIOUS
      <3>2. n \in ArgumentNames
        BY <1>3
      <3> HIDE DEF bytes, names
      <3> QED BY <2>3, <3>1, <3>2, SlotRoundTrip
    <2>5. value(n) = Value(type, bytes, default)
      <3> HIDE DEF places, data, names
      <3> QED BY <2>1
    <2>6. Len(data) = Len(body) + 1 /\ Len(body) \in Nat
      BY <1>8
    <2> HIDE DEF value, places, data, body, size, n
    <2>7. places[n].start + places[n].size + 1 <= Len(data)
      BY <2>1, <2>2, <2>6
    <2> QED BY <2>4, <2>5, <2>7 DEF n
  <1>12. Range(names) = {names[a] : a \in 1 .. m}
    BY <1>2 DEF Range
  <1> HIDE DEF value, data, names
  <1>13. \A n \in Range(names) : /\ ~(places[n].start + places[n].size + 1 > Len(data))
                                 /\ value(n) = {arguments[n]}
    <2>1. \A a \in 1 .. m : places[names[a]].start \in Nat /\ places[names[a]].size \in Nat
      <3> TAKE a \in 1 .. m
      <3>1. sizes[a] \in Nat
        <4> HIDE DEF sizes
        <4> QED BY <1>3
      <3> HIDE DEF places, sizes
      <3>2. places[names[a]] = [start |-> st[a], size |-> sizes[a]] /\ st[a] \in Nat
        BY <1>6 DEF Follow
      <3> QED BY <3>1, <3>2
    <2>2. Len(data) \in Nat
      BY <1>8
    <2> HIDE DEF places, m
    <2>3. ASSUME NEW a \in 1 .. m
          PROVE  /\ ~(places[names[a]].start + places[names[a]].size + 1 > Len(data))
                 /\ value(names[a]) = {arguments[names[a]]}
      <3> DEFINE p == places[names[a]]
      <3>1. p.start \in Nat /\ p.size \in Nat /\ p.start + p.size + 1 <= Len(data)
        BY <1>11, <2>1
      <3> HIDE DEF p
      <3>2. ~(p.start + p.size + 1 > Len(data))
        BY <2>2, <3>1
      <3> QED BY <1>11, <3>2 DEF p
    <2> QED BY <1>12, <2>3
  <1>14. [n \in Range(names) |-> CHOOSE v \in value(n) : TRUE] = ArgumentsOf(kind, arguments)
    <2>1. UnpackArguments[kind] = names
      BY BothTablesAgree DEF names
    <2> QED BY <1>13, <2>1 DEF ArgumentsOf
  <1> QED BY <1>1, <1>10, <1>13, <1>14

-----------------------------------------------------------------------------
\* The roles accounts have, numbered
RoleIndex ==
  [escrow |-> 1, factory |-> 2, clock |-> 3, token_mint |-> 4, token_account |-> 5,
   launcher |-> 6, canceler |-> 7, canceler_token_account |-> 8, trusted_handler |-> 9,
   reputation_oracle |-> 10, reputation_oracle_token_account |-> 11,
   recording_oracle |-> 12, recording_oracle_token_account |-> 13, authority |-> 14,
   recipient_token_account |-> 15, token_program |-> 16]

\* The accounts the builder of an instruction lists are those its handler takes, in
\* the same order; no role is named twice, and the trusted handler signs.
SameRoles(kind) ==
  LET built == BuiltAccounts[kind]
      taken == TakenAccounts[kind]
  IN  /\ Len(built) = Len(taken) /\ Len(taken) \in 1 .. 9
      /\ DOMAIN built = 1 .. Len(taken) /\ DOMAIN taken = 1 .. Len(taken)
      /\ \A a \in 1 .. Len(taken) :
           /\ built[a].role = taken[a]
           /\ taken[a] \in DOMAIN RoleIndex
           /\ \A b \in 1 .. Len(taken) : RoleIndex[taken[a]] = RoleIndex[taken[b]] => a = b
           /\ taken[a] = "trusted_handler" => built[a].is_signer = TRUE

\* So it is for each of the instructions (instruction.rs, processor.rs).
LEMMA AccountTablesAgree ==
  ASSUME NEW kind \in Kinds
  PROVE  SameRoles(kind)
  <1>1. SameRoles("FactoryInitialize")
    BY DEF SameRoles, BuiltAccounts, TakenAccounts, RoleIndex, W, R, S
  <1>2. SameRoles("Initialize")
    BY DEF SameRoles, BuiltAccounts, TakenAccounts, RoleIndex, W, R, S
  <1>3. SameRoles("Setup")
    BY DEF SameRoles, BuiltAccounts, TakenAccounts, RoleIndex, W, R, S
  <1>4. SameRoles("StoreResults")
    BY DEF SameRoles, BuiltAccounts, TakenAccounts, RoleIndex, W, R, S
  <1>5. SameRoles("StoreFinalAmounts")
    BY DEF SameRoles, BuiltAccounts, TakenAccounts, RoleIndex, W, R, S
  <1>6. SameRoles("Payout")
    BY DEF SameRoles, BuiltAccounts, TakenAccounts, RoleIndex, W, R, S
  <1>7. SameRoles("Cancel")
    BY DEF SameRoles, BuiltAccounts, TakenAccounts, RoleIndex, W, R, S
  <1>8. SameRoles("Complete")
    BY DEF SameRoles, BuiltAccounts, TakenAccounts, RoleIndex, W, R, S
  <1>9. SameRoles(kind)
    BY <1>1, <1>2, <1>3, <1>4, <1>5, <1>6, <1>7, <1>8 DEF Kinds
  <1> QED BY <1>9

\* The names an escrow instruction is built from: those of the caller and two more
Given(names) == Joined([clock |-> "clock", token_program |-> "spl_token"], names)

\* The two are not the caller's; what else the caller names is not replaced.
LEMMA GivenAreNamed ==
  ASSUME NEW names
  PROVE  /\ \A n \in DOMAIN names \ {"clock", "token_program"} : Given(names)[n] = names[n]
         /\ Given(names)["clock"] = "clock" /\ Given(names)["token_program"] = "spl_token"
  BY DEF Given, Joined

\* What next_account_info gives for the list of a builder
MetasOf(kind, names) ==
  [role \in Range(TakenAccounts[kind]) |->
     LET a == CHOOSE b \in DOMAIN TakenAccounts[kind] : TakenAccounts[kind][b] = role
     IN  [key |-> Given(names)[role], is_signer |-> BuiltAccounts[kind][a].is_signer,
          is_writable |-> BuiltAccounts[kind][a].is_writable]]

\* The handler finds each account of the builder under its role.
LEMMA AccountsAreTaken ==
  ASSUME NEW kind \in Kinds, NEW names
  PROVE  Taken(kind, Escrow(kind, names).accounts) = {MetasOf(kind, names)}
  <1> DEFINE built == BuiltAccounts[kind]
             roles == TakenAccounts[kind]
             m == Len(roles)
             accounts == [a \in DOMAIN built |->
                            [key |-> Given(names)[built[a].role],
                             is_signer |-> built[a].is_signer,
                             is_writable |-> built[a].is_writable]]
             at(role) == CHOOSE b \in DOMAIN roles : roles[b] = role
  <1>1. Escrow(kind, names).accounts = accounts
    BY DEF Escrow, Built, Given
  <1>2. /\ DOMAIN built = 1 .. m /\ DOMAIN roles = 1 .. m /\ m \in Nat
        /\ \A a \in 1 .. m : built[a].role = roles[a]
    <2>1. SameRoles(kind)
      BY AccountTablesAgree
    <2>2. /\ DOMAIN built = 1 .. m /\ DOMAIN roles = 1 .. m /\ m \in 1 .. 9
          /\ \A a \in 1 .. m : built[a].role = roles[a]
      BY <2>1 DEF SameRoles
    <2> HIDE DEF built, roles, m
    <2> QED BY <2>2
  <1>3. Len(accounts) = m
    <2> HIDE DEF built, roles, m
    <2> QED BY <1>2, LenProperties
  <1>4. Taken(kind, accounts) =
          IF Len(accounts) < m THEN {}
          ELSE {[role \in Range(roles) |-> accounts[at(role)]]}
    <2> HIDE DEF accounts
    <2> QED BY DEF Taken
  <1>5. ASSUME NEW role \in Range(roles)
        PROVE  accounts[at(role)] = MetasOf(kind, names)[role]
    <2>1. at(role) \in DOMAIN roles /\ roles[at(role)] = role
      BY DEF Range
    <2>2. built[at(role)].role = role /\ at(role) \in DOMAIN built
      <3> HIDE DEF built, roles, m, at
      <3> QED BY <1>2, <2>1
    <2>3. accounts[at(role)] = [key |-> Given(names)[role],
                                is_signer |-> built[at(role)].is_signer,
                                is_writable |-> built[at(role)].is_writable]
      <3> HIDE DEF built, roles, m, at
      <3> QED BY <2>2
    <2> QED BY <2>3 DEF MetasOf
  <1>6. [role \in Range(roles) |-> accounts[at(role)]] = MetasOf(kind, names)
    <2>1. DOMAIN MetasOf(kind, names) = Range(roles)
          /\ MetasOf(kind, names) = [role \in DOMAIN MetasOf(kind, names) |-> MetasOf(kind, names)[role]]
      BY DEF MetasOf
    <2> HIDE DEF built, roles, accounts, at
    <2> QED BY <1>5, <2>1
  <1> HIDE DEF accounts, m
  <1> QED BY <1>1, <1>2, <1>3, <1>4, <1>6

\* What the handlers get to see of a call that was built for a kind and names
Sees(u, kind, names) ==
  /\ u.kind = kind
  /\ \A n \in NeededBy(kind) : u.call[n] = names[n]
  /\ kind = "Setup" => u.call.manifest = names.manifest_url
  /\ kind = "StoreResults" => u.call.final_results = names.final_results_url
  /\ "trusted_handler" \in NeededBy(kind) =>
       HandlerOf(u.metas) = [key |-> names.trusted_handler, is_signer |-> TRUE]
  /\ "clock" \in DOMAIN u.metas => u.metas["clock"].key = "clock"
  /\ kind \in {"Payout", "Cancel"} => u.call.token_program = "spl_token"

\* From an instruction of a builder the program makes one call, the one that was meant.
LEMMA CallsAreUnderstood ==
  ASSUME NEW kind, NEW names, FitsBuilder(kind, names)
  PROVE  \E u : Understood(Escrow(kind, names)) = {u} /\ Sees(u, kind, names)
  <1> DEFINE i == Escrow(kind, names)
             given == Given(names)
             metas == MetasOf(kind, names)
             arguments == ArgumentsOf(kind, given)
             call == CallOf(metas, arguments)
             u == [kind |-> kind, metas |-> metas, call |-> call]
  <1>1. kind \in Kinds
    BY DEF FitsBuilder
  <1>2. UnpackData(i.data) = {[kind |-> kind, arguments |-> arguments]}
    <2>1. i.data = PackData(kind, given)
      BY DEF Escrow, Built, Given
    <2> QED BY <1>1, <2>1, WireRoundTrip
  <1>3. Taken(kind, i.accounts) = {metas}
    BY <1>1, AccountsAreTaken
  <1>4. Understood(i) = {u}
    <2> DEFINE d == [kind |-> kind, arguments |-> arguments]
    <2>1. d.kind = kind /\ d.arguments = arguments
      OBVIOUS
    <2> HIDE DEF i, d, metas, arguments
    <2>2. UnpackData(i.data) = {d}
      BY <1>2 DEF d
    <2>3. {[kind |-> d.kind, metas |-> ms, call |-> CallOf(ms, d.arguments)] :
             ms \in Taken(d.kind, i.accounts)} = {u}
      BY <1>3, <2>1
    <2> HIDE DEF u
    <2> QED BY <2>2, <2>3 DEF Understood
  <1>5. DOMAIN arguments = Range(PackArguments[kind])
        /\ \A n \in DOMAIN arguments : arguments[n] = given[n]
    BY <1>1, BothTablesAgree DEF ArgumentsOf
  <1>6. DOMAIN metas = Range(TakenAccounts[kind])
        /\ \A role \in DOMAIN metas : metas[role].key = given[role]
    BY DEF MetasOf
  <1>7. Range(TakenAccounts[kind]) \subseteq DOMAIN RoleIndex
        /\ Range(TakenAccounts[kind]) = {BuiltAccounts[kind][a].role : a \in DOMAIN BuiltAccounts[kind]}
    <2> DEFINE built == BuiltAccounts[kind]
               roles == TakenAccounts[kind]
               m == Len(roles)
    <2>1. SameRoles(kind)
      BY <1>1, AccountTablesAgree
    <2>2. /\ DOMAIN built = 1 .. m /\ DOMAIN roles = 1 .. m
          /\ \A a \in 1 .. m : built[a].role = roles[a] /\ roles[a] \in DOMAIN RoleIndex
      BY <2>1 DEF SameRoles
    <2> HIDE DEF built, roles, m
    <2>3. Range(roles) = {roles[a] : a \in 1 .. m}
      BY <2>2 DEF Range
    <2>4. Range(roles) \subseteq DOMAIN RoleIndex /\ Range(roles) = {built[a].role : a \in DOMAIN built}
      BY <2>2, <2>3
    <2> QED BY <2>4 DEF built, roles
  <1>8. Range(PackArguments[kind]) \subseteq ArgumentNames
    BY <1>1, ArgumentsAreFew DEF Range
  <1>9. ArgumentNames \cap DOMAIN RoleIndex = {}
        /\ {"manifest", "final_results"} \cap (ArgumentNames \cup DOMAIN RoleIndex) = {}
    BY DEF ArgumentNames, RoleIndex
  <1>10. \A n \in NeededBy(kind) : given[n] = names[n]
    BY GivenAreNamed DEF FitsBuilder, NeededBy
  <1> HIDE DEF given, metas, arguments
  <1> DEFINE keys == [role \in DOMAIN metas |-> metas[role].key]
             Document(n) == IF n \in DOMAIN arguments THEN arguments[n] ELSE NoDocument
             documents == [manifest |-> Document("manifest_url"),
                           final_results |-> Document("final_results_url")]
  <1>11. call = Joined(keys, Joined(arguments, documents))
    BY DEF CallOf
  <1>12. /\ \A n \in DOMAIN metas : call[n] = metas[n].key
         /\ \A n \in DOMAIN arguments \ DOMAIN metas : call[n] = arguments[n]
         /\ \A n \in {"manifest", "final_results"} \ (DOMAIN metas \cup DOMAIN arguments) :
              call[n] = documents[n]
    <2>1. DOMAIN documents = {"manifest", "final_results"} /\ DOMAIN keys = DOMAIN metas
          /\ \A n \in DOMAIN metas : keys[n] = metas[n].key
      OBVIOUS
    <2> HIDE DEF call, documents, keys
    <2> QED BY <1>11, <2>1 DEF Joined
  <1> HIDE DEF call
  <1>13. \A n \in NeededBy(kind) : call[n] = names[n]
    BY <1>5, <1>6, <1>7, <1>8, <1>9, <1>10, <1>12 DEF NeededBy
  <1>14. kind = "Setup" => call.manifest = names.manifest_url
    <2>1. "manifest_url" \in Range(PackArguments["Setup"])
          /\ "manifest_url" \in NeededBy("Setup")
      BY DEF PackArguments, Range, NeededBy
    <2>2. call["manifest"] = documents["manifest"]
      BY <1>5, <1>6, <1>7, <1>8, <1>9, <1>12
    <2> QED BY <1>5, <1>10, <2>1, <2>2
  <1>15. kind = "StoreResults" => call.final_results = names.final_results_url
    <2>1. "final_results_url" \in Range(PackArguments["StoreResults"])
          /\ "final_results_url" \in NeededBy("StoreResults")
      BY DEF PackArguments, Range, NeededBy
    <2>2. call["final_results"] = documents["final_results"]
      BY <1>5, <1>6, <1>7, <1>8, <1>9, <1>12
    <2> QED BY <1>5, <1>10, <2>1, <2>2
  <1>16. "trusted_handler" \in NeededBy(kind) =>
           HandlerOf(metas) = [key |-> names.trusted_handler, is_signer |-> TRUE]
    <2> SUFFICES ASSUME "trusted_handler" \in NeededBy(kind)
                 PROVE  HandlerOf(metas) = [key |-> names.trusted_handler, is_signer |-> TRUE]
      OBVIOUS
    <2>1. "trusted_handler" \in Range(TakenAccounts[kind])
      <3>1. "trusted_handler" \notin ArgumentNames
        BY DEF ArgumentNames
      <3> QED BY <1>7, <1>8, <3>1 DEF NeededBy
    <2> DEFINE a == CHOOSE b \in DOMAIN TakenAccounts[kind] :
                      TakenAccounts[kind][b] = "trusted_handler"
    <2>2. a \in DOMAIN TakenAccounts[kind] /\ TakenAccounts[kind][a] = "trusted_handler"
      BY <2>1 DEF Range
    <2>3. BuiltAccounts[kind][a].is_signer = TRUE
      BY ZenonT(30), <1>1, <2>2, AccountTablesAgree DEF SameRoles
    <2>4. metas["trusted_handler"].is_signer = BuiltAccounts[kind][a].is_signer
      BY <2>1 DEF metas, MetasOf
    <2> QED BY <1>6, <1>10, <2>1, <2>3, <2>4 DEF HandlerOf
  <1>19. "clock" \in DOMAIN metas => metas["clock"].key = "clock"
    <2>1. given["clock"] = "clock"
      BY GivenAreNamed DEF given
    <2> QED BY <1>6, <2>1
  <1>20. kind \in {"Payout", "Cancel"} => call.token_program = "spl_token"
    <2>1. given["token_program"] = "spl_token"
      BY GivenAreNamed DEF given
    <2>2. "token_program" \in Range(TakenAccounts["Payout"]) \cap Range(TakenAccounts["Cancel"])
      <3>1. TakenAccounts["Payout"][9] = "token_program" /\ 9 \in DOMAIN TakenAccounts["Payout"]
        BY DEF TakenAccounts
      <3>2. TakenAccounts["Cancel"][6] = "token_program" /\ 6 \in DOMAIN TakenAccounts["Cancel"]
        BY DEF TakenAccounts
      <3> QED BY <3>1, <3>2 DEF Range
    <2> QED BY <1>6, <1>12, <2>1, <2>2
  <1>17. u.kind = kind /\ u.metas = metas /\ u.call = call
    OBVIOUS
  <1> HIDE DEF u
  <1>18. Sees(u, kind, names)
    BY <1>13, <1>14, <1>15, <1>16, <1>17, <1>19, <1>20 DEF Sees
  <1> QED BY <1>4, <1>18
=============================================================================
