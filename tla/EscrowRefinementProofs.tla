------------------------ MODULE EscrowRefinementProofs ------------------------
(****************************************************************************)
(* The whole path implements EscrowProgram (ChainImplementsProgram), the balance *)
(* the API reports is what Cancel refunds (BalanceStaysRefundable), what the        *)
(* builders build is executed (BuildersAlwaysReach), and so are the transactions    *)
(* that create accounts first (RequestsAlwaysGoThrough), but never new_job's       *)
(* (NewJobIsRefused).                                                         *)
(*                                                                            *)
(* First what the clients see of a world (SoundWorld, ViewOf) and how each kind   *)
(* of write changes it; then that a handler decides on the accounts as they are    *)
(* what it would decide on them as MintOf and OwnerOf foretell; then one lemma     *)
(* per process_* function, the transactions of the clients, and the refinement;    *)
(* then the converse, once more one lemma per process_* function; last the          *)
(* instructions of command_create and command_setup, one after another.            *)
(****************************************************************************)
EXTENDS EscrowChainProofs

\* What clients see of the contents of one account
VersionOf(contents) == IF contents.kind = "Factory" THEN contents.version ELSE 0
AmountOf(contents) == IF contents.kind = "TokenAccount" THEN contents.amount ELSE 0
RecordOf(contents) ==
  LET got == IF contents.kind = "Escrow" THEN Unpack(contents.data) ELSE {}
  IN  IF got = {} THEN BlankEscrow ELSE (CHOOSE x \in got : TRUE).escrow

\* The view, account by account
LEMMA ViewIsOfContents ==
  ASSUME NEW w
  PROVE  ViewOf(w) = [version |-> [f \in Factories |-> VersionOf(w.account[f])],
                      escrow |-> [e \in Escrows |-> RecordOf(w.account[e])],
                      balance |-> [a \in TokenAccounts |-> AmountOf(w.account[a])]]
  <1> DEFINE version == [f \in Factories |-> IF Has(w, f, "Factory") THEN w.account[f].version ELSE 0]
             record(e) == IF EscrowIn(w, e) = {} THEN BlankEscrow
                          ELSE (CHOOSE got \in EscrowIn(w, e) : TRUE).escrow
             records == [e \in Escrows |-> record(e)]
             balance == [a \in TokenAccounts |-> LedgerIn(w)[a]]
  <1>1. version = [f \in Factories |-> VersionOf(w.account[f])]
    BY DEF VersionOf, Has, Addresses
  <1>2. \A e \in Escrows : EscrowIn(w, e) =
          IF w.account[e].kind = "Escrow" THEN Unpack(w.account[e].data) ELSE {}
    BY DEF EscrowIn, Has, Addresses
  <1>3. \A e \in Escrows : record(e) = RecordOf(w.account[e])
    <2> TAKE e \in Escrows
    <2> DEFINE G == IF w.account[e].kind = "Escrow" THEN Unpack(w.account[e].data) ELSE {}
    <2>1. RecordOf(w.account[e]) = IF G = {} THEN BlankEscrow ELSE (CHOOSE x \in G : TRUE).escrow
      BY DEF RecordOf
    <2>2. EscrowIn(w, e) = G
      BY <1>2
    <2> HIDE DEF G
    <2> QED BY <2>1, <2>2
  <1>4. balance = [a \in TokenAccounts |-> AmountOf(w.account[a])]
    BY DEF LedgerIn, AmountOf, Has, Addresses
  <1>5. ViewOf(w) = [version |-> version, escrow |-> records, balance |-> balance]
    BY DEF ViewOf
  <1>6. records = [e \in Escrows |-> RecordOf(w.account[e])]
    <2> HIDE DEF record
    <2> QED BY <1>3
  <1> HIDE DEF version, records, balance
  <1> QED BY <1>1, <1>4, <1>5, <1>6

\* A function, and so the same as any other with its domain and values
IsRecord(f) == f = [x \in DOMAIN f |-> f[x]]

\* A token account between create_account and initialize_account, or after it
TokenAgrees(a, contents) ==
  /\ IsRecord(contents)
  /\ {"mint", "owner", "amount"} \subseteq DOMAIN contents
  /\ \/ contents.mint = NoMint /\ contents.owner = NoKey
     \/ /\ contents.mint = MintOf[a] /\ contents.owner = OwnerOf[a]
        /\ contents.mint \in NativeMints

\* The mints are those there at the start, initialised.
MintAgrees(a, contents) ==
  /\ contents.kind = "Mint" <=> a \in NativeMints
  /\ a \in NativeMints => contents.initialized

\* The fee payer has some balance, never less than nothing.
Solvent(w) == "lamports" \in DOMAIN w /\ w.lamports \in Nat

\* An account of the token program, initialised or not
IsTokenAccount(w, a) == w.account[a].kind = "TokenAccount"

\* An escrow that is blank, or was initialised with names of some request
RecordAgrees(w, e, esc) ==
  \/ esc = BlankEscrow
  \/ \E n \in InitializeNames :
       /\ n.escrow = e
       /\ n.token_mint \in NativeMints
       /\ esc.token_mint = n.token_mint
       /\ esc.token_account = n.token_account
       /\ esc.canceler_token_account = n.canceler_token_account
       /\ IsTokenAccount(w, n.token_account)
       /\ IsTokenAccount(w, n.canceler_token_account)

\* The accounts of a world are what their names and the escrows say they are.
WorldAgrees(w) ==
  /\ \A a \in Addresses : IsTokenAccount(w, a) => TokenAgrees(a, w.account[a])
  /\ \A a \in Addresses : MintAgrees(a, w.account[a])
  /\ Solvent(w)
  /\ \A a \in Addresses : w.account[a].kind = "Factory" => "version" \in DOMAIN w.account[a]
  /\ \A e \in Escrows : RecordAgrees(w, e, RecordOf(w.account[e]))

\* Both parts
SoundWorld(w) == WorldInv(w) /\ WorldAgrees(w)

\* Everything with an address
LEMMA Subsets ==
  /\ Escrows \subseteq Addresses /\ Factories \subseteq Addresses
  /\ TokenAccounts \subseteq Addresses /\ Mints \subseteq Addresses
  BY DEF Addresses

\* Names of an Initialize are of accounts of the right sort.
LEMMA InitializeNamesFit ==
  ASSUME NEW n \in InitializeNames
  PROVE  /\ FitsBuilder("Initialize", n)
         /\ n.escrow \in Escrows /\ n.factory \in Factories
         /\ n.token_account \in TokenAccounts
         /\ n.canceler_token_account \in TokenAccounts
  <1>1. FitsBuilder("Initialize", n)
    BY RequestsAssumption DEF InitializeNames, CallsOf
  <1>2. {"escrow", "factory", "token_account", "canceler_token_account"} \subseteq
          NeededBy("Initialize") \cap DOMAIN RolesOf
    BY DEF NeededBy, BuiltAccounts, RolesOf, W, R
  <1>3. \A x \in {"escrow", "factory", "token_account", "canceler_token_account"} :
          n[x] \in RolesOf[x]
    BY <1>1, <1>2 DEF FitsBuilder
  <1>4. /\ RolesOf["escrow"] = Escrows /\ RolesOf["factory"] = Factories
        /\ RolesOf["token_account"] = TokenAccounts
        /\ RolesOf["canceler_token_account"] = TokenAccounts
    BY DEF RolesOf
  <1> QED BY <1>1, <1>3, <1>4

\* One account became another of the same appearance
LEMMA UnseenChange ==
  ASSUME NEW w, SoundWorld(w), NEW v, WorldInv(v), Solvent(v), NEW x,
         \A a \in Addresses \ {x} : v.account[a] = w.account[a],
         x \in Addresses =>
           /\ VersionOf(v.account[x]) = VersionOf(w.account[x])
           /\ AmountOf(v.account[x]) = AmountOf(w.account[x])
           /\ RecordOf(v.account[x]) = RecordOf(w.account[x])
           /\ IsTokenAccount(w, x) => IsTokenAccount(v, x)
           /\ IsTokenAccount(v, x) => TokenAgrees(x, v.account[x])
           /\ MintAgrees(x, v.account[x])
           /\ v.account[x].kind = "Factory" => "version" \in DOMAIN v.account[x]
  PROVE  SoundWorld(v) /\ ViewOf(v) = ViewOf(w)
  <1>1. \A a \in Addresses : /\ VersionOf(v.account[a]) = VersionOf(w.account[a])
                             /\ AmountOf(v.account[a]) = AmountOf(w.account[a])
                             /\ RecordOf(v.account[a]) = RecordOf(w.account[a])
                             /\ IsTokenAccount(w, a) => IsTokenAccount(v, a)
    BY DEF IsTokenAccount
  <1>2. ViewOf(v) = ViewOf(w)
    <2>1. [f \in Factories |-> VersionOf(v.account[f])] = [f \in Factories |-> VersionOf(w.account[f])]
      BY <1>1, Subsets
    <2>2. [e \in Escrows |-> RecordOf(v.account[e])] = [e \in Escrows |-> RecordOf(w.account[e])]
      BY <1>1, Subsets
    <2>3. [a \in TokenAccounts |-> AmountOf(v.account[a])] =
            [a \in TokenAccounts |-> AmountOf(w.account[a])]
      BY <1>1, Subsets
    <2> QED BY <2>1, <2>2, <2>3, ViewIsOfContents
  <1>3. \A a \in Addresses : IsTokenAccount(v, a) => TokenAgrees(a, v.account[a])
    BY DEF SoundWorld, WorldAgrees, IsTokenAccount
  <1>4. \A a \in Addresses : MintAgrees(a, v.account[a])
    BY DEF SoundWorld, WorldAgrees
  <1>5. \A a \in Addresses : v.account[a].kind = "Factory" => "version" \in DOMAIN v.account[a]
    BY DEF SoundWorld, WorldAgrees
  <1>6. ASSUME NEW e \in Escrows
        PROVE  RecordAgrees(v, e, RecordOf(v.account[e]))
    <2>1. RecordAgrees(w, e, RecordOf(w.account[e]))
      BY DEF SoundWorld, WorldAgrees
    <2>2. RecordOf(v.account[e]) = RecordOf(w.account[e])
      BY <1>1, Subsets
    <2>3. \A n \in InitializeNames : /\ n.token_account \in TokenAccounts
                                     /\ n.canceler_token_account \in TokenAccounts
      BY InitializeNamesFit
    <2> QED BY <1>1, <2>1, <2>2, <2>3, Subsets DEF RecordAgrees
  <1> QED BY <1>2, <1>3, <1>4, <1>5, <1>6 DEF SoundWorld, WorldAgrees

\* An account of another kind shows nothing.
LEMMA SeenByKind ==
  ASSUME NEW contents
  PROVE  /\ contents.kind # "Factory" => VersionOf(contents) = 0
         /\ contents.kind # "TokenAccount" => AmountOf(contents) = 0
         /\ contents.kind # "Escrow" => RecordOf(contents) = BlankEscrow
  BY DEF VersionOf, AmountOf, RecordOf

\* A record read back
LEMMA RecordOfStored ==
  ASSUME NEW contents, contents.kind = "Escrow", NEW got, Unpack(contents.data) = {got}
  PROVE  RecordOf(contents) = got.escrow
  <1> DEFINE G == Unpack(contents.data)
             g == CHOOSE x \in G : TRUE
  <1>1. RecordOf(contents) = IF G = {} THEN BlankEscrow ELSE g.escrow
    BY DEF RecordOf
  <1>2. G = {got}
    OBVIOUS
  <1> HIDE DEF G
  <1>3. g = got
    BY <1>2
  <1> HIDE DEF g
  <1> QED BY <1>1, <1>2, <1>3

\* A fresh account of zeros shows nothing.
LEMMA CreateAccountUnseen ==
  ASSUME NEW w, SoundWorld(w), NEW signers, NEW i, i.new \in Addresses,
         i.kind \in {"Escrow", "Factory", "TokenAccount"},
         NEW v \in CreateAccount(w, signers, i)
  PROVE  SoundWorld(v) /\ ViewOf(v) = ViewOf(w)
  <1>1. /\ v = [w EXCEPT !.account[i.new] = Blanks[i.kind], !.lamports = @ - Rent[i.kind]]
        /\ w.account[i.new] = None
        /\ w.lamports >= Rent[i.kind]
    BY DEF CreateAccount, When
  <1>2. i.kind \in DOMAIN Blanks
    BY DEF Blanks
  <1>3. WorldInv(v)
    BY <1>2, CreateAccountKeeps DEF SoundWorld
  <1>4. /\ \A a \in Addresses \ {i.new} : v.account[a] = w.account[a]
        /\ v.account[i.new] = Blanks[i.kind]
    <2>1. v.account = [w.account EXCEPT ![i.new] = Blanks[i.kind]]
      BY <1>1 DEF SoundWorld, WorldInv
    <2> QED BY <2>1 DEF SoundWorld, WorldInv
  <1> DEFINE was == w.account[i.new]
             made == v.account[i.new]
  <1>5. /\ VersionOf(was) = 0 /\ AmountOf(was) = 0 /\ RecordOf(was) = BlankEscrow
        /\ ~IsTokenAccount(w, i.new)
    BY <1>1, SeenByKind DEF None, IsTokenAccount
  <1>6. VersionOf(made) = 0
    <2>1. CASE i.kind = "Factory"
      BY <1>4, <2>1 DEF Blanks, VersionOf
    <2>2. CASE i.kind # "Factory"
      BY <1>4, <2>2, SeenByKind DEF Blanks
    <2> QED BY <2>1, <2>2
  <1>7. AmountOf(made) = 0 /\ (IsTokenAccount(v, i.new) => TokenAgrees(i.new, made))
    <2>1. CASE i.kind = "TokenAccount"
      BY <1>4, <2>1 DEF Blanks, AmountOf, TokenAgrees, IsRecord
    <2>2. CASE i.kind # "TokenAccount"
      <3>1. made.kind # "TokenAccount"
        BY <1>4, <2>2 DEF Blanks
      <3> QED BY <3>1, SeenByKind DEF IsTokenAccount
    <2> QED BY <2>1, <2>2
  <1>8. RecordOf(made) = BlankEscrow
    <2>1. CASE i.kind = "Escrow"
      <3>1. made.kind = "Escrow" /\ made.data = BlankData
        BY <1>4, <2>1 DEF Blanks
      <3> DEFINE got == [bump_seed |-> 0, escrow |-> BlankEscrow]
      <3>2. Unpack(made.data) = {got} /\ got.escrow = BlankEscrow
        BY <3>1, BlankReadsBlank
      <3> HIDE DEF got, made
      <3>3. RecordOf(made) = got.escrow
        BY <3>1, <3>2, RecordOfStored
      <3> QED BY <3>2, <3>3
    <2>2. CASE i.kind # "Escrow"
      BY <1>4, <2>2, SeenByKind DEF Blanks
    <2> QED BY <2>1, <2>2
  <1>9. made.kind # "Mint" /\ (made.kind = "Factory" => "version" \in DOMAIN made)
    BY <1>4 DEF Blanks
  <1>10. MintAgrees(i.new, made)
    <2>1. was.kind # "Mint" /\ MintAgrees(i.new, was)
      BY <1>1 DEF None, SoundWorld, WorldAgrees
    <2> QED BY <1>9, <2>1 DEF MintAgrees
  <1>11. Solvent(v)
    <2>1. "lamports" \in DOMAIN w /\ w.lamports \in Nat /\ Rent[i.kind] \in Nat
      BY StartAssumption DEF SoundWorld, WorldAgrees, Solvent
    <2>2. "lamports" \in DOMAIN v /\ v.lamports = w.lamports - Rent[i.kind]
      BY <1>1, <2>1
    <2> QED BY <1>1, <2>1, <2>2 DEF Solvent
  <1> HIDE DEF was, made
  <1> QED
    <2>1. /\ VersionOf(v.account[i.new]) = VersionOf(w.account[i.new])
          /\ AmountOf(v.account[i.new]) = AmountOf(w.account[i.new])
          /\ RecordOf(v.account[i.new]) = RecordOf(w.account[i.new])
      BY <1>5, <1>6, <1>7, <1>8 DEF was, made
    <2> QED BY <1>3, <1>4, <1>5, <1>7, <1>9, <1>10, <1>11, <2>1, UnseenChange DEF made

\* A token account that is given its mint and owner holds nothing yet.
LEMMA InitializeAccountUnseen ==
  ASSUME NEW w, SoundWorld(w), NEW i, i.account \in Addresses,
         i.mint = NoMint \/ (i.mint = MintOf[i.account] /\ i.owner = OwnerOf[i.account]),
         NEW v \in InitializeAccount(w, i)
  PROVE  SoundWorld(v) /\ ViewOf(v) = ViewOf(w)
  <1> DEFINE was == w.account[i.account]
             made == [[was EXCEPT !.mint = i.mint] EXCEPT !.owner = i.owner]
  <1>1. /\ v = [w EXCEPT !.account[i.account].mint = i.mint, !.account[i.account].owner = i.owner]
        /\ was = Blanks.TokenAccount
        /\ Has(w, i.mint, "Mint")
    BY DEF InitializeAccount, When
  <1>2. i.mint # NoMint /\ i.mint \in NativeMints
    <2>1. i.mint \in NativeMints
      BY <1>1 DEF Has, SoundWorld, WorldAgrees, MintAgrees
    <2> QED BY <2>1, DefaultsAssumption, RequestsAssumption
  <1>3. WorldInv(v)
    BY InitializeAccountKeeps DEF SoundWorld
  <1>4. /\ \A a \in Addresses \ {i.account} : v.account[a] = w.account[a]
        /\ v.account[i.account] = made
    <2>1. v.account = [[w.account EXCEPT ![i.account] = [@ EXCEPT !.mint = i.mint]]
                          EXCEPT ![i.account] = [@ EXCEPT !.owner = i.owner]]
      BY <1>1 DEF SoundWorld, WorldInv
    <2> QED BY <2>1 DEF SoundWorld, WorldInv
  <1>5. was.kind = "TokenAccount" /\ was.amount = 0 /\ DOMAIN was = {"kind", "mint", "owner", "amount"}
    BY <1>1 DEF Blanks
  <1> HIDE DEF was
  <1>6. /\ made.kind = "TokenAccount" /\ made.amount = 0 /\ made.mint = i.mint
        /\ made.owner = i.owner /\ DOMAIN made = {"kind", "mint", "owner", "amount"}
    BY <1>5
  <1>7. IsRecord(made)
    BY DEF IsRecord
  <1> HIDE DEF made
  <1>8. TokenAgrees(i.account, made)
    BY <1>2, <1>6, <1>7 DEF TokenAgrees
  <1>9. /\ VersionOf(made) = VersionOf(was) /\ AmountOf(made) = AmountOf(was)
        /\ RecordOf(made) = RecordOf(was)
    BY <1>5, <1>6, SeenByKind DEF AmountOf
  <1>10. IsTokenAccount(v, i.account)
    BY <1>4, <1>6 DEF IsTokenAccount
  <1>11. MintAgrees(i.account, made)
    <2>1. MintAgrees(i.account, was)
      BY DEF was, SoundWorld, WorldAgrees
    <2> QED BY <1>5, <1>6, <2>1 DEF MintAgrees
  <1>12. Solvent(v)
    BY <1>1 DEF SoundWorld, WorldAgrees, Solvent
  <1>13. /\ VersionOf(v.account[i.account]) = VersionOf(w.account[i.account])
         /\ AmountOf(v.account[i.account]) = AmountOf(w.account[i.account])
         /\ RecordOf(v.account[i.account]) = RecordOf(w.account[i.account])
    BY <1>4, <1>9 DEF was
  <1> QED BY <1>3, <1>4, <1>6, <1>8, <1>10, <1>11, <1>12, <1>13, UnseenChange

\* A record is stored in an escrow account.
LEMMA StoredSeen ==
  ASSUME NEW w, SoundWorld(w), NEW e \in Escrows, NEW got \in EscrowIn(w, e),
         NEW esc, WholeRecord(esc), NEW bump_seed, WorldInv(Stored(w, e, esc, bump_seed)),
         RecordAgrees(w, e, esc)
  PROVE  LET v == Stored(w, e, esc, bump_seed) IN
         /\ SoundWorld(v)
         /\ \A a \in Addresses : IsTokenAccount(v, a) = IsTokenAccount(w, a)
         /\ \A a \in Addresses \ {e} : v.account[a] = w.account[a]
         /\ ~IsTokenAccount(w, e)
         /\ ViewOf(v).version = ViewOf(w).version
         /\ ViewOf(v).balance = ViewOf(w).balance
         /\ ViewOf(v).escrow = [ViewOf(w).escrow EXCEPT ![e] = esc]
  <1> DEFINE v == Stored(w, e, esc, bump_seed)
             made == [w.account[e] EXCEPT !.data = Pack(esc, bump_seed, @)]
  <1>1. Has(w, e, "Escrow")
    BY GotIsWhole DEF SoundWorld
  <1>2. e \in Addresses /\ w.account[e].kind = "Escrow"
    BY <1>1 DEF Has
  <1>3. "kind" \in DOMAIN w.account[e] /\ "data" \in DOMAIN w.account[e]
    BY <1>2 DEF SoundWorld, WorldInv, Readable
  <1>4. /\ \A a \in Addresses \ {e} : v.account[a] = w.account[a]
        /\ v.account[e] = made
    <2>1. v.account = [w.account EXCEPT ![e] = made]
      BY DEF Stored, SoundWorld, WorldInv
    <2> QED BY <1>2, <2>1 DEF SoundWorld, WorldInv
  <1>5. made.kind = "Escrow" /\ made.data = Pack(esc, bump_seed, w.account[e].data)
    BY <1>2, <1>3
  <1> HIDE DEF made, v
  <1>6. RecordOf(made) = esc
    <2> DEFINE stored == [bump_seed |-> bump_seed, escrow |-> esc]
    <2>1. Unpack(made.data) = {stored} /\ stored.escrow = esc
      BY <1>5, RoundTrip DEF WholeRecord
    <2> HIDE DEF stored
    <2>2. RecordOf(made) = stored.escrow
      BY <1>5, <2>1, RecordOfStored
    <2> QED BY <2>1, <2>2
  <1>7. VersionOf(made) = VersionOf(w.account[e]) /\ AmountOf(made) = AmountOf(w.account[e])
    BY <1>2, <1>5 DEF VersionOf, AmountOf
  <1>8. \A a \in Addresses : IsTokenAccount(v, a) = IsTokenAccount(w, a)
    <2>1. ~IsTokenAccount(v, e) /\ ~IsTokenAccount(w, e)
      BY <1>2, <1>4, <1>5 DEF IsTokenAccount
    <2>2. \A a \in Addresses \ {e} : IsTokenAccount(v, a) = IsTokenAccount(w, a)
      BY <1>4 DEF IsTokenAccount
    <2>3. IsTokenAccount(v, e) = IsTokenAccount(w, e)
      <3>1. IsTokenAccount(v, e) \in BOOLEAN /\ IsTokenAccount(w, e) \in BOOLEAN
        BY DEF IsTokenAccount
      <3> QED BY <2>1, <3>1
    <2> QED BY <2>2, <2>3
  <1>9. /\ ViewOf(v).version = ViewOf(w).version
        /\ ViewOf(v).balance = ViewOf(w).balance
        /\ ViewOf(v).escrow = [ViewOf(w).escrow EXCEPT ![e] = esc]
    <2> DEFINE before == [x \in Escrows |-> RecordOf(w.account[x])]
               after == [x \in Escrows |-> RecordOf(v.account[x])]
    <2>1. [f \in Factories |-> VersionOf(v.account[f])] = [f \in Factories |-> VersionOf(w.account[f])]
      BY <1>4, <1>7, Subsets
    <2>2. [a \in TokenAccounts |-> AmountOf(v.account[a])] =
            [a \in TokenAccounts |-> AmountOf(w.account[a])]
      BY <1>4, <1>7, Subsets
    <2>3. after = [before EXCEPT ![e] = esc]
      BY <1>4, <1>6, Subsets
    <2> DEFINE version == [f \in Factories |-> VersionOf(w.account[f])]
               balance == [a \in TokenAccounts |-> AmountOf(w.account[a])]
    <2>4. /\ ViewOf(w) = [version |-> version, escrow |-> before, balance |-> balance]
          /\ ViewOf(v) = [version |-> version, escrow |-> after, balance |-> balance]
      BY <2>1, <2>2, ViewIsOfContents
    <2> HIDE DEF before, after, version, balance
    <2> QED BY <2>3, <2>4
  <1>10. \A a \in Addresses : IsTokenAccount(v, a) => TokenAgrees(a, v.account[a])
    BY <1>2, <1>4, <1>8 DEF SoundWorld, WorldAgrees, IsTokenAccount
  <1>11. \A a \in Addresses :
           /\ MintAgrees(a, v.account[a])
           /\ v.account[a].kind = "Factory" => "version" \in DOMAIN v.account[a]
    BY <1>2, <1>4, <1>5 DEF SoundWorld, WorldAgrees, MintAgrees
  <1>12. \A x \in Escrows : RecordAgrees(v, x, RecordOf(v.account[x]))
    <2> TAKE x \in Escrows
    <2>1. RecordAgrees(w, x, RecordOf(v.account[x]))
      BY <1>4, <1>6, Subsets DEF SoundWorld, WorldAgrees
    <2> QED BY <1>8, <2>1, InitializeNamesFit, Subsets DEF RecordAgrees
  <1>13. WorldInv(v)
    BY DEF v
  <1>14. Solvent(v)
    BY DEF v, Stored, SoundWorld, WorldAgrees, Solvent
  <1>15. SoundWorld(v)
    BY <1>10, <1>11, <1>12, <1>13, <1>14 DEF SoundWorld, WorldAgrees
  <1>16. ~IsTokenAccount(w, e)
    BY <1>2 DEF IsTokenAccount
  <1> QED BY <1>4, <1>8, <1>9, <1>15, <1>16 DEF v

\* The amounts of the token accounts become those of a ledger.
LEMMA PaidSeen ==
  ASSUME NEW w, SoundWorld(w), NEW ledger,
         \A a \in TokenAccounts : ~IsTokenAccount(w, a) => ledger[a] = 0
  PROVE  /\ SoundWorld(Paid(w, ledger))
         /\ ViewOf(Paid(w, ledger)).version = ViewOf(w).version
         /\ ViewOf(Paid(w, ledger)).escrow = ViewOf(w).escrow
         /\ ViewOf(Paid(w, ledger)).balance = [a \in TokenAccounts |-> ledger[a]]
  <1> DEFINE v == Paid(w, ledger)
  <1>1. v.account = [a \in Addresses |->
             IF Has(w, a, "TokenAccount") THEN [w.account[a] EXCEPT !.amount = ledger[a]]
             ELSE w.account[a]]
    BY DEF Paid, SoundWorld, WorldInv
  <1>2. WorldInv(v)
    BY PaidKeeps DEF SoundWorld
  <1> HIDE DEF v
  <1>3. ASSUME NEW a \in Addresses, IsTokenAccount(w, a)
        PROVE  /\ v.account[a].kind = "TokenAccount"
               /\ v.account[a].amount = ledger[a]
               /\ TokenAgrees(a, v.account[a])
    <2>1. v.account[a] = [w.account[a] EXCEPT !.amount = ledger[a]]
      BY <1>1, <1>3 DEF IsTokenAccount, Has
    <2>2. /\ "kind" \in DOMAIN w.account[a] /\ w.account[a].kind = "TokenAccount"
          /\ TokenAgrees(a, w.account[a])
      BY <1>3 DEF SoundWorld, WorldInv, WorldAgrees, IsTokenAccount
    <2> DEFINE was == w.account[a]
               made == v.account[a]
    <2>3. /\ made = [was EXCEPT !.amount = ledger[a]]
          /\ {"kind", "mint", "owner", "amount"} \subseteq DOMAIN was
      BY <2>1, <2>2 DEF TokenAgrees
    <2> HIDE DEF was, made
    <2>4. /\ made.kind = was.kind /\ made.mint = was.mint /\ made.owner = was.owner
          /\ made.amount = ledger[a] /\ DOMAIN made = DOMAIN was
      BY <2>3
    <2>5. IsRecord(made)
      BY <2>3 DEF IsRecord
    <2> QED BY <2>2, <2>3, <2>4, <2>5 DEF TokenAgrees, was, made
  <1>4. \A a \in Addresses : ~IsTokenAccount(w, a) => v.account[a] = w.account[a]
    BY <1>1 DEF IsTokenAccount, Has
  <1>5. \A a \in Addresses : /\ v.account[a].kind = w.account[a].kind
                             /\ VersionOf(v.account[a]) = VersionOf(w.account[a])
                             /\ RecordOf(v.account[a]) = RecordOf(w.account[a])
    <2> TAKE a \in Addresses
    <2>1. CASE IsTokenAccount(w, a)
      BY <1>3, <2>1 DEF IsTokenAccount, VersionOf, RecordOf
    <2>2. CASE ~IsTokenAccount(w, a)
      BY <1>4, <2>2
    <2> QED BY <2>1, <2>2
  <1>6. \A a \in TokenAccounts : AmountOf(v.account[a]) = ledger[a]
    <2> TAKE a \in TokenAccounts
    <2>1. CASE IsTokenAccount(w, a)
      BY <1>3, <2>1, Subsets DEF AmountOf
    <2>2. CASE ~IsTokenAccount(w, a)
      BY <1>4, <2>2, Subsets DEF AmountOf, IsTokenAccount
    <2> QED BY <2>1, <2>2
  <1>7. /\ ViewOf(v).version = ViewOf(w).version
        /\ ViewOf(v).escrow = ViewOf(w).escrow
        /\ ViewOf(v).balance = [a \in TokenAccounts |-> ledger[a]]
    <2>1. [f \in Factories |-> VersionOf(v.account[f])] = [f \in Factories |-> VersionOf(w.account[f])]
      BY <1>5, Subsets
    <2>2. [x \in Escrows |-> RecordOf(v.account[x])] = [x \in Escrows |-> RecordOf(w.account[x])]
      BY <1>5, Subsets
    <2>3. [a \in TokenAccounts |-> AmountOf(v.account[a])] = [a \in TokenAccounts |-> ledger[a]]
      BY <1>6
    <2> DEFINE version == [f \in Factories |-> VersionOf(w.account[f])]
               records == [x \in Escrows |-> RecordOf(w.account[x])]
               balance == [a \in TokenAccounts |-> AmountOf(w.account[a])]
               after == [a \in TokenAccounts |-> ledger[a]]
    <2>4. /\ ViewOf(w) = [version |-> version, escrow |-> records, balance |-> balance]
          /\ ViewOf(v) = [version |-> version, escrow |-> records, balance |-> after]
      BY <2>1, <2>2, <2>3, ViewIsOfContents
    <2> HIDE DEF records, version, balance
    <2> QED BY <2>4
  <1>8. \A a \in Addresses : IsTokenAccount(v, a) = IsTokenAccount(w, a)
    BY <1>5 DEF IsTokenAccount
  <1>9. \A x \in Escrows : RecordAgrees(v, x, RecordOf(v.account[x]))
    <2> TAKE x \in Escrows
    <2>1. RecordAgrees(w, x, RecordOf(v.account[x]))
      BY <1>5, Subsets DEF SoundWorld, WorldAgrees
    <2> QED BY <1>8, <2>1, InitializeNamesFit, Subsets DEF RecordAgrees
  <1>10. \A a \in Addresses : v.account[a].kind = "Factory" => "version" \in DOMAIN v.account[a]
    <2> TAKE a \in Addresses
    <2>1. CASE IsTokenAccount(w, a)
      BY <1>3, <2>1
    <2>2. CASE ~IsTokenAccount(w, a)
      BY <1>4, <2>2 DEF SoundWorld, WorldAgrees
    <2> QED BY <2>1, <2>2
  <1>11. \A a \in Addresses : MintAgrees(a, v.account[a])
    <2> TAKE a \in Addresses
    <2>1. CASE IsTokenAccount(w, a)
      BY <1>3, <2>1 DEF SoundWorld, WorldAgrees, MintAgrees, IsTokenAccount
    <2>2. CASE ~IsTokenAccount(w, a)
      BY <1>4, <2>2 DEF SoundWorld, WorldAgrees
    <2> QED BY <2>1, <2>2
  <1>12. Solvent(v)
    BY DEF v, Paid, SoundWorld, WorldAgrees, Solvent
  <1>13. \A a \in Addresses : IsTokenAccount(v, a) => TokenAgrees(a, v.account[a])
    BY <1>3, <1>8
  <1>14. SoundWorld(v)
    BY <1>2, <1>9, <1>10, <1>11, <1>12, <1>13 DEF SoundWorld, WorldAgrees
  <1> QED BY <1>7, <1>14 DEF v

\* A version is stored in a factory account.
LEMMA VersionSeen ==
  ASSUME NEW w, SoundWorld(w), NEW f \in Factories, Has(w, f, "Factory"), NEW x,
         NEW v, v = [w EXCEPT !.account[f].version = x], WorldInv(v)
  PROVE  /\ SoundWorld(v)
         /\ ViewOf(v).version = [ViewOf(w).version EXCEPT ![f] = x]
         /\ ViewOf(v).escrow = ViewOf(w).escrow
         /\ ViewOf(v).balance = ViewOf(w).balance
         /\ ViewOf(w).version[f] = w.account[f].version
  <1> DEFINE was == w.account[f]
             made == [was EXCEPT !.version = x]
  <1>1. f \in Addresses /\ was.kind = "Factory"
    BY DEF Has
  <1>2. /\ \A a \in Addresses \ {f} : v.account[a] = w.account[a]
        /\ v.account[f] = made
    <2>1. v.account = [w.account EXCEPT ![f] = made]
      BY DEF SoundWorld, WorldInv
    <2> QED BY <1>1, <2>1 DEF SoundWorld, WorldInv
  <1> HIDE DEF was
  <1>3. "kind" \in DOMAIN was /\ "version" \in DOMAIN was
    BY <1>1 DEF was, SoundWorld, WorldInv, WorldAgrees
  <1>4. /\ made.kind = "Factory" /\ made.version = x /\ "version" \in DOMAIN made
    BY <1>1, <1>3
  <1> HIDE DEF made
  <1>5. VersionOf(was) = was.version /\ VersionOf(made) = x
    BY <1>1, <1>4 DEF VersionOf
  <1>6. AmountOf(made) = AmountOf(was) /\ RecordOf(made) = RecordOf(was)
    BY <1>1, <1>4, SeenByKind
  <1>7. \A a \in Addresses : /\ AmountOf(v.account[a]) = AmountOf(w.account[a])
                             /\ RecordOf(v.account[a]) = RecordOf(w.account[a])
    BY <1>2, <1>6 DEF was
  <1> DEFINE before == [g \in Factories |-> VersionOf(w.account[g])]
             after == [g \in Factories |-> VersionOf(v.account[g])]
             records == [e \in Escrows |-> RecordOf(w.account[e])]
             balance == [a \in TokenAccounts |-> AmountOf(w.account[a])]
  <1>8. /\ [e \in Escrows |-> RecordOf(v.account[e])] = records
        /\ [a \in TokenAccounts |-> AmountOf(v.account[a])] = balance
    BY <1>7, Subsets
  <1>9. after = [before EXCEPT ![f] = x] /\ before[f] = w.account[f].version
    <2>1. VersionOf(v.account[f]) = x
      BY <1>2, <1>5
    <2>2. \A g \in Factories \ {f} : VersionOf(v.account[g]) = VersionOf(w.account[g])
      BY <1>2, Subsets
    <2>3. before[f] = w.account[f].version
      BY <1>5 DEF was
    <2> QED BY <2>1, <2>2, <2>3
  <1>10. /\ ViewOf(w) = [version |-> before, escrow |-> records, balance |-> balance]
         /\ ViewOf(v) = [version |-> after, escrow |-> records, balance |-> balance]
    BY <1>8, ViewIsOfContents
  <1>11. \A a \in Addresses : IsTokenAccount(v, a) <=> IsTokenAccount(w, a)
    BY <1>1, <1>2, <1>4 DEF was, IsTokenAccount
  <1>12. \A a \in Addresses : IsTokenAccount(v, a) => TokenAgrees(a, v.account[a])
    <2>1. ~IsTokenAccount(v, f)
      BY <1>2, <1>4 DEF IsTokenAccount
    <2> QED BY <1>2, <1>11, <2>1 DEF SoundWorld, WorldAgrees
  <1>13. \A a \in Addresses :
           /\ MintAgrees(a, v.account[a])
           /\ v.account[a].kind = "Factory" => "version" \in DOMAIN v.account[a]
    BY <1>1, <1>2, <1>4 DEF was, SoundWorld, WorldAgrees, MintAgrees
  <1>14. \A e \in Escrows : RecordAgrees(v, e, RecordOf(v.account[e]))
    <2> TAKE e \in Escrows
    <2>1. RecordAgrees(w, e, RecordOf(v.account[e]))
      BY <1>7, Subsets DEF SoundWorld, WorldAgrees
    <2> QED BY <1>11, <2>1, InitializeNamesFit, Subsets DEF RecordAgrees
  <1>15. Solvent(v)
    BY DEF SoundWorld, WorldAgrees, Solvent
  <1>16. SoundWorld(v)
    BY <1>12, <1>13, <1>14, <1>15 DEF SoundWorld, WorldAgrees
  <1> HIDE DEF before, after, records, balance
  <1>17. /\ ViewOf(w).version = before /\ ViewOf(v).version = after
         /\ ViewOf(v).escrow = ViewOf(w).escrow /\ ViewOf(v).balance = ViewOf(w).balance
    BY <1>10
  <1>18. ViewOf(v).version = [ViewOf(w).version EXCEPT ![f] = x]
    BY <1>9, <1>17
  <1> QED BY <1>9, <1>16, <1>17, <1>18

-----------------------------------------------------------------------------
\* A token account whose owner or mint is that of some key or mint is the one
\* MintOf and OwnerOf describe.
LEMMA KnownAccounts ==
  ASSUME NEW w, SoundWorld(w), NEW a \in Addresses, OwnerIn(w)[a] \in Keys \/ MintIn(w)[a] \in Mints
  PROVE  /\ IsTokenAccount(w, a)
         /\ OwnerIn(w)[a] = OwnerOf[a]
         /\ MintIn(w)[a] = MintOf[a]
         /\ MintIn(w)[a] \in NativeMints
  <1>1. /\ OwnerIn(w)[a] = IF Has(w, a, "TokenAccount") THEN w.account[a].owner ELSE NoKey
        /\ MintIn(w)[a] = IF Has(w, a, "TokenAccount") THEN w.account[a].mint ELSE NoMint
    BY DEF OwnerIn, MintIn
  <1>2. NoKey \notin Keys /\ NoMint \notin Mints
    BY DefaultsAssumption
  <1>3. Has(w, a, "TokenAccount")
    BY <1>1, <1>2
  <1>4. TokenAgrees(a, w.account[a])
    BY <1>3 DEF SoundWorld, WorldAgrees, IsTokenAccount, Has
  <1> QED BY <1>1, <1>2, <1>3, <1>4 DEF TokenAgrees, IsTokenAccount, Has

\* The ledger the handlers work on and the one the clients see
Mirrors(w, ledger, seen) ==
  /\ ledger = [a \in Addresses |-> ledger[a]]
  /\ seen = [a \in TokenAccounts |-> seen[a]]
  /\ \A a \in TokenAccounts : ledger[a] = seen[a]
  /\ \A a \in TokenAccounts : ~IsTokenAccount(w, a) => ledger[a] = 0

\* The two ledgers agree to begin with.
LEMMA LedgerMirrors ==
  ASSUME NEW w, SoundWorld(w)
  PROVE  Mirrors(w, LedgerIn(w), ViewOf(w).balance)
  <1>1. LedgerIn(w) = [a \in Addresses |-> LedgerIn(w)[a]]
    BY DEF LedgerIn
  <1>2. ViewOf(w).balance = [a \in TokenAccounts |-> LedgerIn(w)[a]]
    BY DEF ViewOf
  <1>3. \A a \in TokenAccounts : ~IsTokenAccount(w, a) => LedgerIn(w)[a] = 0
    BY Subsets DEF LedgerIn, Has, IsTokenAccount
  <1> DEFINE ledger == LedgerIn(w)
             seen == ViewOf(w).balance
  <1> HIDE DEF ledger, seen
  <1>4. Mirrors(w, ledger, seen)
    <2>1. seen = [a \in TokenAccounts |-> ledger[a]] /\ ledger = [a \in Addresses |-> ledger[a]]
      BY <1>1, <1>2 DEF ledger, seen
    <2>2. \A a \in TokenAccounts : ~IsTokenAccount(w, a) => ledger[a] = 0
      BY <1>3 DEF ledger
    <2>3. seen = [a \in TokenAccounts |-> seen[a]] /\ \A a \in TokenAccounts : ledger[a] = seen[a]
      BY <2>1
    <2> QED BY <2>1, <2>2, <2>3 DEF Mirrors
  <1> QED BY <1>4 DEF ledger, seen

\* A transfer the token program executes is one of the accounts as MintOf and
\* OwnerOf describe them.
LEMMA TransfersMirror ==
  ASSUME NEW w, SoundWorld(w), NEW ledger, NEW seen, Mirrors(w, ledger, seen),
         NEW from \in TokenAccounts, NEW to \in TokenAccounts, NEW k \in Keys, NEW n,
         Program(MintIn(w), OwnerIn(w))!Invokable(ledger, from, to, k, n)
  PROVE  /\ Invokable(seen, from, to, k, n)
         /\ Mirrors(w, Transferred(ledger, from, to, n), Transferred(seen, from, to, n))
  <1>1. \/ n = 0
        \/ /\ from \in SplAccounts /\ to \in SplAccounts
           /\ OwnerIn(w)[from] = k /\ MintIn(w)[from] = MintIn(w)[to]
           /\ ledger[from] >= n
           /\ from = to \/ ledger[to] + n < U64
    BY DEF Program!Invokable, Program!CanTransfer, Program!U64, U64
  <1>2. n = 0 \/ (IsTokenAccount(w, from) /\ IsTokenAccount(w, to))
    <2>1. SUFFICES ASSUME n # 0
                   PROVE  IsTokenAccount(w, from) /\ IsTokenAccount(w, to)
      OBVIOUS
    <2>2. IsTokenAccount(w, from) /\ MintIn(w)[from] = MintOf[from]
      BY <1>1, <2>1, KnownAccounts, Subsets
    <2>3. MintIn(w)[to] \in Mints
      BY <1>1, <2>1, <2>2, LedgerAssumption
    <2> QED BY <2>2, <2>3, KnownAccounts, Subsets
  <1>3. ledger[from] = seen[from] /\ ledger[to] = seen[to]
    BY DEF Mirrors
  <1>4. Invokable(seen, from, to, k, n)
    <2>1. SUFFICES ASSUME n # 0
                   PROVE  CanTransfer(seen, from, to, k, n)
      BY DEF Invokable
    <2>2. /\ from \in SplAccounts /\ to \in SplAccounts
          /\ OwnerIn(w)[from] = k /\ MintIn(w)[from] = MintIn(w)[to]
          /\ seen[from] >= n
          /\ from = to \/ seen[to] + n < U64
      BY <1>1, <1>3, <2>1
    <2>3. OwnerIn(w)[from] = OwnerOf[from] /\ MintIn(w)[from] = MintOf[from]
      BY <2>2, KnownAccounts, Subsets
    <2>4. MintIn(w)[to] = MintOf[to]
      BY <2>2, <2>3, KnownAccounts, Subsets, LedgerAssumption
    <2> QED BY <2>2, <2>3, <2>4 DEF CanTransfer
  <1>5. Mirrors(w, Transferred(ledger, from, to, n), Transferred(seen, from, to, n))
    <2>1. CASE from = to
      BY <2>1 DEF Transferred
    <2>2. CASE from # to
      <3> DEFINE L == [ledger EXCEPT ![from] = @ - n, ![to] = @ + n]
                 B == [seen EXCEPT ![from] = @ - n, ![to] = @ + n]
      <3>1. Transferred(ledger, from, to, n) = L /\ Transferred(seen, from, to, n) = B
        BY <2>2 DEF Transferred
      <3>2. L = [a \in Addresses |-> L[a]] /\ B = [a \in TokenAccounts |-> B[a]]
        BY DEF Mirrors
      <3>3. /\ L[from] = ledger[from] - n /\ L[to] = ledger[to] + n
            /\ \A a \in Addresses \ {from, to} : L[a] = ledger[a]
        BY <2>2, Subsets DEF Mirrors
      <3>4. /\ B[from] = seen[from] - n /\ B[to] = seen[to] + n
            /\ \A a \in TokenAccounts \ {from, to} : B[a] = seen[a]
        BY <2>2 DEF Mirrors
      <3> HIDE DEF L, B
      <3>5. \A a \in TokenAccounts : L[a] = B[a]
        BY <1>3, <3>3, <3>4, Subsets DEF Mirrors
      <3>6. ASSUME NEW a \in TokenAccounts, ~IsTokenAccount(w, a)
            PROVE  L[a] = 0
        <4>1. ledger[a] = 0
          BY <3>6 DEF Mirrors
        <4>2. CASE a \in {from, to}
          BY <1>2, <3>3, <3>6, <4>1, <4>2
        <4>3. CASE a \notin {from, to}
          BY <3>3, <4>1, <4>3, Subsets
        <4> QED BY <4>2, <4>3
      <3> QED BY <3>1, <3>2, <3>5, <3>6 DEF Mirrors
    <2> QED BY <2>1, <2>2
  <1> QED BY <1>4, <1>5

\* What a handler accepts of the accounts as they are, it accepts of the accounts
\* as MintOf and OwnerOf describe them.
LEMMA InitializeMirrors ==
  ASSUME NEW w, SoundWorld(w), NEW e \in Escrows, NEW esc, NEW version, NEW call,
         {call.token_account, call.canceler_token_account} \subseteq TokenAccounts,
         Program(MintIn(w), OwnerIn(w))!InitializeAccepts(e, esc, version, call)
  PROVE  /\ InitializeAccepts(e, esc, version, call)
         /\ call.token_mint \in NativeMints
         /\ IsTokenAccount(w, call.token_account)
         /\ IsTokenAccount(w, call.canceler_token_account)
  <1> DEFINE m == MintIn(w)
             o == OwnerIn(w)
  <1>1. /\ version # 0 /\ esc.state = "Uninitialized" /\ call.duration # 0
        /\ o[call.token_account] = Authority[e]
        /\ m[call.token_account] = call.token_mint
        /\ m[call.canceler_token_account] = call.token_mint
    BY DEF Program!InitializeAccepts, Program!FactoryInitialized, Program!EscrowInitialized
  <1>2. Authority[e] \in Keys
    BY AuthorityAssumption
  <1>3. /\ IsTokenAccount(w, call.token_account)
        /\ o[call.token_account] = OwnerOf[call.token_account]
        /\ m[call.token_account] = MintOf[call.token_account]
        /\ m[call.token_account] \in NativeMints
    BY <1>1, <1>2, KnownAccounts, Subsets
  <1>4. call.token_mint \in NativeMints /\ call.token_mint \in Mints
    BY <1>1, <1>3, LedgerAssumption
  <1>5. /\ IsTokenAccount(w, call.canceler_token_account)
        /\ m[call.canceler_token_account] = MintOf[call.canceler_token_account]
    BY <1>1, <1>4, KnownAccounts, Subsets
  <1>6. InitializeAccepts(e, esc, version, call)
    BY <1>1, <1>3, <1>5 DEF InitializeAccepts, FactoryInitialized, EscrowInitialized
  <1> QED BY <1>3, <1>4, <1>5, <1>6

\* Handlers that look at no token account decide the same.
LEMMA StateCheckSame ==
  ASSUME NEW m, NEW o, NEW esc, NEW now, NEW handler, NEW states
  PROVE  Program(m, o)!StateCheck(esc, now, handler, states) = StateCheck(esc, now, handler, states)
  BY DEF Program!StateCheck, StateCheck, Program!EscrowInitialized, EscrowInitialized,
         Program!TrustedHandler, TrustedHandler, Program!TrustedKeys, TrustedKeys

\* Setup
LEMMA SetupMirrors ==
  ASSUME NEW w, SoundWorld(w), NEW esc, NEW now, NEW handler, NEW call, esc.token_mint \in Mints,
         {call.reputation_oracle_token_account,
          call.recording_oracle_token_account} \subseteq TokenAccounts,
         Program(MintIn(w), OwnerIn(w))!SetupAccepts(esc, now, handler, call)
  PROVE  SetupAccepts(esc, now, handler, call)
  <1>1. /\ StateCheck(esc, now, handler, {"Launched"})
        /\ call.reputation_oracle_stake + call.recording_oracle_stake \in 1 .. 100
        /\ MintIn(w)[call.reputation_oracle_token_account] = esc.token_mint
        /\ MintIn(w)[call.recording_oracle_token_account] = esc.token_mint
    BY StateCheckSame DEF Program!SetupAccepts
  <1>2. /\ MintOf[call.reputation_oracle_token_account] = esc.token_mint
        /\ MintOf[call.recording_oracle_token_account] = esc.token_mint
    BY <1>1, KnownAccounts, Subsets
  <1> QED BY <1>1, <1>2 DEF SetupAccepts

\* The amounts of a payout depend on no account.
LEMMA AmountsSame ==
  ASSUME NEW m, NEW o, NEW esc, NEW amount
  PROVE  /\ Program(m, o)!RecipientShare(esc, amount) = RecipientShare(esc, amount)
         /\ Program(m, o)!ReputationFee(esc, amount) = ReputationFee(esc, amount)
         /\ Program(m, o)!RecordingFee(esc, amount) = RecordingFee(esc, amount)
         /\ Program(m, o)!WithinTotals(esc, amount) = WithinTotals(esc, amount)
  <1>1. \A a, s : Program(m, o)!Fee(a, s) = Fee(a, s)
    BY DEF Program!Fee, Fee, Program!U64, U64
  <1>2. \A a, s : Program(m, o)!SaturatingSub(a, s) = SaturatingSub(a, s)
    BY DEF Program!SaturatingSub, SaturatingSub
  <1>3. \A a, b : Program(m, o)!WrapAdd(a, b) = WrapAdd(a, b)
    BY DEF Program!WrapAdd, WrapAdd, Program!U64, U64
  <1>4. Program(m, o)!RecipientShare(esc, amount) = RecipientShare(esc, amount)
    BY <1>1, <1>2 DEF Program!RecipientShare, RecipientShare, Program!RecipientAmount, RecipientAmount
  <1>5. /\ Program(m, o)!ReputationFee(esc, amount) = ReputationFee(esc, amount)
        /\ Program(m, o)!RecordingFee(esc, amount) = RecordingFee(esc, amount)
    BY <1>1 DEF Program!ReputationFee, ReputationFee, Program!RecordingFee, RecordingFee
  <1>6. Program(m, o)!WithinTotals(esc, amount) = WithinTotals(esc, amount)
    BY <1>3 DEF Program!WithinTotals, WithinTotals
  <1> QED BY <1>4, <1>5, <1>6

\* Nor do the ledgers between its transfers.
LEMMA LedgersSame ==
  ASSUME NEW m, NEW o, NEW esc, NEW ledger, NEW call
  PROVE  /\ Program(m, o)!AfterRecipient(esc, ledger, call) = AfterRecipient(esc, ledger, call)
         /\ Program(m, o)!AfterReputation(esc, ledger, call) = AfterReputation(esc, ledger, call)
  <1>1. \A x, f, t, n : Program(m, o)!Transferred(x, f, t, n) = Transferred(x, f, t, n)
    BY DEF Program!Transferred, Transferred
  <1>2. Program(m, o)!AfterRecipient(esc, ledger, call) = AfterRecipient(esc, ledger, call)
    BY <1>1, AmountsSame DEF Program!AfterRecipient, AfterRecipient
  <1>3. Program(m, o)!AfterReputation(esc, ledger, call) = AfterReputation(esc, ledger, call)
    BY <1>1, <1>2, AmountsSame DEF Program!AfterReputation, AfterReputation
  <1> QED BY <1>2, <1>3

\* Payout, and the ledger it leaves
LEMMA PayoutMirrors ==
  ASSUME NEW w, SoundWorld(w), NEW e \in Escrows, NEW esc, NEW ledger, NEW seen,
         Mirrors(w, ledger, seen), NEW now, NEW handler, NEW call,
         {call.token_account, call.recipient_token_account,
          call.reputation_oracle_token_account,
          call.recording_oracle_token_account} \subseteq TokenAccounts,
         Program(MintIn(w), OwnerIn(w))!PayoutAccepts(e, esc, ledger, now, handler, call)
  PROVE  /\ PayoutAccepts(e, esc, seen, now, handler, call)
         /\ Mirrors(w, PayoutLedger(esc, ledger, call), PayoutLedger(esc, seen, call))
  <1> DEFINE from == call.token_account
             one == AfterRecipient(esc, ledger, call)
             two == AfterReputation(esc, ledger, call)
             oneSeen == AfterRecipient(esc, seen, call)
             twoSeen == AfterReputation(esc, seen, call)
             share == RecipientShare(esc, call.amount)
             rep == ReputationFee(esc, call.amount)
             rec == RecordingFee(esc, call.amount)
             k == Authority[e]
             P(x, to, n) == Program(MintIn(w), OwnerIn(w))!Invokable(x, from, to, k, n)
  <1>1. /\ StateCheck(esc, now, handler, {"Pending", "Partial"})
        /\ PayoutAccountsMatch(e, esc, call)
        /\ ledger[from] >= call.amount
        /\ WithinTotals(esc, call.amount)
        /\ Program(MintIn(w), OwnerIn(w))!PayoutTransfersSucceed(esc, ledger, call)
    BY StateCheckSame, AmountsSame
       DEF Program!PayoutAccepts, Program!PayoutAccountsMatch, PayoutAccountsMatch
  <1>2. call.authority = k /\ k \in Keys
    BY <1>1, AuthorityAssumption DEF PayoutAccountsMatch
  <1>3. /\ P(ledger, call.recipient_token_account, share)
        /\ P(one, call.reputation_oracle_token_account, rep)
        /\ P(two, call.recording_oracle_token_account, rec)
    BY <1>1, <1>2, AmountsSame, LedgersSame DEF Program!PayoutTransfersSucceed
  <1>4. /\ Invokable(seen, from, call.recipient_token_account, k, share)
        /\ Mirrors(w, one, oneSeen)
    BY <1>2, <1>3, TransfersMirror DEF AfterRecipient
  <1>5. /\ Invokable(oneSeen, from, call.reputation_oracle_token_account, k, rep)
        /\ Mirrors(w, two, twoSeen)
    <2> HIDE DEF one, oneSeen, rep
    <2>1. /\ Invokable(oneSeen, from, call.reputation_oracle_token_account, k, rep)
          /\ Mirrors(w, Transferred(one, from, call.reputation_oracle_token_account, rep),
                        Transferred(oneSeen, from, call.reputation_oracle_token_account, rep))
      BY <1>2, <1>3, <1>4, TransfersMirror
    <2> QED BY <2>1 DEF AfterReputation, one, oneSeen, rep
  <1>6. /\ Invokable(twoSeen, from, call.recording_oracle_token_account, k, rec)
        /\ Mirrors(w, PayoutLedger(esc, ledger, call), PayoutLedger(esc, seen, call))
    <2> HIDE DEF two, twoSeen, rec
    <2>1. /\ Invokable(twoSeen, from, call.recording_oracle_token_account, k, rec)
          /\ Mirrors(w, Transferred(two, from, call.recording_oracle_token_account, rec),
                        Transferred(twoSeen, from, call.recording_oracle_token_account, rec))
      BY <1>2, <1>3, <1>5, TransfersMirror
    <2> QED BY <2>1 DEF PayoutLedger, two, twoSeen, rec
  <1>7. PayoutTransfersSucceed(esc, seen, call)
    BY <1>2, <1>4, <1>5, <1>6 DEF PayoutTransfersSucceed
  <1>8. seen[from] >= call.amount
    BY <1>1 DEF Mirrors
  <1> QED BY <1>1, <1>6, <1>7, <1>8 DEF PayoutAccepts

\* Cancel, and the ledger it leaves
LEMMA CancelMirrors ==
  ASSUME NEW w, SoundWorld(w), NEW e \in Escrows, NEW esc, NEW ledger, NEW seen,
         Mirrors(w, ledger, seen), NEW handler, NEW call,
         {call.token_account, call.canceler_token_account} \subseteq TokenAccounts,
         Program(MintIn(w), OwnerIn(w))!CancelAccepts(e, esc, ledger, handler, call)
  PROVE  /\ CancelAccepts(e, esc, seen, handler, call)
         /\ Mirrors(w, CancelLedger(ledger, call), CancelLedger(seen, call))
  <1> DEFINE from == call.token_account
             to == call.canceler_token_account
             k == Authority[e]
  <1>1. /\ EscrowInitialized(esc)
        /\ esc.state \notin {"Complete", "Paid"}
        /\ TrustedHandler(esc, handler)
        /\ from = esc.token_account
        /\ to = esc.canceler_token_account
        /\ call.authority = k
        /\ ledger[from] # 0
        /\ Program(MintIn(w), OwnerIn(w))!CanTransfer(ledger, from, to, k, ledger[from])
    BY DEF Program!CancelAccepts, Program!EscrowInitialized, EscrowInitialized,
           Program!TrustedHandler, TrustedHandler, Program!TrustedKeys, TrustedKeys
  <1>2. Program(MintIn(w), OwnerIn(w))!Invokable(ledger, from, to, k, ledger[from])
    BY <1>1 DEF Program!Invokable
  <1>3. k \in Keys /\ seen[from] = ledger[from]
    BY AuthorityAssumption DEF Mirrors
  <1>4. /\ Invokable(seen, from, to, k, ledger[from])
        /\ Mirrors(w, Transferred(ledger, from, to, ledger[from]),
                      Transferred(seen, from, to, ledger[from]))
    BY <1>2, <1>3, TransfersMirror
  <1>5. CanTransfer(seen, from, to, k, seen[from])
    BY <1>1, <1>3, <1>4 DEF Invokable
  <1>6. CancelAccepts(e, esc, seen, handler, call)
    BY <1>1, <1>3, <1>5 DEF CancelAccepts
  <1>7. Mirrors(w, CancelLedger(ledger, call), CancelLedger(seen, call))
    BY <1>3, <1>4 DEF CancelLedger
  <1> QED BY <1>6, <1>7

-----------------------------------------------------------------------------
\* What a handler reads is what the clients see.
LEMMA SeenIsRead ==
  ASSUME NEW w, SoundWorld(w), NEW e \in Escrows, NEW got \in EscrowIn(w, e)
  PROVE  /\ ViewOf(w).escrow[e] = got.escrow
         /\ WholeRecord(got.escrow)
         /\ RecordAgrees(w, e, got.escrow)
  <1>1. Has(w, e, "Escrow") /\ got \in Unpack(w.account[e].data) /\ WholeRecord(got.escrow)
    BY GotIsWhole DEF SoundWorld, EscrowIn
  <1>2. Unpack(w.account[e].data) = {got}
    BY <1>1, UnpackShape
  <1>3. RecordOf(w.account[e]) = got.escrow
    BY <1>1, <1>2, RecordOfStored DEF Has
  <1>4. ViewOf(w).escrow[e] = RecordOf(w.account[e])
    <2>1. ViewOf(w).escrow = [x \in Escrows |-> RecordOf(w.account[x])]
      BY ViewIsOfContents
    <2> QED BY <2>1
  <1>5. RecordAgrees(w, e, RecordOf(w.account[e]))
    BY DEF SoundWorld, WorldAgrees
  <1> QED BY <1>1, <1>3, <1>4, <1>5

\* No handler but Initialize changes the mint or the accounts of an escrow.
LEMMA RecordsKeepAgreeing ==
  ASSUME NEW w, NEW e, NEW esc, WholeRecord(esc), EscrowInitialized(esc), RecordAgrees(w, e, esc),
         NEW call, NEW x
  PROVE  \A stored \in {SetupWrites(esc, call), StoreResultsWrites(esc, x),
                        StoreAmountsWrites(esc, call), PayoutWrites(esc, x), CancelWrites(esc),
                        CompleteWrites(esc)} :
           RecordAgrees(w, e, stored) /\ stored.token_mint \in Mints
  <1>1. {"token_mint", "token_account", "canceler_token_account"} \subseteq DOMAIN esc
    BY DEF WholeRecord, BlankEscrow
  <1>2. esc # BlankEscrow
    BY DEF EscrowInitialized, BlankEscrow
  <1>3. PICK n \in InitializeNames :
       /\ n.escrow = e
       /\ n.token_mint \in NativeMints
       /\ esc.token_mint = n.token_mint
       /\ esc.token_account = n.token_account
       /\ esc.canceler_token_account = n.canceler_token_account
       /\ IsTokenAccount(w, n.token_account)
       /\ IsTokenAccount(w, n.canceler_token_account)
    BY <1>2 DEF RecordAgrees
  <1>4. \A stored \in {SetupWrites(esc, call), StoreResultsWrites(esc, x),
                       StoreAmountsWrites(esc, call), PayoutWrites(esc, x), CancelWrites(esc),
                       CompleteWrites(esc)} :
          /\ stored.token_mint = esc.token_mint
          /\ stored.token_account = esc.token_account
          /\ stored.canceler_token_account = esc.canceler_token_account
    BY <1>1 DEF SetupWrites, StoreResultsWrites, StoreAmountsWrites, PayoutWrites, CancelWrites,
                CompleteWrites
  <1> QED BY <1>3, <1>4, RequestsAssumption DEF RecordAgrees

\* The view x becomes y because escrow e becomes esc.
Stores(x, y, e, esc) ==
  /\ y.version = x.version
  /\ y.escrow = [x.escrow EXCEPT ![e] = esc]

\* A handler that stores the escrow it has read
LEMMA StoringSeen ==
  ASSUME NEW w, SoundWorld(w), NEW e \in Escrows, NEW got \in EscrowIn(w, e),
         NEW esc, WholeRecord(esc), RecordAgrees(w, e, esc), NEW bump_seed,
         \/ EscrowInitialized(esc) = EscrowInitialized(got.escrow) /\ bump_seed = got.bump_seed
         \/ EscrowInitialized(esc) /\ bump_seed = BumpSeed[e]
  PROVE  LET v == Stored(w, e, esc, bump_seed) IN
         /\ SoundWorld(v)
         /\ Stores(ViewOf(w), ViewOf(v), e, esc)
         /\ ViewOf(v).balance = ViewOf(w).balance
         /\ \A a \in Addresses : IsTokenAccount(v, a) = IsTokenAccount(w, a)
  <1>1. WorldInv(Stored(w, e, esc, bump_seed))
    BY StoringKeeps DEF SoundWorld
  <1> QED BY <1>1, StoredSeen DEF Stores

\* A handler that stores it and moves tokens
LEMMA PayingSeen ==
  ASSUME NEW w, SoundWorld(w), NEW e \in Escrows, NEW got \in EscrowIn(w, e),
         NEW esc, WholeRecord(esc), RecordAgrees(w, e, esc), NEW bump_seed,
         EscrowInitialized(esc), bump_seed = BumpSeed[e],
         NEW ledger, NEW seen, Mirrors(w, ledger, seen)
  PROVE  LET v == Paid(Stored(w, e, esc, bump_seed), ledger) IN
         /\ SoundWorld(v)
         /\ Stores(ViewOf(w), ViewOf(v), e, esc)
         /\ ViewOf(v).balance = seen
  <1> DEFINE u == Stored(w, e, esc, bump_seed)
  <1>1. /\ SoundWorld(u)
        /\ Stores(ViewOf(w), ViewOf(u), e, esc)
        /\ \A a \in Addresses : IsTokenAccount(u, a) = IsTokenAccount(w, a)
    BY StoringSeen
  <1> HIDE DEF u
  <1>2. \A a \in TokenAccounts : ~IsTokenAccount(u, a) => ledger[a] = 0
    BY <1>1, Subsets DEF Mirrors
  <1>3. /\ SoundWorld(Paid(u, ledger))
        /\ ViewOf(Paid(u, ledger)).version = ViewOf(u).version
        /\ ViewOf(Paid(u, ledger)).escrow = ViewOf(u).escrow
        /\ ViewOf(Paid(u, ledger)).balance = [a \in TokenAccounts |-> ledger[a]]
    BY <1>1, <1>2, PaidSeen
  <1>4. [a \in TokenAccounts |-> ledger[a]] = seen
    <2>1. [a \in TokenAccounts |-> ledger[a]] = [a \in TokenAccounts |-> seen[a]]
      BY DEF Mirrors
    <2> QED BY <2>1 DEF Mirrors
  <1>5. Stores(ViewOf(w), ViewOf(Paid(u, ledger)), e, esc)
    BY <1>1, <1>3 DEF Stores
  <1> QED BY <1>3, <1>4, <1>5 DEF u

\* The handler of a call that its builder had signed
ByHandler(n) == [key |-> n.trusted_handler, is_signer |-> TRUE]

\* A call of a kind with names takes the view x to y.
Meant(now, x, y, kind, n) ==
  /\ kind = "FactoryInitialize" =>
       /\ FactoryInitializeAccepts(x.version[n.factory])
       /\ OwnerAllows(n.factory, x.version[n.factory], n.version)
       /\ y.version = [x.version EXCEPT ![n.factory] = n.version]
       /\ y.escrow = x.escrow
       /\ y.balance = x.balance
  /\ kind = "Initialize" =>
       /\ InitializeAccepts(n.escrow, x.escrow[n.escrow], x.version[n.factory], n)
       /\ Stores(x, y, n.escrow, InitializeWrites(now, n))
       /\ y.balance = x.balance
  /\ kind = "Setup" =>
       /\ SetupAccepts(x.escrow[n.escrow], now, ByHandler(n), WithManifest(n))
       /\ Stores(x, y, n.escrow, SetupWrites(x.escrow[n.escrow], WithManifest(n)))
       /\ y.balance = x.balance
  /\ kind = "StoreResults" =>
       /\ StoreResultsAccepts(x.escrow[n.escrow], now, ByHandler(n))
       /\ Stores(x, y, n.escrow, StoreResultsWrites(x.escrow[n.escrow], n.final_results_url))
       /\ y.balance = x.balance
  /\ kind = "StoreFinalAmounts" =>
       /\ StoreAmountsAccepts(x.escrow[n.escrow], now, ByHandler(n))
       /\ Stores(x, y, n.escrow, StoreAmountsWrites(x.escrow[n.escrow], n))
       /\ y.balance = x.balance
  /\ kind = "Payout" =>
       /\ PayoutAccepts(n.escrow, x.escrow[n.escrow], x.balance, now, ByHandler(n), n)
       /\ Stores(x, y, n.escrow, PayoutWrites(x.escrow[n.escrow], n.amount))
       /\ y.balance = PayoutLedger(x.escrow[n.escrow], x.balance, n)
  /\ kind = "Cancel" =>
       /\ CancelAccepts(n.escrow, x.escrow[n.escrow], x.balance, ByHandler(n), n)
       /\ Stores(x, y, n.escrow, CancelWrites(x.escrow[n.escrow]))
       /\ y.balance = CancelLedger(x.balance, n)
  /\ kind = "Complete" =>
       /\ CompleteAccepts(x.escrow[n.escrow], now, ByHandler(n))
       /\ Stores(x, y, n.escrow, CompleteWrites(x.escrow[n.escrow]))
       /\ y.balance = x.balance

\* What the handlers use of the names of a call
Needs ==
  [FactoryInitialize |-> {"factory", "version"},
   Initialize |-> {"escrow", "factory", "token_mint", "token_account", "launcher", "canceler",
                   "canceler_token_account", "duration"},
   Setup |-> {"escrow", "trusted_handler", "reputation_oracle", "reputation_oracle_token_account",
              "recording_oracle", "recording_oracle_token_account", "reputation_oracle_stake",
              "recording_oracle_stake", "manifest_url", "manifest_hash"},
   StoreResults |-> {"escrow", "trusted_handler", "final_results_url", "final_results_hash"},
   StoreFinalAmounts |-> {"escrow", "trusted_handler", "total_amount", "total_recipients"},
   Payout |-> {"escrow", "trusted_handler", "token_account", "authority", "recipient_token_account",
               "reputation_oracle_token_account", "recording_oracle_token_account", "amount"},
   Cancel |-> {"escrow", "trusted_handler", "token_account", "authority", "canceler_token_account"},
   Complete |-> {"escrow", "trusted_handler"}]

\* The builders ask for all of it.
LEMMA NeedsAreNeeded ==
  ASSUME NEW kind \in Kinds
  PROVE  Needs[kind] \subseteq NeededBy(kind)
  <1>1. Needs["FactoryInitialize"] \subseteq NeededBy("FactoryInitialize")
    BY DEF Needs, NeededBy, BuiltAccounts, PackArguments, Range, W, R, S
  <1>2. Needs["Initialize"] \subseteq NeededBy("Initialize")
    BY DEF Needs, NeededBy, BuiltAccounts, PackArguments, Range, W, R, S
  <1>3. Needs["Setup"] \subseteq NeededBy("Setup")
    BY DEF Needs, NeededBy, BuiltAccounts, PackArguments, Range, W, R, S
  <1>4. Needs["StoreResults"] \subseteq NeededBy("StoreResults")
    BY DEF Needs, NeededBy, BuiltAccounts, PackArguments, Range, W, R, S
  <1>5. Needs["StoreFinalAmounts"] \subseteq NeededBy("StoreFinalAmounts")
    BY DEF Needs, NeededBy, BuiltAccounts, PackArguments, Range, W, R, S
  <1>6. Needs["Payout"] \subseteq NeededBy("Payout")
    BY DEF Needs, NeededBy, BuiltAccounts, PackArguments, Range, W, R, S
  <1>7. Needs["Cancel"] \subseteq NeededBy("Cancel")
    BY DEF Needs, NeededBy, BuiltAccounts, PackArguments, Range, W, R, S
  <1>8. Needs["Complete"] \subseteq NeededBy("Complete")
    BY DEF Needs, NeededBy, BuiltAccounts, PackArguments, Range, W, R, S
  <1> QED BY <1>1, <1>2, <1>3, <1>4, <1>5, <1>6, <1>7, <1>8 DEF Kinds

\* Requests name accounts of the kind their role asks for.
LEMMA NamesHaveTheirRoles ==
  ASSUME NEW kind, NEW names, FitsBuilder(kind, names)
  PROVE  \A n \in Needs[kind] :
           /\ n \in DOMAIN names
           /\ n = "factory" => names.factory \in Factories
           /\ n = "escrow" => names.escrow \in Escrows
           /\ n = "trusted_handler" => names.trusted_handler \in Keys
           /\ n \in {"token_account", "canceler_token_account", "recipient_token_account",
                     "reputation_oracle_token_account", "recording_oracle_token_account"} =>
                names[n] \in TokenAccounts
  <1> TAKE n \in Needs[kind]
  <1>1. n \in NeededBy(kind) /\ n \in DOMAIN names
    BY NeedsAreNeeded DEF FitsBuilder
  <1>2. n \in DOMAIN RolesOf => names[n] \in RolesOf[n]
    BY <1>1 DEF FitsBuilder
  <1> QED BY <1>1, <1>2 DEF RolesOf

\* What a handler gets to see of a call, field by field
LEMMA SeenFields ==
  ASSUME NEW kind, NEW n, FitsBuilder(kind, n), NEW u, Sees(u, kind, n)
  PROVE  /\ \A f \in Needs[kind] : u.call[f] = n[f]
         /\ "trusted_handler" \in Needs[kind] => HandlerOf(u.metas) = ByHandler(n)
  <1>1. Needs[kind] \subseteq NeededBy(kind)
    BY NeedsAreNeeded DEF FitsBuilder
  <1> QED BY <1>1 DEF Sees, ByHandler

\* One lemma per process_* function: it accepts a call only if EscrowInstructions does,
\* and writes what EscrowInstructions writes.  process_factory_initialize
LEMMA FactoryInitializeMeans ==
  ASSUME NEW w, SoundWorld(w), NEW now, NEW n, FitsBuilder("FactoryInitialize", n),
         NEW u, Sees(u, "FactoryInitialize", n), NEW v \in ProcessFactoryInitialize(w, u.call)
  PROVE  SoundWorld(v) /\ Meant(now, ViewOf(w), ViewOf(v), "FactoryInitialize", n)
  <1>1. /\ u.call.factory = n.factory /\ u.call.version = n.version
        /\ n.factory \in Factories
    BY SeenFields, NamesHaveTheirRoles DEF Needs
  <1>2. /\ Has(w, n.factory, "Factory")
        /\ FactoryInitializeAccepts(w.account[n.factory].version)
        /\ OwnerAllows(n.factory, w.account[n.factory].version, n.version)
        /\ v = [w EXCEPT !.account[n.factory].version = n.version]
    BY <1>1 DEF ProcessFactoryInitialize, When
  <1>3. WorldInv(v)
    BY FactoryInitializeKeeps DEF SoundWorld
  <1>4. /\ SoundWorld(v)
        /\ ViewOf(v).version = [ViewOf(w).version EXCEPT ![n.factory] = n.version]
        /\ ViewOf(v).escrow = ViewOf(w).escrow
        /\ ViewOf(v).balance = ViewOf(w).balance
        /\ ViewOf(w).version[n.factory] = w.account[n.factory].version
    BY <1>1, <1>2, <1>3, VersionSeen
  <1> QED BY <1>2, <1>4 DEF Meant

\* process_initialize
LEMMA InitializeMeans ==
  ASSUME NEW w, SoundWorld(w), NEW now, NEW n \in InitializeNames,
         NEW u, Sees(u, "Initialize", n), NEW got \in EscrowIn(w, u.call.escrow),
         NEW v \in ProcessInitialize(w, now, got, u.call)
  PROVE  SoundWorld(v) /\ Meant(now, ViewOf(w), ViewOf(v), "Initialize", n)
  <1> DEFINE call == u.call
             e == n.escrow
             f == n.factory
             esc == InitializeWrites(now, call)
  <1>1. FitsBuilder("Initialize", n)
    BY InitializeNamesFit
  <1>2. /\ call.escrow = e /\ call.factory = f /\ call.token_mint = n.token_mint
        /\ call.token_account = n.token_account /\ call.launcher = n.launcher
        /\ call.canceler = n.canceler /\ call.duration = n.duration
        /\ call.canceler_token_account = n.canceler_token_account
        /\ e \in Escrows /\ f \in Factories
        /\ n.token_account \in TokenAccounts /\ n.canceler_token_account \in TokenAccounts
    BY <1>1, SeenFields, NamesHaveTheirRoles DEF Needs
  <1>3. /\ Has(w, f, "Factory")
        /\ Program(MintIn(w), OwnerIn(w))!InitializeAccepts(
             e, got.escrow, w.account[f].version, call)
        /\ v = Stored(w, e, esc, BumpSeed[e])
    BY <1>2 DEF ProcessInitialize, When
  <1>4. /\ InitializeAccepts(e, got.escrow, w.account[f].version, call)
        /\ call.token_mint \in NativeMints
        /\ IsTokenAccount(w, call.token_account)
        /\ IsTokenAccount(w, call.canceler_token_account)
    BY <1>2, <1>3, InitializeMirrors
  <1>5. got \in EscrowIn(w, e)
    BY <1>2
  <1>6. /\ ViewOf(w).escrow[e] = got.escrow
        /\ WholeRecord(got.escrow)
    BY <1>2, <1>5, SeenIsRead
  <1>7. WholeRecord(esc) /\ EscrowInitialized(esc)
    BY <1>6, WritesAreWhole
  <1>8. esc = InitializeWrites(now, n)
    BY <1>2 DEF InitializeWrites
  <1>9. RecordAgrees(w, e, esc)
    <2>1. /\ esc.token_mint = n.token_mint
          /\ esc.token_account = n.token_account
          /\ esc.canceler_token_account = n.canceler_token_account
      BY ZenonT(30), <1>8 DEF InitializeWrites, BlankEscrow
    <2> HIDE DEF esc
    <2> QED BY <1>2, <1>4, <2>1 DEF RecordAgrees
  <1> HIDE DEF esc
  <1>10. /\ SoundWorld(v)
         /\ Stores(ViewOf(w), ViewOf(v), e, esc)
         /\ ViewOf(v).balance = ViewOf(w).balance
    BY <1>2, <1>3, <1>5, <1>7, <1>9, StoringSeen
  <1>11. ViewOf(w).version[f] = w.account[f].version
    BY <1>3, ViewIsOfContents, <1>2 DEF VersionOf, Has
  <1>12. InitializeAccepts(e, ViewOf(w).escrow[e], ViewOf(w).version[f], n)
    BY <1>2, <1>4, <1>6, <1>11 DEF InitializeAccepts
  <1> QED BY <1>8, <1>10, <1>12 DEF Meant

\* process_setup
LEMMA SetupMeans ==
  ASSUME NEW w, SoundWorld(w), NEW now, NEW n, FitsBuilder("Setup", n),
         NEW u, Sees(u, "Setup", n), NEW got \in EscrowIn(w, u.call.escrow),
         NEW v \in ProcessSetup(w, now, got, HandlerOf(u.metas), u.call)
  PROVE  SoundWorld(v) /\ Meant(now, ViewOf(w), ViewOf(v), "Setup", n)
  <1> DEFINE call == u.call
             e == n.escrow
             esc == SetupWrites(got.escrow, call)
             m == WithManifest(n)
  <1>1. /\ \A f \in Needs["Setup"] : call[f] = n[f] /\ f \in DOMAIN n
        /\ HandlerOf(u.metas) = ByHandler(n)
        /\ e \in Escrows /\ call.escrow = e
        /\ n.reputation_oracle_token_account \in TokenAccounts
        /\ n.recording_oracle_token_account \in TokenAccounts
    BY SeenFields, NamesHaveTheirRoles DEF Needs
  <1>2. call.manifest = n.manifest_url
    BY DEF Sees
  <1>3. /\ Program(MintIn(w), OwnerIn(w))!SetupAccepts(got.escrow, now, ByHandler(n), call)
        /\ v = Stored(w, e, esc, got.bump_seed)
    BY <1>1 DEF ProcessSetup, When
  <1>4. got \in EscrowIn(w, e)
    BY <1>1
  <1>5. /\ ViewOf(w).escrow[e] = got.escrow
        /\ WholeRecord(got.escrow)
        /\ RecordAgrees(w, e, got.escrow)
    BY <1>1, <1>4, SeenIsRead
  <1>6. EscrowInitialized(got.escrow)
    BY <1>3, StateCheckSame DEF Program!SetupAccepts, StateCheck
  <1>7. got.escrow.token_mint \in Mints
    <2>1. got.escrow # BlankEscrow
      BY <1>6 DEF EscrowInitialized, BlankEscrow
    <2> QED BY <1>5, <2>1, RequestsAssumption DEF RecordAgrees
  <1>8. {call.reputation_oracle_token_account,
         call.recording_oracle_token_account} \subseteq TokenAccounts
    BY <1>1 DEF Needs
  <1>9. SetupAccepts(got.escrow, now, ByHandler(n), call)
    BY <1>3, <1>7, <1>8, SetupMirrors
  <1>10. /\ m.manifest = call.manifest
         /\ \A f \in Needs["Setup"] : m[f] = call[f]
    <2>1. "manifest" \notin Needs["Setup"]
      BY DEF Needs
    <2>2. m.manifest = n.manifest_url /\ \A f \in DOMAIN n \ {"manifest"} : m[f] = n[f]
      BY DEF WithManifest, Joined
    <2> QED BY <1>1, <1>2, <2>1, <2>2
  <1> HIDE DEF m, call
  <1>11. /\ m.manifest = call.manifest
         /\ m.reputation_oracle = call.reputation_oracle
         /\ m.reputation_oracle_token_account = call.reputation_oracle_token_account
         /\ m.reputation_oracle_stake = call.reputation_oracle_stake
         /\ m.recording_oracle = call.recording_oracle
         /\ m.recording_oracle_token_account = call.recording_oracle_token_account
         /\ m.recording_oracle_stake = call.recording_oracle_stake
    BY <1>10 DEF Needs
  <1>12. SetupWrites(got.escrow, m) = esc /\ SetupAccepts(got.escrow, now, ByHandler(n), m)
    BY <1>9, <1>11 DEF SetupWrites, SetupAccepts
  <1>13. WholeRecord(esc) /\ EscrowInitialized(esc) /\ RecordAgrees(w, e, esc)
    BY <1>5, <1>6, WritesAreWhole, RecordsKeepAgreeing
  <1> HIDE DEF esc
  <1>14. EscrowInitialized(esc) = EscrowInitialized(got.escrow)
    BY <1>6, <1>13 DEF EscrowInitialized
  <1>15. /\ SoundWorld(v)
         /\ Stores(ViewOf(w), ViewOf(v), e, esc)
         /\ ViewOf(v).balance = ViewOf(w).balance
    BY <1>1, <1>3, <1>4, <1>13, <1>14, StoringSeen
  <1> QED BY <1>5, <1>12, <1>15 DEF Meant, m

\* process_store_results
LEMMA StoreResultsMeans ==
  ASSUME NEW w, SoundWorld(w), NEW now, NEW n, FitsBuilder("StoreResults", n),
         NEW u, Sees(u, "StoreResults", n), NEW got \in EscrowIn(w, u.call.escrow),
         NEW v \in ProcessStoreResults(w, now, got, HandlerOf(u.metas), u.call)
  PROVE  SoundWorld(v) /\ Meant(now, ViewOf(w), ViewOf(v), "StoreResults", n)
  <1> DEFINE e == n.escrow
             esc == StoreResultsWrites(got.escrow, n.final_results_url)
  <1>1. /\ u.call.escrow = e /\ e \in Escrows
        /\ HandlerOf(u.metas) = ByHandler(n)
        /\ u.call.final_results = n.final_results_url
    BY SeenFields, NamesHaveTheirRoles DEF Needs, Sees
  <1>2. /\ StoreResultsAccepts(got.escrow, now, ByHandler(n))
        /\ v = Stored(w, e, esc, got.bump_seed)
    BY <1>1 DEF ProcessStoreResults, When
  <1>3. got \in EscrowIn(w, e)
    BY <1>1
  <1>4. /\ ViewOf(w).escrow[e] = got.escrow
        /\ WholeRecord(got.escrow)
        /\ RecordAgrees(w, e, got.escrow)
    BY <1>1, <1>3, SeenIsRead
  <1>5. EscrowInitialized(got.escrow)
    BY <1>2 DEF StoreResultsAccepts, StateCheck
  <1>6. /\ WholeRecord(esc) /\ RecordAgrees(w, e, esc)
        /\ EscrowInitialized(esc) = EscrowInitialized(got.escrow)
    BY <1>4, <1>5, WritesAreWhole, RecordsKeepAgreeing
  <1> HIDE DEF esc
  <1>7. /\ SoundWorld(v)
        /\ Stores(ViewOf(w), ViewOf(v), e, esc)
        /\ ViewOf(v).balance = ViewOf(w).balance
    BY <1>1, <1>2, <1>3, <1>6, StoringSeen
  <1> QED BY <1>2, <1>4, <1>7 DEF Meant, esc

\* process_store_amounts
LEMMA StoreAmountsMeans ==
  ASSUME NEW w, SoundWorld(w), NEW now, NEW n, FitsBuilder("StoreFinalAmounts", n),
         NEW u, Sees(u, "StoreFinalAmounts", n), NEW got \in EscrowIn(w, u.call.escrow),
         NEW v \in ProcessStoreAmounts(w, now, got, HandlerOf(u.metas), u.call)
  PROVE  SoundWorld(v) /\ Meant(now, ViewOf(w), ViewOf(v), "StoreFinalAmounts", n)
  <1> DEFINE e == n.escrow
             esc == StoreAmountsWrites(got.escrow, u.call)
  <1>1. /\ u.call.escrow = e /\ e \in Escrows
        /\ HandlerOf(u.metas) = ByHandler(n)
        /\ u.call.total_amount = n.total_amount
        /\ u.call.total_recipients = n.total_recipients
    BY SeenFields, NamesHaveTheirRoles DEF Needs
  <1>2. /\ StoreAmountsAccepts(got.escrow, now, ByHandler(n))
        /\ v = Stored(w, e, esc, got.bump_seed)
    BY <1>1 DEF ProcessStoreAmounts, When
  <1>3. got \in EscrowIn(w, e)
    BY <1>1
  <1>4. /\ ViewOf(w).escrow[e] = got.escrow
        /\ WholeRecord(got.escrow)
        /\ RecordAgrees(w, e, got.escrow)
    BY <1>1, <1>3, SeenIsRead
  <1>5. EscrowInitialized(got.escrow)
    BY <1>2 DEF StoreAmountsAccepts, StateCheck
  <1>6. /\ WholeRecord(esc) /\ RecordAgrees(w, e, esc)
        /\ EscrowInitialized(esc) = EscrowInitialized(got.escrow)
    BY <1>4, <1>5, WritesAreWhole, RecordsKeepAgreeing
  <1>7. esc = StoreAmountsWrites(got.escrow, n)
    BY <1>1 DEF StoreAmountsWrites
  <1> HIDE DEF esc
  <1>8. /\ SoundWorld(v)
        /\ Stores(ViewOf(w), ViewOf(v), e, esc)
        /\ ViewOf(v).balance = ViewOf(w).balance
    BY <1>1, <1>2, <1>3, <1>6, StoringSeen
  <1> QED BY <1>2, <1>4, <1>7, <1>8 DEF Meant

\* process_complete
LEMMA CompleteMeans ==
  ASSUME NEW w, SoundWorld(w), NEW now, NEW n, FitsBuilder("Complete", n),
         NEW u, Sees(u, "Complete", n), NEW got \in EscrowIn(w, u.call.escrow),
         NEW v \in ProcessComplete(w, now, got, HandlerOf(u.metas), u.call)
  PROVE  SoundWorld(v) /\ Meant(now, ViewOf(w), ViewOf(v), "Complete", n)
  <1> DEFINE e == n.escrow
             esc == CompleteWrites(got.escrow)
  <1>1. /\ u.call.escrow = e /\ e \in Escrows
        /\ HandlerOf(u.metas) = ByHandler(n)
    BY SeenFields, NamesHaveTheirRoles DEF Needs
  <1>2. /\ CompleteAccepts(got.escrow, now, ByHandler(n))
        /\ v = Stored(w, e, esc, got.bump_seed)
    BY <1>1 DEF ProcessComplete, When
  <1>3. got \in EscrowIn(w, e)
    BY <1>1
  <1>4. /\ ViewOf(w).escrow[e] = got.escrow
        /\ WholeRecord(got.escrow)
        /\ RecordAgrees(w, e, got.escrow)
    BY <1>1, <1>3, SeenIsRead
  <1>5. EscrowInitialized(got.escrow)
    BY <1>2 DEF CompleteAccepts, StateCheck
  <1>6. WholeRecord(esc) /\ RecordAgrees(w, e, esc) /\ EscrowInitialized(esc)
    BY <1>4, <1>5, WritesAreWhole, RecordsKeepAgreeing
  <1> HIDE DEF esc
  <1>7. EscrowInitialized(esc) = EscrowInitialized(got.escrow)
    BY <1>5, <1>6 DEF EscrowInitialized
  <1>8. /\ SoundWorld(v)
        /\ Stores(ViewOf(w), ViewOf(v), e, esc)
        /\ ViewOf(v).balance = ViewOf(w).balance
    BY <1>1, <1>2, <1>3, <1>6, <1>7, StoringSeen
  <1> QED BY <1>2, <1>4, <1>8 DEF Meant, esc

\* process_payout
LEMMA PayoutMeans ==
  ASSUME NEW w, SoundWorld(w), NEW now, NEW n, FitsBuilder("Payout", n),
         NEW u, Sees(u, "Payout", n), NEW got \in EscrowIn(w, u.call.escrow),
         NEW v \in ProcessPayout(w, now, got, HandlerOf(u.metas), u.call)
  PROVE  SoundWorld(v) /\ Meant(now, ViewOf(w), ViewOf(v), "Payout", n)
  <1> DEFINE e == n.escrow
             call == u.call
             esc == PayoutWrites(got.escrow, n.amount)
             seen == ViewOf(w).balance
             ledger == LedgerIn(w)
  <1>1. /\ call.escrow = e /\ e \in Escrows
        /\ HandlerOf(u.metas) = ByHandler(n)
        /\ call.amount = n.amount /\ call.authority = n.authority
        /\ call.token_account = n.token_account
        /\ call.recipient_token_account = n.recipient_token_account
        /\ call.reputation_oracle_token_account = n.reputation_oracle_token_account
        /\ call.recording_oracle_token_account = n.recording_oracle_token_account
        /\ {n.token_account, n.recipient_token_account, n.reputation_oracle_token_account,
            n.recording_oracle_token_account} \subseteq TokenAccounts
    BY SeenFields, NamesHaveTheirRoles DEF Needs
  <1>2. /\ got.bump_seed = BumpSeed[e]
        /\ Program(MintIn(w), OwnerIn(w))!PayoutAccepts(
             e, got.escrow, ledger, now, ByHandler(n), call)
        /\ v = Paid(Stored(w, e, esc, got.bump_seed), PayoutLedger(got.escrow, ledger, call))
    BY <1>1 DEF ProcessPayout, When, SeedGivesAuthority
  <1>3. got \in EscrowIn(w, e)
    BY <1>1
  <1>4. /\ ViewOf(w).escrow[e] = got.escrow
        /\ WholeRecord(got.escrow)
        /\ RecordAgrees(w, e, got.escrow)
    BY <1>1, <1>3, SeenIsRead
  <1>5. Mirrors(w, ledger, seen)
    BY LedgerMirrors
  <1> HIDE DEF ledger, seen, call
  <1>6. /\ PayoutAccepts(e, got.escrow, seen, now, ByHandler(n), call)
        /\ Mirrors(w, PayoutLedger(got.escrow, ledger, call), PayoutLedger(got.escrow, seen, call))
    BY <1>1, <1>2, <1>5, PayoutMirrors
  <1>7. EscrowInitialized(got.escrow)
    BY <1>6 DEF PayoutAccepts, StateCheck
  <1>8. WholeRecord(esc) /\ RecordAgrees(w, e, esc) /\ EscrowInitialized(esc)
    BY <1>4, <1>7, WritesAreWhole, RecordsKeepAgreeing
  <1>9. /\ AfterRecipient(got.escrow, seen, n) = AfterRecipient(got.escrow, seen, call)
        /\ AfterReputation(got.escrow, seen, n) = AfterReputation(got.escrow, seen, call)
        /\ PayoutLedger(got.escrow, seen, n) = PayoutLedger(got.escrow, seen, call)
    BY <1>1 DEF PayoutLedger, AfterReputation, AfterRecipient
  <1>10. PayoutAccepts(e, got.escrow, seen, now, ByHandler(n), n)
    <2>1. PayoutAccountsMatch(e, got.escrow, n) = PayoutAccountsMatch(e, got.escrow, call)
      BY <1>1 DEF PayoutAccountsMatch
    <2>2. PayoutTransfersSucceed(got.escrow, seen, n) = PayoutTransfersSucceed(got.escrow, seen, call)
      BY <1>1, <1>9 DEF PayoutTransfersSucceed
    <2> QED BY <1>1, <1>6, <2>1, <2>2 DEF PayoutAccepts
  <1> HIDE DEF esc
  <1>11. /\ SoundWorld(v)
         /\ Stores(ViewOf(w), ViewOf(v), e, esc)
         /\ ViewOf(v).balance = PayoutLedger(got.escrow, seen, call)
    BY <1>1, <1>2, <1>3, <1>6, <1>8, PayingSeen
  <1> QED BY <1>4, <1>9, <1>10, <1>11 DEF Meant, esc, seen

\* process_cancel
LEMMA CancelMeans ==
  ASSUME NEW w, SoundWorld(w), NEW now, NEW n, FitsBuilder("Cancel", n),
         NEW u, Sees(u, "Cancel", n), NEW got \in EscrowIn(w, u.call.escrow),
         NEW v \in ProcessCancel(w, got, HandlerOf(u.metas), u.call)
  PROVE  SoundWorld(v) /\ Meant(now, ViewOf(w), ViewOf(v), "Cancel", n)
  <1> DEFINE e == n.escrow
             call == u.call
             esc == CancelWrites(got.escrow)
             seen == ViewOf(w).balance
             ledger == LedgerIn(w)
  <1>1. /\ call.escrow = e /\ e \in Escrows
        /\ HandlerOf(u.metas) = ByHandler(n)
        /\ call.authority = n.authority
        /\ call.token_account = n.token_account
        /\ call.canceler_token_account = n.canceler_token_account
        /\ {n.token_account, n.canceler_token_account} \subseteq TokenAccounts
    BY SeenFields, NamesHaveTheirRoles DEF Needs
  <1>2. /\ got.bump_seed = BumpSeed[e]
        /\ Program(MintIn(w), OwnerIn(w))!CancelAccepts(e, got.escrow, ledger, ByHandler(n), call)
        /\ v = Paid(Stored(w, e, esc, got.bump_seed), CancelLedger(ledger, call))
    BY <1>1 DEF ProcessCancel, When, SeedGivesAuthority
  <1>3. got \in EscrowIn(w, e)
    BY <1>1
  <1>4. /\ ViewOf(w).escrow[e] = got.escrow
        /\ WholeRecord(got.escrow)
        /\ RecordAgrees(w, e, got.escrow)
    BY <1>1, <1>3, SeenIsRead
  <1>5. Mirrors(w, ledger, seen)
    BY LedgerMirrors
  <1> HIDE DEF ledger, seen, call
  <1>6. /\ CancelAccepts(e, got.escrow, seen, ByHandler(n), call)
        /\ Mirrors(w, CancelLedger(ledger, call), CancelLedger(seen, call))
    BY <1>1, <1>2, <1>5, CancelMirrors
  <1>7. EscrowInitialized(got.escrow)
    BY <1>6 DEF CancelAccepts
  <1>8. WholeRecord(esc) /\ RecordAgrees(w, e, esc) /\ EscrowInitialized(esc)
    BY <1>4, <1>7, WritesAreWhole, RecordsKeepAgreeing
  <1>9. CancelLedger(seen, n) = CancelLedger(seen, call)
        /\ CancelAccepts(e, got.escrow, seen, ByHandler(n), n)
    BY <1>1, <1>6 DEF CancelLedger, CancelAccepts
  <1> HIDE DEF esc
  <1>10. /\ SoundWorld(v)
         /\ Stores(ViewOf(w), ViewOf(v), e, esc)
         /\ ViewOf(v).balance = CancelLedger(seen, call)
    BY <1>1, <1>2, <1>3, <1>6, <1>8, PayingSeen
  <1> QED BY <1>4, <1>9, <1>10 DEF Meant, esc, seen

\* Whatever the call, the program does what it was meant to do.
LEMMA ProcessMeans ==
  ASSUME NEW w, SoundWorld(w), NEW now, NEW kind, NEW n, FitsBuilder(kind, n),
         kind = "Initialize" => n \in InitializeNames,
         NEW v \in Process(w, now, Escrow(kind, n))
  PROVE  SoundWorld(v) /\ Meant(now, ViewOf(w), ViewOf(v), kind, n)
  <1>1. PICK u : Understood(Escrow(kind, n)) = {u} /\ Sees(u, kind, n)
    BY CallsAreUnderstood
  <1>2. v \in Dispatched(w, now, u.kind, HandlerOf(u.metas), u.call)
    BY <1>1 DEF Process
  <1>3. u.kind = kind /\ kind \in Kinds
    BY <1>1 DEF Sees, FitsBuilder
  <1> DEFINE handler == HandlerOf(u.metas)
             call == u.call
  <1>4. CASE kind = "FactoryInitialize"
    BY <1>1, <1>2, <1>3, <1>4, FactoryInitializeMeans DEF Dispatched
  <1>5. CASE kind # "FactoryInitialize"
    <2>1. PICK got \in EscrowIn(w, call.escrow) :
            v \in CASE kind = "Initialize" -> ProcessInitialize(w, now, got, call)
                    [] kind = "Setup" -> ProcessSetup(w, now, got, handler, call)
                    [] kind = "StoreResults" -> ProcessStoreResults(w, now, got, handler, call)
                    [] kind = "StoreFinalAmounts" ->
                         ProcessStoreAmounts(w, now, got, handler, call)
                    [] kind = "Payout" -> ProcessPayout(w, now, got, handler, call)
                    [] kind = "Cancel" -> ProcessCancel(w, got, handler, call)
                    [] kind = "Complete" -> ProcessComplete(w, now, got, handler, call)
      <3> HIDE DEF handler, call
      <3>1. v \in Dispatched(w, now, kind, handler, call)
        BY <1>2, <1>3 DEF handler, call
      <3> QED BY <1>5, <3>1 DEF Dispatched
    <2>2. CASE kind = "Initialize"
      BY <1>1, <2>1, <2>2, InitializeMeans
    <2>3. CASE kind = "Setup"
      BY <1>1, <2>1, <2>3, SetupMeans
    <2>4. CASE kind = "StoreResults"
      BY <1>1, <2>1, <2>4, StoreResultsMeans
    <2>5. CASE kind = "StoreFinalAmounts"
      BY <1>1, <2>1, <2>5, StoreAmountsMeans
    <2>6. CASE kind = "Payout"
      BY <1>1, <2>1, <2>6, PayoutMeans
    <2>7. CASE kind = "Cancel"
      BY <1>1, <2>1, <2>7, CancelMeans
    <2>8. CASE kind = "Complete"
      BY <1>1, <2>1, <2>8, CompleteMeans
    <2> QED BY <1>3, <1>5, <2>2, <2>3, <2>4, <2>5, <2>6, <2>7, <2>8 DEF Kinds
  <1> QED BY <1>4, <1>5

-----------------------------------------------------------------------------
\* An instruction that prepares an account, and that no client sees
Preparatory(i) ==
  \/ /\ i.program = "create_account"
     /\ i.new \in Addresses
     /\ i.kind \in {"Escrow", "Factory", "TokenAccount"}
  \/ /\ i.program = "initialize_account"
     /\ i.account \in Addresses
     /\ i.mint = NoMint \/ (i.mint = MintOf[i.account] /\ i.owner = OwnerOf[i.account])

\* The first m instructions of a transaction only prepare.
PreparesFirst(tx, m) == \A k \in 1 .. m : Preparatory(tx.instructions[k])

\* No client sees a difference after them.
LEMMA PreparationUnseen ==
  ASSUME NEW w, SoundWorld(w), NEW now, NEW tx, NEW n \in Nat, NEW run,
         IsExecution(run, w, now, tx, n), NEW m \in 0 .. n, PreparesFirst(tx, m)
  PROVE  \A x \in run[m] : SoundWorld(x) /\ ViewOf(x) = ViewOf(w)
  <1> DEFINE P == {k \in 0 .. m : \A x \in run[k] : SoundWorld(x) /\ ViewOf(x) = ViewOf(w)}
  <1>1. 0 \in P
    BY DEF IsExecution
  <1>2. ASSUME NEW k \in 1 .. m, k - 1 \in P
        PROVE  k \in P
    <2>1. run[k] = Stepped(run[k - 1], now, tx.signers, tx.instructions[k])
      BY DEF IsExecution
    <2> SUFFICES ASSUME NEW x \in run[k]
                 PROVE  SoundWorld(x) /\ ViewOf(x) = ViewOf(w)
      OBVIOUS
    <2>2. PICK before \in run[k - 1] : x \in Execute(before, now, tx.signers, tx.instructions[k])
      BY <2>1 DEF Stepped
    <2>3. SoundWorld(before) /\ ViewOf(before) = ViewOf(w)
      BY <1>2
    <2> DEFINE i == tx.instructions[k]
    <2>4. CASE i.program = "create_account"
      <3>1. x \in CreateAccount(before, tx.signers, i)
        BY <2>2, <2>4 DEF Execute
      <3> QED BY <2>3, <2>4, <3>1, CreateAccountUnseen DEF Preparatory, PreparesFirst
    <2>5. CASE i.program = "initialize_account"
      <3>1. x \in InitializeAccount(before, i)
        BY <2>2, <2>5 DEF Execute
      <3> QED BY <2>3, <2>5, <3>1, InitializeAccountUnseen DEF Preparatory, PreparesFirst
    <2> QED BY <2>4, <2>5 DEF Preparatory, PreparesFirst
  <1> HIDE DEF P
  <1>3. \A k \in 0 .. m : k \in P
    BY <1>1, <1>2, PrefixInduction
  <1>4. m \in P
    BY <1>3
  <1> QED BY <1>4 DEF P

\* A transaction that prepares accounts and then makes one call
Calling(tx, kind, names) ==
  \E n \in Nat : /\ DOMAIN tx.instructions = 1 .. n + 1
                 /\ \A k \in 1 .. n : Preparatory(tx.instructions[k])
                 /\ tx.instructions[n + 1] = Escrow(kind, names)

\* Such a transaction does what its call means, to what the clients see.
LEMMA CallingMeans ==
  ASSUME NEW w, SoundWorld(w), NEW now, NEW tx, NEW kind, NEW names, Calling(tx, kind, names),
         FitsBuilder(kind, names), kind = "Initialize" => names \in InitializeNames,
         NEW result \in Executed(w, now, tx)
  PROVE  SoundWorld(result) /\ Meant(now, ViewOf(w), ViewOf(result), kind, names)
  <1>1. PICK n \in Nat : /\ DOMAIN tx.instructions = 1 .. n + 1
                         /\ \A k \in 1 .. n : Preparatory(tx.instructions[k])
                         /\ tx.instructions[n + 1] = Escrow(kind, names)
    BY DEF Calling
  <1> DEFINE all == n + 1
  <1>2. all \in Nat /\ n \in 0 .. all /\ all \in 1 .. all /\ all - 1 = n
    OBVIOUS
  <1>3. DOMAIN tx.instructions = 1 .. all /\ tx.instructions[all] = Escrow(kind, names)
    BY <1>1
  <1> HIDE DEF all
  <1>4. PICK run : IsExecution(run, w, now, tx, all)
    BY <1>2, <1>3, ExecutionRuns
  <1>5. \A x \in run[n] : SoundWorld(x) /\ ViewOf(x) = ViewOf(w)
    <2>1. PreparesFirst(tx, n)
      BY <1>1 DEF PreparesFirst
    <2> QED BY <1>2, <1>4, <2>1, PreparationUnseen
  <1>6. result \in Stepped(run[n], now, tx.signers, Escrow(kind, names))
    BY <1>2, <1>3, <1>4 DEF IsExecution
  <1>7. PICK before \in run[n] : result \in Execute(before, now, tx.signers, Escrow(kind, names))
    BY <1>6 DEF Stepped
  <1>8. result \in Process(before, now, Escrow(kind, names))
    <2>1. Escrow(kind, names).program = "escrow"
      BY DEF Escrow
    <2> DEFINE i == Escrow(kind, names)
    <2> HIDE DEF i
    <2>2. result \in Execute(before, now, tx.signers, i) /\ i.program = "escrow"
      BY <1>7, <2>1 DEF i
    <2>3. result \in Process(before, now, i)
      BY <2>2 DEF Execute
    <2> QED BY <2>3 DEF i
  <1> QED BY <1>5, <1>7, <1>8, ProcessMeans

\* Such transactions are put together of parts.
LEMMA CallsAfterPreparing ==
  ASSUME NEW parts, \A i \in parts : Preparatory(i), NEW prefix \in Seq(parts),
         NEW kind, NEW names, NEW signers, NEW budget
  PROVE  Calling(Transaction(prefix \o <<Escrow(kind, names)>>, signers, budget), kind, names)
  <1> DEFINE last == Escrow(kind, names)
             all == prefix \o <<last>>
             n == Len(prefix)
             tx == Transaction(all, signers, budget)
  <1>1. tx.instructions = all
    BY DEF Transaction
  <1> HIDE DEF last, tx
  <1>2. /\ n \in Nat /\ DOMAIN all = 1 .. n + 1
        /\ \A k \in 1 .. n : all[k] = prefix[k] /\ prefix[k] \in parts
        /\ all[n + 1] = last
    OBVIOUS
  <1> HIDE DEF all, n
  <1>3. \A k \in 1 .. n : Preparatory(all[k])
    BY <1>2
  <1>4. /\ DOMAIN tx.instructions = 1 .. n + 1
        /\ \A k \in 1 .. n : Preparatory(tx.instructions[k])
        /\ tx.instructions[n + 1] = Escrow(kind, names)
    BY <1>1, <1>2, <1>3 DEF last
  <1>5. Calling(tx, kind, names)
    BY <1>2, <1>4 DEF Calling
  <1> QED BY <1>5 DEF tx, all, last

\* The parts of the commands that create accounts
LEMMA BlocksArePreparatory ==
  /\ \A a \in Addresses, kind \in {"Escrow", "Factory", "TokenAccount"} :
       Preparatory(NewAccount(a, kind))
  /\ \A a \in Addresses : \A m, o :
       m = NoMint \/ (m = MintOf[a] /\ o = OwnerOf[a]) =>
         /\ Preparatory(NewTokenAccount(a, m, o)[1])
         /\ Preparatory(NewTokenAccount(a, m, o)[2])
  <1>1. \A a \in Addresses, kind \in {"Escrow", "Factory", "TokenAccount"} :
          Preparatory(NewAccount(a, kind))
    BY DEF Preparatory, NewAccount
  <1>2. ASSUME NEW a \in Addresses, NEW m, NEW o, m = NoMint \/ (m = MintOf[a] /\ o = OwnerOf[a])
        PROVE  /\ Preparatory(NewTokenAccount(a, m, o)[1])
               /\ Preparatory(NewTokenAccount(a, m, o)[2])
    <2> DEFINE init == [program |-> "initialize_account", account |-> a, mint |-> m, owner |-> o]
               fresh == NewAccount(a, "TokenAccount")
    <2>1. NewTokenAccount(a, m, o) = <<fresh, init>>
      BY DEF NewTokenAccount
    <2>2. Preparatory(init)
      BY <1>2 DEF Preparatory
    <2>3. Preparatory(fresh)
      BY <1>1
    <2> HIDE DEF init, fresh
    <2> QED BY <2>1, <2>2, <2>3
  <1> QED BY <1>1, <1>2

-----------------------------------------------------------------------------
\* The instance of EscrowProgram has the very handlers.
LEMMA AbstractArithmetic ==
  /\ \A a, s : Abstract!Fee(a, s) = Fee(a, s)
  /\ \A a, b : Abstract!SaturatingSub(a, b) = SaturatingSub(a, b)
  /\ \A a, b : Abstract!WrapAdd(a, b) = WrapAdd(a, b)
  /\ \A a, b : Abstract!ExpiresAt(a, b) = ExpiresAt(a, b)
  <1>1. \A a, s : Abstract!Fee(a, s) = Fee(a, s)
    BY DEF Abstract!Fee, Fee, Abstract!U64, U64
  <1>2. \A a, b : Abstract!SaturatingSub(a, b) = SaturatingSub(a, b)
    BY DEF Abstract!SaturatingSub, SaturatingSub
  <1>3. \A a, b : Abstract!WrapAdd(a, b) = WrapAdd(a, b)
    BY DEF Abstract!WrapAdd, WrapAdd, Abstract!U64, U64
  <1>4. \A a, b : Abstract!WrapAddI64(a, b) = WrapAddI64(a, b)
    BY DEF Abstract!WrapAddI64, WrapAddI64, Abstract!U64, U64
  <1>5. \A a : Abstract!AsI64(a) = AsI64(a)
    BY DEF Abstract!AsI64, AsI64, Abstract!U64, U64
  <1>6. \A a, b : Abstract!ExpiresAt(a, b) = ExpiresAt(a, b)
    BY <1>4, <1>5 DEF Abstract!ExpiresAt, ExpiresAt
  <1> QED BY <1>1, <1>2, <1>3, <1>6

\* The checks of the instance are those of EscrowInstructions, ...
LEMMA AbstractChecks ==
  /\ Abstract!BlankEscrow = BlankEscrow
  /\ \A esc : Abstract!EscrowInitialized(esc) = EscrowInitialized(esc)
  /\ \A esc, h : Abstract!TrustedHandler(esc, h) = TrustedHandler(esc, h)
  /\ \A esc, now, h, states :
       Abstract!StateCheck(esc, now, h, states) = StateCheck(esc, now, h, states)
  /\ \A v : Abstract!FactoryInitializeAccepts(v) = FactoryInitializeAccepts(v)
  /\ \A f, v, x : Abstract!OwnerAllows(f, v, x) = OwnerAllows(f, v, x)
  /\ \A e, esc, v, call : Abstract!InitializeAccepts(e, esc, v, call) = InitializeAccepts(e, esc, v, call)
  /\ \A esc, now, h, call : Abstract!SetupAccepts(esc, now, h, call) = SetupAccepts(esc, now, h, call)
  /\ \A esc, now, h : Abstract!StoreResultsAccepts(esc, now, h) = StoreResultsAccepts(esc, now, h)
  /\ \A esc, now, h : Abstract!StoreAmountsAccepts(esc, now, h) = StoreAmountsAccepts(esc, now, h)
  /\ \A esc, now, h : Abstract!CompleteAccepts(esc, now, h) = CompleteAccepts(esc, now, h)
  <1>1. Abstract!BlankEscrow = BlankEscrow
    BY DEF Abstract!BlankEscrow, BlankEscrow
  <1>2. \A esc : Abstract!EscrowInitialized(esc) = EscrowInitialized(esc)
    BY DEF Abstract!EscrowInitialized, EscrowInitialized
  <1>3. \A esc, h : Abstract!TrustedHandler(esc, h) = TrustedHandler(esc, h)
    BY DEF Abstract!TrustedHandler, TrustedHandler, Abstract!TrustedKeys, TrustedKeys
  <1>4. \A esc, now, h, states :
          Abstract!StateCheck(esc, now, h, states) = StateCheck(esc, now, h, states)
    BY <1>2, <1>3 DEF Abstract!StateCheck, StateCheck
  <1>5. \A v : Abstract!FactoryInitializeAccepts(v) = FactoryInitializeAccepts(v)
    BY DEF Abstract!FactoryInitializeAccepts, FactoryInitializeAccepts,
           Abstract!FactoryInitialized, FactoryInitialized
  <1>6. \A e, esc, v, call : Abstract!InitializeAccepts(e, esc, v, call) = InitializeAccepts(e, esc, v, call)
    BY <1>2 DEF Abstract!InitializeAccepts, InitializeAccepts,
           Abstract!FactoryInitialized, FactoryInitialized
  <1>7. \A esc, now, h, call : Abstract!SetupAccepts(esc, now, h, call) = SetupAccepts(esc, now, h, call)
    BY <1>4 DEF Abstract!SetupAccepts, SetupAccepts
  <1>8. \A esc, now, h : Abstract!StoreResultsAccepts(esc, now, h) = StoreResultsAccepts(esc, now, h)
    BY <1>4 DEF Abstract!StoreResultsAccepts, StoreResultsAccepts
  <1>9. \A esc, now, h : Abstract!StoreAmountsAccepts(esc, now, h) = StoreAmountsAccepts(esc, now, h)
    BY <1>4 DEF Abstract!StoreAmountsAccepts, StoreAmountsAccepts
  <1>10. \A esc, now, h : Abstract!CompleteAccepts(esc, now, h) = CompleteAccepts(esc, now, h)
    BY <1>4 DEF Abstract!CompleteAccepts, CompleteAccepts
  <1>11. \A f, v, x : Abstract!OwnerAllows(f, v, x) = OwnerAllows(f, v, x)
    BY DEF Abstract!OwnerAllows, OwnerAllows
  <1> QED BY <1>1, <1>2, <1>3, <1>4, <1>5, <1>6, <1>7, <1>8, <1>9, <1>10, <1>11

\* ... so are the records it writes, ...
LEMMA AbstractWrites ==
  /\ \A now, call : Abstract!InitializeWrites(now, call) = InitializeWrites(now, call)
  /\ \A esc, call : Abstract!SetupWrites(esc, call) = SetupWrites(esc, call)
  /\ \A esc, x : Abstract!StoreResultsWrites(esc, x) = StoreResultsWrites(esc, x)
  /\ \A esc, call : Abstract!StoreAmountsWrites(esc, call) = StoreAmountsWrites(esc, call)
  /\ \A esc, n : Abstract!PayoutWrites(esc, n) = PayoutWrites(esc, n)
  /\ \A esc : Abstract!CancelWrites(esc) = CancelWrites(esc)
  /\ \A esc : Abstract!CompleteWrites(esc) = CompleteWrites(esc)
  <1>1. \A now, call : Abstract!InitializeWrites(now, call) = InitializeWrites(now, call)
    BY AbstractArithmetic, AbstractChecks DEF Abstract!InitializeWrites, InitializeWrites
  <1>2. \A esc, call : Abstract!SetupWrites(esc, call) = SetupWrites(esc, call)
    BY DEF Abstract!SetupWrites, SetupWrites
  <1>3. \A esc, x : Abstract!StoreResultsWrites(esc, x) = StoreResultsWrites(esc, x)
    BY DEF Abstract!StoreResultsWrites, StoreResultsWrites
  <1>4. \A esc, call : Abstract!StoreAmountsWrites(esc, call) = StoreAmountsWrites(esc, call)
    BY DEF Abstract!StoreAmountsWrites, StoreAmountsWrites
  <1>5. \A esc, n : Abstract!PayoutWrites(esc, n) = PayoutWrites(esc, n)
    BY AbstractArithmetic DEF Abstract!PayoutWrites, PayoutWrites
  <1>6. \A esc : Abstract!CancelWrites(esc) = CancelWrites(esc)
    BY DEF Abstract!CancelWrites, CancelWrites
  <1>7. \A esc : Abstract!CompleteWrites(esc) = CompleteWrites(esc)
    BY DEF Abstract!CompleteWrites, CompleteWrites
  <1> QED BY <1>1, <1>2, <1>3, <1>4, <1>5, <1>6, <1>7

\* ... its transfers and Cancel, ...
LEMMA AbstractTransfers ==
  /\ \A l, f, t, n : Abstract!Transferred(l, f, t, n) = Transferred(l, f, t, n)
  /\ \A l, f, t, k, n : Abstract!CanTransfer(l, f, t, k, n) = CanTransfer(l, f, t, k, n)
  /\ \A e, esc, l, h, call : Abstract!CancelAccepts(e, esc, l, h, call) = CancelAccepts(e, esc, l, h, call)
  /\ \A l, call : Abstract!CancelLedger(l, call) = CancelLedger(l, call)
  <1>1. \A l, f, t, n : Abstract!Transferred(l, f, t, n) = Transferred(l, f, t, n)
    BY DEF Abstract!Transferred, Transferred
  <1>2. \A l, f, t, k, n : Abstract!CanTransfer(l, f, t, k, n) = CanTransfer(l, f, t, k, n)
    BY DEF Abstract!CanTransfer, CanTransfer, Abstract!U64, U64
  <1>3. \A e, esc, l, h, call : Abstract!CancelAccepts(e, esc, l, h, call) = CancelAccepts(e, esc, l, h, call)
    BY <1>2, AbstractChecks DEF Abstract!CancelAccepts, CancelAccepts
  <1>4. \A l, call : Abstract!CancelLedger(l, call) = CancelLedger(l, call)
    BY <1>1 DEF Abstract!CancelLedger, CancelLedger
  <1> QED BY <1>1, <1>2, <1>3, <1>4

\* ... and Payout.
LEMMA AbstractPayouts ==
  /\ \A esc, l, call : Abstract!PayoutLedger(esc, l, call) = PayoutLedger(esc, l, call)
  /\ \A e, esc, l, now, h, call :
       Abstract!PayoutAccepts(e, esc, l, now, h, call) = PayoutAccepts(e, esc, l, now, h, call)
  <1>1. /\ \A esc, n : Abstract!RecipientShare(esc, n) = RecipientShare(esc, n)
        /\ \A esc, n : Abstract!ReputationFee(esc, n) = ReputationFee(esc, n)
        /\ \A esc, n : Abstract!RecordingFee(esc, n) = RecordingFee(esc, n)
    BY AbstractArithmetic DEF Abstract!RecipientShare, RecipientShare, Abstract!RecipientAmount,
         RecipientAmount, Abstract!ReputationFee, ReputationFee, Abstract!RecordingFee, RecordingFee
  <1>2. \A esc, l, call : Abstract!AfterRecipient(esc, l, call) = AfterRecipient(esc, l, call)
    BY <1>1, AbstractTransfers DEF Abstract!AfterRecipient, AfterRecipient
  <1>3. \A esc, l, call : Abstract!AfterReputation(esc, l, call) = AfterReputation(esc, l, call)
    BY <1>1, <1>2, AbstractTransfers DEF Abstract!AfterReputation, AfterReputation
  <1>4. \A esc, l, call : Abstract!PayoutLedger(esc, l, call) = PayoutLedger(esc, l, call)
    BY <1>1, <1>3, AbstractTransfers DEF Abstract!PayoutLedger, PayoutLedger
  <1>5. \A l, f, t, k, n : Abstract!Invokable(l, f, t, k, n) = Invokable(l, f, t, k, n)
    BY AbstractTransfers DEF Abstract!Invokable, Invokable
  <1>6. \A esc, l, call : Abstract!PayoutTransfersSucceed(esc, l, call) = PayoutTransfersSucceed(esc, l, call)
    BY <1>1, <1>2, <1>3, <1>5 DEF Abstract!PayoutTransfersSucceed, PayoutTransfersSucceed
  <1>7. \A esc, n : Abstract!WithinTotals(esc, n) = WithinTotals(esc, n)
    BY AbstractArithmetic DEF Abstract!WithinTotals, WithinTotals
  <1>8. \A e, esc, call : Abstract!PayoutAccountsMatch(e, esc, call) = PayoutAccountsMatch(e, esc, call)
    BY DEF Abstract!PayoutAccountsMatch, PayoutAccountsMatch
  <1>9. \A e, esc, l, now, h, call :
          Abstract!PayoutAccepts(e, esc, l, now, h, call) = PayoutAccepts(e, esc, l, now, h, call)
    BY <1>6, <1>7, <1>8, AbstractChecks DEF Abstract!PayoutAccepts, PayoutAccepts
  <1> QED BY <1>4, <1>9

\* The calls of a kind that the requests and the lone instructions make
NamesOf ==
  [Initialize |-> InitializeNames,
   Setup |-> {SetupNames(r) : r \in SetupRequests} \cup CallsOf("Setup"),
   StoreResults |-> CallsOf("StoreResults"),
   StoreFinalAmounts |-> CallsOf("StoreFinalAmounts"),
   Payout |-> CallsOf("Payout"),
   Cancel |-> CallsOf("Cancel"),
   Complete |-> CallsOf("Complete")]

\* The calls the instance of EscrowProgram may be given
Listed(kind, n) ==
  IF kind = "FactoryInitialize"
  THEN n.version \in {r.version : r \in FactoryRequests \cup CallsOf("FactoryInitialize")}
  ELSE n \in NamesOf[kind]

\* A call that means what it says is a step of EscrowProgram.
LEMMA MeantIsAbstractStep ==
  ASSUME NEW kind, NEW n, FitsBuilder(kind, n), Listed(kind, n),
         Meant(clock, view, view', kind, n), clock' = clock, transfers' = transfers
  PROVE  Abstract!Next
  <1> DEFINE e == n.escrow
             h == ByHandler(n)
  <1>1. kind \in Kinds
    BY DEF FitsBuilder
  <1>2. CASE kind = "FactoryInitialize"
    <2>1. n.factory \in Factories
      BY <1>2, NamesHaveTheirRoles DEF Needs
    <2>2. Abstract!FactoryInitialize(n.factory, n.version)
      BY <1>2, AbstractChecks DEF Meant, Abstract!FactoryInitialize
    <2>3. n.version \in {r.version : r \in FactoryRequests \cup CallsOf("FactoryInitialize")}
      BY <1>2 DEF Listed
    <2> QED BY <2>1, <2>2, <2>3 DEF Abstract!Next
  <1>3. CASE kind = "Initialize"
    <2>1. e \in Escrows
      BY <1>3, NamesHaveTheirRoles DEF Needs
    <2>2. Abstract!Initialize(e, n)
      BY <1>3, AbstractChecks, AbstractWrites DEF Meant, Stores, Abstract!Initialize
    <2>3. n \in {CreateNames(r) : r \in CreateRequests} \cup CallsOf("Initialize")
      BY <1>3 DEF Listed, NamesOf, InitializeNames
    <2> QED BY <2>1, <2>2, <2>3 DEF Abstract!Next
  <1>4. kind \notin {"FactoryInitialize", "Initialize"} =>
          /\ e \in Escrows
          /\ h \in {[key |-> k, is_signer |-> TRUE] : k \in Keys}
    <2> SUFFICES ASSUME kind \notin {"FactoryInitialize", "Initialize"}
                 PROVE  e \in Escrows /\ h \in {[key |-> k, is_signer |-> TRUE] : k \in Keys}
      OBVIOUS
    <2>1. "escrow" \in Needs[kind] /\ "trusted_handler" \in Needs[kind]
      BY <1>1 DEF Needs, Kinds
    <2>2. e \in Escrows /\ n.trusted_handler \in Keys
      BY <2>1, NamesHaveTheirRoles
    <2> QED BY <2>2 DEF ByHandler
  <1>5. CASE kind = "Setup"
    <2> DEFINE m == WithManifest(n)
    <2>1. Abstract!Setup(e, h, m)
      BY <1>5, AbstractChecks, AbstractWrites DEF Meant, Stores, Abstract!Setup
    <2>2. m \in {WithManifest(x) : x \in {SetupNames(r) : r \in SetupRequests} \cup CallsOf("Setup")}
      BY <1>5 DEF Listed, NamesOf
    <2> HIDE DEF m, h
    <2> QED BY <1>4, <1>5, <2>1, <2>2 DEF Abstract!Next
  <1>6. CASE kind = "StoreResults"
    <2> DEFINE x == n.final_results_url
    <2>1. Abstract!StoreResults(e, h, x)
      BY <1>6, AbstractChecks, AbstractWrites DEF Meant, Stores, Abstract!StoreResults
    <2>2. x \in {c.final_results_url : c \in CallsOf("StoreResults")}
      BY <1>6 DEF Listed, NamesOf
    <2> HIDE DEF x, h
    <2> QED BY <1>4, <1>6, <2>1, <2>2 DEF Abstract!Next
  <1>7. CASE kind = "StoreFinalAmounts"
    <2>1. Abstract!StoreFinalAmounts(e, h, n)
      BY <1>7, AbstractChecks, AbstractWrites DEF Meant, Stores, Abstract!StoreFinalAmounts
    <2>2. n \in CallsOf("StoreFinalAmounts")
      BY <1>7 DEF Listed, NamesOf
    <2> HIDE DEF h
    <2> QED BY <1>4, <1>7, <2>1, <2>2 DEF Abstract!Next
  <1>8. CASE kind = "Payout"
    <2>1. Abstract!Payout(e, h, n)
      BY <1>8, AbstractPayouts, AbstractWrites DEF Meant, Stores, Abstract!Payout
    <2>2. n \in CallsOf("Payout")
      BY <1>8 DEF Listed, NamesOf
    <2> HIDE DEF h
    <2> QED BY <1>4, <1>8, <2>1, <2>2 DEF Abstract!Next
  <1>9. CASE kind = "Cancel"
    <2>1. Abstract!Cancel(e, h, n)
      BY <1>9, AbstractTransfers, AbstractWrites DEF Meant, Stores, Abstract!Cancel
    <2>2. n \in CallsOf("Cancel")
      BY <1>9 DEF Listed, NamesOf
    <2> HIDE DEF h
    <2> QED BY <1>4, <1>9, <2>1, <2>2 DEF Abstract!Next
  <1>10. CASE kind = "Complete"
    <2>1. Abstract!Complete(e, h)
      BY <1>10, AbstractChecks, AbstractWrites DEF Meant, Stores, Abstract!Complete
    <2> HIDE DEF h
    <2> QED BY <1>4, <1>10, <2>1 DEF Abstract!Next
  <1> QED BY <1>1, <1>2, <1>3, <1>5, <1>6, <1>7, <1>8, <1>9, <1>10 DEF Kinds

-----------------------------------------------------------------------------
\* The inductive invariant of the refinement
MeantInv == SoundWorld(World) /\ view = ViewOf(World)

\* A sound world that becomes the current one keeps the invariant.
LEMMA BecomeSound ==
  ASSUME NEW w, SoundWorld(w), Become(w)
  PROVE  MeantInv' /\ view' = ViewOf(w)
  <1>1. account' = w.account /\ lamports' = w.lamports /\ view' = ViewOf(w)
    BY DEF Become
  <1>2. /\ World'.account = w.account /\ World'.lamports = w.lamports
        /\ {"account", "lamports"} \subseteq DOMAIN World'
    BY <1>1 DEF World
  <1>3. SoundWorld(World)'
    BY <1>2 DEF SoundWorld, WorldInv, WorldAgrees, IsTokenAccount, RecordAgrees, Solvent
  <1>4. ViewOf(World)' = ViewOf(w)
    BY <1>2 DEF ViewOf, Has, EscrowIn, LedgerIn
  <1> QED BY <1>1, <1>3, <1>4 DEF MeantInv

\* A transaction that makes a call, executed
LEMMA CallingRefines ==
  ASSUME MeantInv, NEW tx, NEW kind, NEW n, Calling(tx, kind, n), FitsBuilder(kind, n),
         Listed(kind, n), Submit(tx)
  PROVE  MeantInv' /\ Abstract!Next
  <1>1. PICK w \in Executed(World, clock, tx) : Become(w)
    BY DEF Submit
  <1>2. kind = "Initialize" => n \in InitializeNames
    BY DEF Listed, NamesOf
  <1>3. SoundWorld(w) /\ Meant(clock, view, ViewOf(w), kind, n)
    BY <1>1, <1>2, CallingMeans DEF MeantInv
  <1>4. MeantInv' /\ view' = ViewOf(w)
    BY <1>1, <1>3, BecomeSound
  <1>5. clock' = clock /\ transfers' = transfers
    BY DEF Submit
  <1>6. Meant(clock, view, view', kind, n)
    BY <1>3, <1>4
  <1> QED BY <1>4, <1>5, <1>6, MeantIsAbstractStep

-----------------------------------------------------------------------------
\* Sequences of two, for the transactions below
LEMMA TwoInARow ==
  ASSUME NEW a, NEW b
  PROVE  <<a>> \o <<b>> = <<a, b>>
  <1> DEFINE s == <<a>> \o <<b>>
  <1>1. s \in Seq({a, b}) /\ Len(s) = 2 /\ s[1] = a /\ s[2] = b
    OBVIOUS
  <1>2. <<a, b>> \in Seq({a, b}) /\ Len(<<a, b>>) = 2 /\ <<a, b>>[1] = a /\ <<a, b>>[2] = b
    OBVIOUS
  <1> HIDE DEF s
  <1>3. \A i \in 1 .. 2 : s[i] = <<a, b>>[i]
    BY <1>1, <1>2
  <1>4. s = <<a, b>>
    BY <1>1, <1>2, <1>3, SeqEqual
  <1> QED BY <1>4 DEF s

\* A request for a new factory makes a call ...
LEMMA FactoryRequestCalls ==
  ASSUME NEW r \in FactoryRequests
  PROVE  \E n : /\ Calling(NewFactory(r), "FactoryInitialize", n)
                /\ FitsBuilder("FactoryInitialize", n)
                /\ Listed("FactoryInitialize", n)
  <1> DEFINE n == [factory |-> r.factory, version |-> r.version]
             blank == NewAccount(r.factory, "Factory")
             last == Escrow("FactoryInitialize", n)
  <1>1. r.factory \in Factories
    BY RequestsAssumption
  <1>2. Preparatory(blank)
    BY <1>1, BlocksArePreparatory, Subsets
  <1>3. NewFactory(r) = Transaction(<<blank, last>>, {r.payer, r.factory}, Rent.Factory)
    BY DEF NewFactory
  <1>4. FitsBuilder("FactoryInitialize", n)
    <2>1. NeededBy("FactoryInitialize") \subseteq {"factory", "version"}
      BY DEF NeededBy, BuiltAccounts, PackArguments, Range, W
    <2>2. "version" \notin DOMAIN RolesOf /\ RolesOf["factory"] = Factories
      BY DEF RolesOf
    <2> QED BY <1>1, <2>1, <2>2 DEF FitsBuilder, Kinds
  <1>5. Listed("FactoryInitialize", n)
    BY DEF Listed
  <1> HIDE DEF n, blank
  <1>6. Calling(NewFactory(r), "FactoryInitialize", n)
    <2>1. <<blank>> \in Seq({blank})
      OBVIOUS
    <2>2. Calling(Transaction(<<blank>> \o <<Escrow("FactoryInitialize", n)>>,
                              {r.payer, r.factory}, Rent.Factory),
                  "FactoryInitialize", n)
      BY <1>2, <2>1, CallsAfterPreparing
    <2>3. <<blank>> \o <<last>> = <<blank, last>>
      BY TwoInARow
    <2> QED BY <1>3, <2>2, <2>3
  <1> QED BY <1>4, <1>5, <1>6

\* ... as does command_create, after the accounts it creates.
LEMMA CreateRequestCalls ==
  ASSUME NEW r \in CreateRequests
  PROVE  /\ Calling(CommandCreate(r), "Initialize", CreateNames(r))
         /\ FitsBuilder("Initialize", CreateNames(r))
         /\ Listed("Initialize", CreateNames(r))
  <1> DEFINE creates == r.canceler_token = NoAccount
             vault == NewTokenAccount(r.token_account, r.token_mint, Authority[r.escrow])
             refund == NewTokenAccount(r.canceler_token_account, r.token_mint, r.canceler)
             blank == NewAccount(r.escrow, "Escrow")
             parts == {vault[1], vault[2], blank} \cup IF creates THEN {refund[1], refund[2]} ELSE {}
             head == <<vault[1], blank, vault[2]>>
             middle == IF creates THEN refund ELSE <<>>
             signers == {r.payer, r.token_account, r.escrow}
                          \cup (IF creates THEN {r.canceler_token_account} ELSE {})
  <1>1. /\ FitsBuilder("Initialize", CreateNames(r))
        /\ Foretold(r.token_account, r.token_mint, Authority[r.escrow])
        /\ creates => Foretold(r.canceler_token_account, r.token_mint, r.canceler)
    BY RequestsAssumption
  <1>2. r.escrow \in Escrows
    <2>1. CreateNames(r).escrow \in Escrows
      BY <1>1, NamesHaveTheirRoles DEF Needs
    <2> QED BY <2>1 DEF CreateNames
  <1>3. Preparatory(vault[1]) /\ Preparatory(vault[2]) /\ Preparatory(blank)
    BY <1>1, <1>2, BlocksArePreparatory, Subsets DEF Foretold
  <1>4. creates => Preparatory(refund[1]) /\ Preparatory(refund[2])
    BY <1>1, BlocksArePreparatory, Subsets DEF Foretold
  <1>5. refund = <<refund[1], refund[2]>>
    BY BlocksAreWellBuilt
  <1>6. CommandCreate(r) =
          Transaction(head \o middle \o <<Escrow("Initialize", CreateNames(r))>>,
                      signers, CreateBudget(r))
    BY DEF CommandCreate
  <1> HIDE DEF vault, refund, blank, creates, signers
  <1>7. \A i \in parts : Preparatory(i)
    BY <1>3, <1>4
  <1>8. head \o middle \in Seq(parts)
    <2>1. head \in Seq(parts) /\ <<>> \in Seq(parts)
      OBVIOUS
    <2>2. creates => refund \in Seq(parts)
      <3>1. creates => <<refund[1], refund[2]>> \in Seq(parts)
        OBVIOUS
      <3> HIDE DEF parts
      <3> QED BY <1>5, <3>1
    <2>3. middle \in Seq(parts)
      <3> HIDE DEF parts
      <3> QED BY <2>1, <2>2
    <2> HIDE DEF parts, head, middle
    <2> QED BY <2>1, <2>3
  <1> HIDE DEF parts, head, middle
  <1>9. Calling(CommandCreate(r), "Initialize", CreateNames(r))
    BY <1>6, <1>7, <1>8, CallsAfterPreparing
  <1>10. Listed("Initialize", CreateNames(r))
    BY DEF Listed, NamesOf, InitializeNames
  <1> QED BY <1>1, <1>9, <1>10

\* The mint command_setup has read is the one its fee accounts are foretold with.
LEMMA SetupRequestCalls ==
  ASSUME MeantInv, NEW r \in SetupRequests, NEW mint \in SeenMints(r.escrow)
  PROVE  /\ Calling(CommandSetup(r, mint), "Setup", SetupNames(r))
         /\ FitsBuilder("Setup", SetupNames(r))
         /\ Listed("Setup", SetupNames(r))
  <1> DEFINE fresh == {x \in {<<r.reputation_oracle_token, r.reputation_oracle_token_account>>,
                              <<r.recording_oracle_token, r.recording_oracle_token_account>>} :
                         x[1] = NoAccount}
             one == r.reputation_oracle_token = NoAccount
             two == r.recording_oracle_token = NoAccount
             rep == NewTokenAccount(r.reputation_oracle_token_account, mint, r.reputation_oracle)
             rec == NewTokenAccount(r.recording_oracle_token_account, mint, r.recording_oracle)
             parts == (IF one THEN {rep[1], rep[2]} ELSE {}) \cup (IF two THEN {rec[1], rec[2]} ELSE {})
             first == FeeAccount(r.reputation_oracle_token, r.reputation_oracle_token_account,
                                 mint, r.reputation_oracle)
             second == FeeAccount(r.recording_oracle_token, r.recording_oracle_token_account,
                                  mint, r.recording_oracle)
             signers == {r.payer, r.owner} \cup {x[2] : x \in fresh}
             budget == Cardinality(fresh) * Rent.TokenAccount
  <1>1. FitsBuilder("Setup", SetupNames(r))
    BY RequestsAssumption
  <1>2. r.escrow \in Escrows
    <2>1. SetupNames(r).escrow \in Escrows
      BY <1>1, NamesHaveTheirRoles DEF Needs
    <2> QED BY <2>1 DEF SetupNames
  <1>3. \/ mint = NoMint
        \/ \E n \in InitializeNames : n.escrow = r.escrow /\ mint = n.token_mint
    <2>1. RecordAgrees(World, r.escrow, view.escrow[r.escrow])
      <3>1. view.escrow[r.escrow] = RecordOf(World.account[r.escrow])
        <4>1. view.escrow = [x \in Escrows |-> RecordOf(World.account[x])]
          BY ViewIsOfContents DEF MeantInv
        <4> QED BY <1>2, <4>1
      <3> QED BY <1>2, <3>1 DEF MeantInv, SoundWorld, WorldAgrees
    <2>2. BlankEscrow.token_mint = NoMint
      BY DEF BlankEscrow
    <2> QED BY <2>1, <2>2 DEF RecordAgrees, SeenMints
  <1>4. /\ one => Foretold(r.reputation_oracle_token_account, mint, r.reputation_oracle)
                  \/ mint = NoMint
        /\ two => Foretold(r.recording_oracle_token_account, mint, r.recording_oracle)
                  \/ mint = NoMint
    BY <1>3, RequestsAssumption
  <1>5. /\ one => r.reputation_oracle_token_account \in Addresses
        /\ two => r.recording_oracle_token_account \in Addresses
    <2>1. /\ SetupNames(r).reputation_oracle_token_account \in TokenAccounts
          /\ SetupNames(r).recording_oracle_token_account \in TokenAccounts
      BY <1>1, NamesHaveTheirRoles DEF Needs
    <2> QED BY <2>1, Subsets DEF SetupNames
  <1>6. one => Preparatory(rep[1]) /\ Preparatory(rep[2])
    BY <1>4, <1>5, BlocksArePreparatory DEF Foretold
  <1>7. two => Preparatory(rec[1]) /\ Preparatory(rec[2])
    BY <1>4, <1>5, BlocksArePreparatory DEF Foretold
  <1>8. rep = <<rep[1], rep[2]>> /\ rec = <<rec[1], rec[2]>>
    BY BlocksAreWellBuilt
  <1>9. CommandSetup(r, mint) =
          Transaction(first \o second \o <<Escrow("Setup", SetupNames(r))>>, signers, budget)
    BY DEF CommandSetup
  <1>10. first = (IF one THEN rep ELSE <<>>) /\ second = (IF two THEN rec ELSE <<>>)
    BY DEF FeeAccount
  <1> HIDE DEF rep, rec, one, two, first, second, signers, budget
  <1>11. \A i \in parts : Preparatory(i)
    BY <1>6, <1>7
  <1>12. first \o second \in Seq(parts)
    <2>1. /\ one => <<rep[1], rep[2]>> \in Seq(parts)
          /\ two => <<rec[1], rec[2]>> \in Seq(parts)
          /\ <<>> \in Seq(parts)
      OBVIOUS
    <2> HIDE DEF parts
    <2>2. first \in Seq(parts) /\ second \in Seq(parts)
      BY <1>8, <1>10, <2>1
    <2> QED BY <2>2
  <1> HIDE DEF parts
  <1>13. Calling(CommandSetup(r, mint), "Setup", SetupNames(r))
    BY <1>9, <1>11, <1>12, CallsAfterPreparing
  <1>14. Listed("Setup", SetupNames(r))
    BY DEF Listed, NamesOf
  <1> QED BY <1>1, <1>13, <1>14

\* An instruction on its own is such a call too.
LEMMA LoneCallCalls ==
  ASSUME NEW c \in Calls
  PROVE  /\ Calling(Single(c), c.kind, c.names)
         /\ FitsBuilder(c.kind, c.names)
         /\ Listed(c.kind, c.names)
  <1>1. FitsBuilder(c.kind, c.names) /\ c.kind \in Kinds
    BY RequestsAssumption DEF FitsBuilder
  <1>2. Calling(Single(c), c.kind, c.names)
    <2> DEFINE last == Escrow(c.kind, c.names)
               signers == IF "trusted_handler" \in DOMAIN c.names THEN {c.names.trusted_handler}
                          ELSE {}
    <2>1. Single(c) = Transaction(<<last>>, signers, 0)
      BY DEF Single
    <2> HIDE DEF signers
    <2>2. <<>> \in Seq({}) /\ <<>> \o <<last>> = <<last>>
      <3> HIDE DEF last
      <3> QED OBVIOUS
    <2>3. \A i \in {} : Preparatory(i)
      OBVIOUS
    <2>4. Calling(Transaction(<<>> \o <<last>>, signers, 0), c.kind, c.names)
      BY <2>2, <2>3, CallsAfterPreparing
    <2> QED BY <2>1, <2>2, <2>4
  <1>3. c.names \in CallsOf(c.kind)
    BY DEF CallsOf
  <1>4. Listed(c.kind, c.names)
    <2>1. CASE c.kind = "FactoryInitialize"
      BY <1>3, <2>1 DEF Listed
    <2>2. CASE c.kind # "FactoryInitialize"
      BY <1>1, <1>3, <2>2 DEF Listed, NamesOf, InitializeNames, Kinds
    <2> QED BY <2>1, <2>2
  <1> QED BY <1>1, <1>2, <1>4

-----------------------------------------------------------------------------
\* A wallet's transfer is the transfer of EscrowProgram.
LEMMA FundRefines ==
  ASSUME MeantInv, NEW t \in Funding, Fund(t)
  PROVE  MeantInv' /\ Abstract!Next
  <1> DEFINE ledger == LedgerIn(World)
             after == Transferred(ledger, t.from, t.to, t.amount)
             k == OwnerOf[t.from]
             seen == view.balance
  <1>1. /\ t.from \in TokenAccounts /\ t.to \in TokenAccounts
        /\ \A e \in Escrows : OwnerOf[t.from] # Authority[e]
    BY RequestsAssumption
  <1>2. /\ transfers < MaxFunding
        /\ Program(MintIn(World), OwnerIn(World))!CanTransfer(ledger, t.from, t.to, k, t.amount)
        /\ Become(Paid(World, after))
        /\ transfers' = transfers + 1
        /\ clock' = clock
    BY DEF Fund
  <1>3. k \in Keys
    BY <1>1, LedgerAssumption
  <1>4. Mirrors(World, ledger, seen)
    BY LedgerMirrors DEF MeantInv
  <1>5. Program(MintIn(World), OwnerIn(World))!Invokable(ledger, t.from, t.to, k, t.amount)
    BY <1>2 DEF Program!Invokable
  <1> HIDE DEF ledger, seen
  <1>6. Mirrors(World, after, Transferred(seen, t.from, t.to, t.amount))
    BY <1>1, <1>3, <1>4, <1>5, TransfersMirror DEF MeantInv
  <1>7. CanTransfer(seen, t.from, t.to, k, t.amount)
    <2>1. /\ {t.from, t.to} \subseteq SplAccounts
          /\ OwnerIn(World)[t.from] = k
          /\ MintIn(World)[t.from] = MintIn(World)[t.to]
          /\ ledger[t.from] >= t.amount
          /\ t.from = t.to \/ ledger[t.to] + t.amount < U64
      BY <1>2 DEF Program!CanTransfer, Program!U64, U64
    <2>2. /\ OwnerIn(World)[t.from] = OwnerOf[t.from] /\ MintIn(World)[t.from] = MintOf[t.from]
      BY <1>1, <1>3, <2>1, KnownAccounts, Subsets DEF MeantInv
    <2>3. MintIn(World)[t.to] = MintOf[t.to]
      BY <1>1, <2>1, <2>2, KnownAccounts, Subsets, LedgerAssumption DEF MeantInv
    <2>4. ledger[t.from] = seen[t.from] /\ ledger[t.to] = seen[t.to]
      BY <1>1, <1>4 DEF Mirrors
    <2> QED BY <2>1, <2>2, <2>3, <2>4 DEF CanTransfer
  <1> HIDE DEF after
  <1>8. \A a \in TokenAccounts : ~IsTokenAccount(World, a) => after[a] = 0
    BY <1>6 DEF Mirrors
  <1>9. /\ SoundWorld(Paid(World, after))
        /\ ViewOf(Paid(World, after)).version = view.version
        /\ ViewOf(Paid(World, after)).escrow = view.escrow
        /\ ViewOf(Paid(World, after)).balance = [a \in TokenAccounts |-> after[a]]
    BY <1>8, PaidSeen DEF MeantInv
  <1>10. [a \in TokenAccounts |-> after[a]] = Transferred(seen, t.from, t.to, t.amount)
    <2> DEFINE afterSeen == Transferred(seen, t.from, t.to, t.amount)
    <2> HIDE DEF afterSeen
    <2>1. Mirrors(World, after, afterSeen)
      BY <1>6 DEF afterSeen
    <2>2. [a \in TokenAccounts |-> after[a]] = [a \in TokenAccounts |-> afterSeen[a]]
      BY <2>1 DEF Mirrors
    <2>3. [a \in TokenAccounts |-> after[a]] = afterSeen
      BY <2>1, <2>2 DEF Mirrors
    <2> QED BY <2>3 DEF afterSeen
  <1>11. MeantInv' /\ view' = ViewOf(Paid(World, after))
    BY <1>2, <1>9, BecomeSound
  <1>12. Abstract!WalletTransfer(t)
    BY <1>1, <1>2, <1>7, <1>9, <1>10, <1>11, AbstractTransfers DEF Abstract!WalletTransfer, seen
  <1> QED BY <1>11, <1>12 DEF Abstract!Next

\* An account created and left alone is a stuttering step.
LEMMA BareRefines ==
  ASSUME MeantInv, NEW e \in Escrows, CreateBare(e)
  PROVE  MeantInv' /\ UNCHANGED <<clock, view, transfers>>
  <1> DEFINE i == NewAccount(e, "Escrow")
             tx == Transaction(<<i>>, {e}, Rent.Escrow)
  <1>1. PICK w \in Executed(World, clock, tx) : Become(w)
    BY DEF CreateBare, Submit
  <1>2. Preparatory(i)
    BY BlocksArePreparatory, Subsets
  <1> HIDE DEF i
  <1>3. DOMAIN tx.instructions = 1 .. 1 /\ PreparesFirst(tx, 1)
    <2>1. tx.instructions = <<i>>
      BY DEF Transaction
    <2> HIDE DEF tx
    <2>2. DOMAIN <<i>> = 1 .. 1 /\ \A k \in 1 .. 1 : <<i>>[k] = i
      OBVIOUS
    <2> QED BY <1>2, <2>1, <2>2 DEF PreparesFirst
  <1>4. PICK run : IsExecution(run, World, clock, tx, 1)
    <2> HIDE DEF tx
    <2> QED BY <1>3, ExecutionRuns
  <1>5. SoundWorld(w) /\ ViewOf(w) = ViewOf(World)
    <2> HIDE DEF tx
    <2>1. \A x \in run[1] : SoundWorld(x) /\ ViewOf(x) = ViewOf(World)
      BY <1>3, <1>4, PreparationUnseen DEF MeantInv
    <2> QED BY <1>1, <1>4, <2>1 DEF IsExecution
  <1>6. MeantInv' /\ view' = view
    BY <1>1, <1>5, BecomeSound DEF MeantInv
  <1> QED BY <1>6 DEF CreateBare, Submit

\* Before the first transaction
LEMMA InitRefines ==
  ASSUME Init
  PROVE  MeantInv /\ Abstract!Init
  <1>1. /\ World.account = InitialAccount /\ view = ViewOf(World) /\ clock = 0 /\ transfers = 0
        /\ "account" \in DOMAIN World
    BY DEF Init, World
  <1>2. \A a \in Addresses :
          /\ InitialAccount[a] = IF a \in DOMAIN Minted
                                 THEN [kind |-> "TokenAccount", mint |-> MintOf[a],
                                       owner |-> OwnerOf[a], amount |-> Minted[a]]
                                 ELSE IF a \in NativeMints
                                 THEN [kind |-> "Mint", initialized |-> TRUE]
                                 ELSE IF a \in Factories \ OwnFactories
                                 THEN [kind |-> "Factory", version |-> ForeignVersion[a]]
                                 ELSE None
    BY DEF InitialAccount
  <1>3. ASSUME NEW a \in Addresses
        PROVE  /\ "kind" \in DOMAIN InitialAccount[a]
               /\ InitialAccount[a].kind # "Escrow"
               /\ InitialAccount[a].kind = "Factory" =>
                    "version" \in DOMAIN InitialAccount[a] /\ a \notin OwnFactories
               /\ InitialAccount[a].kind = "TokenAccount" => TokenAgrees(a, InitialAccount[a])
               /\ MintAgrees(a, InitialAccount[a])
               /\ AmountOf(InitialAccount[a]) = IF a \in DOMAIN Minted THEN Minted[a] ELSE 0
    <2>1. CASE a \in DOMAIN Minted
      <3>1. InitialAccount[a] = [kind |-> "TokenAccount", mint |-> MintOf[a],
                                 owner |-> OwnerOf[a], amount |-> Minted[a]]
        BY <1>2, <2>1
      <3>2. /\ DOMAIN InitialAccount[a] = {"kind", "mint", "owner", "amount"}
            /\ InitialAccount[a].kind = "TokenAccount"
            /\ InitialAccount[a].mint = MintOf[a]
            /\ InitialAccount[a].owner = OwnerOf[a]
            /\ InitialAccount[a].amount = Minted[a]
        BY <3>1
      <3>3. TokenAgrees(a, InitialAccount[a])
        <4>1. IsRecord(InitialAccount[a])
          BY <3>1 DEF IsRecord
        <4> QED BY <2>1, <3>2, <4>1, StartAssumption DEF TokenAgrees
      <3>4. AmountOf(InitialAccount[a]) = Minted[a]
        BY <3>2 DEF AmountOf
      <3>5. MintAgrees(a, InitialAccount[a])
        BY <2>1, <3>2, StartAssumption DEF MintAgrees
      <3> QED BY <2>1, <3>2, <3>3, <3>4, <3>5
    <2>2. CASE a \notin DOMAIN Minted /\ a \in NativeMints
      <3>1. InitialAccount[a] = [kind |-> "Mint", initialized |-> TRUE]
        BY <1>2, <2>2
      <3> QED BY <2>2, <3>1 DEF AmountOf, MintAgrees
    <2>3. CASE /\ a \notin DOMAIN Minted /\ a \notin NativeMints
               /\ a \in Factories \ OwnFactories
      <3>1. InitialAccount[a] = [kind |-> "Factory", version |-> ForeignVersion[a]]
        BY <1>2, <2>3
      <3>2. /\ DOMAIN InitialAccount[a] = {"kind", "version"}
            /\ InitialAccount[a].kind = "Factory"
        BY <3>1
      <3> QED BY <2>3, <3>2 DEF AmountOf, MintAgrees
    <2>4. CASE /\ a \notin DOMAIN Minted /\ a \notin NativeMints
               /\ a \notin Factories \ OwnFactories
      <3>1. InitialAccount[a] = [kind |-> "none"]
        BY <1>2, <2>4 DEF None
      <3> QED BY <2>4, <3>1 DEF AmountOf, MintAgrees
    <2> QED BY <2>1, <2>2, <2>3, <2>4
  <1>4. DOMAIN InitialAccount = Addresses
    BY DEF InitialAccount
  <1>5. \A e \in Escrows : RecordOf(World.account[e]) = BlankEscrow
    BY <1>1, <1>3, Subsets, SeenByKind
  <1>6. SoundWorld(World)
    <2>1. WorldInv(World)
      BY <1>1, <1>3, <1>4, Subsets DEF WorldInv
    <2>2. \A e \in Escrows : RecordAgrees(World, e, RecordOf(World.account[e]))
      BY <1>5 DEF RecordAgrees
    <2>3. Solvent(World)
      BY StartAssumption DEF Init, World, Solvent
    <2> QED BY <1>1, <1>3, <2>1, <2>2, <2>3 DEF SoundWorld, WorldAgrees, IsTokenAccount
  <1>7. ASSUME NEW f \in Factories
        PROVE  VersionOf(World.account[f]) = IF f \in OwnFactories THEN 0 ELSE ForeignVersion[f]
    <2>1. f \in Addresses
      BY Subsets
    <2>2. CASE f \in OwnFactories
      <3>1. InitialAccount[f].kind # "Factory"
        BY <1>3, <2>1, <2>2
      <3> QED BY <1>1, <2>2, <3>1, SeenByKind
    <2>3. CASE f \notin OwnFactories
      <3>1. InitialAccount[f] = [kind |-> "Factory", version |-> ForeignVersion[f]]
        BY <1>2, <2>1, <2>3, StartAssumption
      <3> QED BY <1>1, <2>3, <3>1 DEF VersionOf
    <2> QED BY <2>2, <2>3
  <1>8. /\ view.version = [f \in Factories |-> IF f \in OwnFactories THEN 0 ELSE ForeignVersion[f]]
        /\ view.escrow = [e \in Escrows |-> BlankEscrow]
        /\ view.balance = [a \in TokenAccounts |-> IF a \in DOMAIN Minted THEN Minted[a] ELSE 0]
    <2>1. /\ view.version = [f \in Factories |-> VersionOf(World.account[f])]
          /\ view.escrow = [e \in Escrows |-> RecordOf(World.account[e])]
          /\ view.balance = [a \in TokenAccounts |-> AmountOf(World.account[a])]
      BY <1>1, ViewIsOfContents
    <2> QED BY <1>1, <1>3, <1>5, <1>7, <2>1, Subsets
  <1> QED BY <1>1, <1>6, <1>8, AbstractChecks DEF MeantInv, Abstract!Init

\* Every step is a step of EscrowProgram, or one it does not see.
LEMMA StepsRefine ==
  MeantInv /\ [Next]_vars => MeantInv' /\ [Abstract!Next]_(Abstract!vars)
  <1> SUFFICES ASSUME MeantInv, [Next]_vars
               PROVE  MeantInv' /\ [Abstract!Next]_(Abstract!vars)
    OBVIOUS
  <1>1. ASSUME UNCHANGED <<account, lamports, view>>
        PROVE  MeantInv'
    <2>1. PICK w : w = World
      OBVIOUS
    <2>2. SoundWorld(w) /\ view = ViewOf(w)
      BY <2>1 DEF MeantInv
    <2>3. account = w.account /\ lamports = w.lamports
      BY <2>1 DEF World
    <2>4. Become(w)
      BY <1>1, <2>2, <2>3 DEF Become
    <2> QED BY <2>2, <2>4, BecomeSound
  <1>2. CASE Tick
    <2>1. MeantInv' /\ Abstract!Tick
      BY <1>1, <1>2 DEF Tick, Abstract!Tick
    <2> QED BY <2>1 DEF Abstract!Next
  <1>3. ASSUME NEW t \in Funding, Fund(t)
        PROVE  MeantInv' /\ Abstract!Next
    BY <1>3, FundRefines
  <1>4. ASSUME NEW r \in FactoryRequests, SubmitNewFactory(r)
        PROVE  MeantInv' /\ Abstract!Next
    BY <1>4, FactoryRequestCalls, CallingRefines DEF SubmitNewFactory
  <1>5. ASSUME NEW r \in CreateRequests, SubmitCreate(r)
        PROVE  MeantInv' /\ Abstract!Next
    BY <1>5, CreateRequestCalls, CallingRefines DEF SubmitCreate
  <1>6. ASSUME NEW r \in SetupRequests, SubmitSetup(r)
        PROVE  MeantInv' /\ Abstract!Next
    <2>1. PICK mint \in SeenMints(r.escrow) : Submit(CommandSetup(r, mint))
      BY <1>6 DEF SubmitSetup
    <2> QED BY <2>1, SetupRequestCalls, CallingRefines
  <1>7. ASSUME NEW e \in Escrows, CreateBare(e)
        PROVE  MeantInv' /\ UNCHANGED Abstract!vars
    BY <1>7, BareRefines DEF Abstract!vars
  <1>8. ASSUME NEW c \in Calls, SubmitCall(c)
        PROVE  MeantInv' /\ Abstract!Next
    BY <1>8, LoneCallCalls, CallingRefines DEF SubmitCall
  <1>9. CASE UNCHANGED vars
    <2>1. MeantInv'
      BY <1>1, <1>9 DEF vars
    <2>2. UNCHANGED Abstract!vars
      BY <1>9 DEF vars, Abstract!vars
    <2> QED BY <2>1, <2>2
  <1> QED BY <1>2, <1>3, <1>4, <1>5, <1>6, <1>7, <1>8, <1>9 DEF Next

(* The inductive invariant of the refinement holds: every account can be read,     *)
(* token accounts are those their names foretell, and an escrow's accounts are      *)
(* those of a request to initialise it (process_initialize).                       *)
THEOREM ViewsStaySound == Spec => []MeantInv
  <1>1. Init => MeantInv
    BY InitRefines
  <1>2. MeantInv /\ [Next]_vars => MeantInv'
    BY StepsRefine
  <1> QED BY <1>1, <1>2, PTL DEF Spec

(* ImplementsProgram, for every choice of accounts and of requests: through pack    *)
(* and unpack, account lists, created accounts and transactions of several          *)
(* instructions the clients' requests are steps of EscrowProgram, and no other      *)
(* step is taken (processor.rs, Processor::process; main.rs, the commands).         *)
THEOREM ChainImplementsProgram == Spec => ImplementsProgram
  <1>1. Init => MeantInv /\ Abstract!Init
    BY InitRefines
  <1>2. MeantInv /\ [Next]_vars => MeantInv' /\ [Abstract!Next]_(Abstract!vars)
    BY StepsRefine
  <1> QED BY <1>1, <1>2, PTL DEF Spec, ImplementsProgram, Abstract!Spec

\* The balance reported of an initialised escrow is that of its vault.
LEMMA ReportedBalance ==
  ASSUME MeantInv, NEW e \in Escrows, Initialized(e)
  PROVE  /\ GetBalance(e) = {view.balance[view.escrow[e].token_account]}
         /\ \E n \in InitializeNames :
              /\ view.escrow[e].token_account = n.token_account
              /\ view.escrow[e].canceler_token_account = n.canceler_token_account
  <1> DEFINE esc == view.escrow[e]
             vault == esc.token_account
  <1>1. /\ esc = RecordOf(World.account[e])
        /\ view.balance = [a \in TokenAccounts |-> AmountOf(World.account[a])]
    BY ViewIsOfContents DEF MeantInv
  <1>2. esc # BlankEscrow
    BY DEF Initialized, EscrowInitialized, BlankEscrow
  <1>3. PICK n \in InitializeNames :
          /\ vault = n.token_account
          /\ esc.canceler_token_account = n.canceler_token_account
          /\ IsTokenAccount(World, n.token_account)
    <2>1. RecordAgrees(World, e, esc)
      BY <1>1 DEF MeantInv, SoundWorld, WorldAgrees
    <2> HIDE DEF esc
    <2> QED BY <1>2, <2>1 DEF RecordAgrees
  <1>4. vault \in TokenAccounts
    BY <1>3, InitializeNamesFit
  <1>5. EscrowIn(World, e) # {}
    <2>1. SUFFICES ASSUME EscrowIn(World, e) = {} PROVE FALSE
      OBVIOUS
    <2>2. view.escrow = [x \in Escrows |-> IF EscrowIn(World, x) = {} THEN BlankEscrow
                           ELSE (CHOOSE got \in EscrowIn(World, x) : TRUE).escrow]
      BY DEF MeantInv, ViewOf
    <2>3. esc = BlankEscrow
      BY <2>1, <2>2
    <2> QED BY <1>2, <2>3
  <1>6. \A got \in EscrowIn(World, e) : got.escrow = esc
    BY SeenIsRead DEF MeantInv
  <1> HIDE DEF esc
  <1>7. GetField(e, "token_account") = {vault}
    BY <1>5, <1>6 DEF GetField
  <1>8. TokensIn(vault) = {view.balance[vault]}
    <2>1. account = World.account
      BY DEF World
    <2>2. Has(World, vault, "TokenAccount")
      BY <1>3, <1>4, Subsets DEF Has, IsTokenAccount
    <2>3. view.balance[vault] = account[vault].amount
      BY <1>1, <1>4, <2>1, <2>2 DEF AmountOf, Has
    <2> QED BY <2>2, <2>3 DEF TokensIn
  <1> HIDE DEF vault
  <1>9. GetBalance(e) = {view.balance[vault]}
    BY <1>7, <1>8 DEF GetBalance
  <1> QED BY <1>3, <1>9 DEF esc, vault

\* What holds in every reachable state, refund account and vault being two accounts
LEMMA RefundIsReported ==
  ASSUME \A n \in InitializeNames : n.token_account # n.canceler_token_account, MeantInv
  PROVE  BalanceIsRefundable
  <1> SUFFICES ASSUME NEW e \in Escrows, Initialized(e)
               PROVE  /\ GetBalance(e) # {}
                      /\ \A c \in {x \in Calls : x.kind = "Cancel" /\ x.names.escrow = e},
                            n \in GetBalance(e) :
                           \A w \in Executed(World, clock, Single(c)) :
                             LET refund == view.escrow[e].canceler_token_account
                             IN  ViewOf(w).balance[refund] = view.balance[refund] + n
    BY DEF BalanceIsRefundable
  <1> DEFINE vault == view.escrow[e].token_account
             refund == view.escrow[e].canceler_token_account
  <1>1. /\ GetBalance(e) = {view.balance[vault]}
        /\ vault # refund /\ refund \in TokenAccounts /\ vault \in TokenAccounts
    BY ReportedBalance, InitializeNamesFit
  <1>2. ASSUME NEW c \in Calls, c.kind = "Cancel", c.names.escrow = e,
               NEW w \in Executed(World, clock, Single(c))
        PROVE  ViewOf(w).balance[refund] = view.balance[refund] + view.balance[vault]
    <2>1. /\ Calling(Single(c), "Cancel", c.names)
          /\ FitsBuilder("Cancel", c.names)
      BY <1>2, LoneCallCalls
    <2>2. Meant(clock, view, ViewOf(w), "Cancel", c.names)
      <3>1. Meant(clock, ViewOf(World), ViewOf(w), "Cancel", c.names)
        BY <2>1, CallingMeans DEF MeantInv
      <3> QED BY <3>1 DEF MeantInv
    <2>3. /\ CancelAccepts(e, view.escrow[e], view.balance, ByHandler(c.names), c.names)
          /\ ViewOf(w).balance = CancelLedger(view.balance, c.names)
      BY <1>2, <2>2 DEF Meant
    <2>4. c.names.token_account = vault /\ c.names.canceler_token_account = refund
      BY <2>3 DEF CancelAccepts
    <2>5. DOMAIN view.balance = TokenAccounts
      BY ViewIsOfContents DEF MeantInv
    <2> HIDE DEF vault, refund
    <2> QED BY <1>1, <2>3, <2>4, <2>5 DEF CancelLedger, Transferred
  <1> HIDE DEF vault
  <1>3. GetBalance(e) # {} /\ \A n \in GetBalance(e) : n = view.balance[vault]
    BY <1>1
  <1> QED BY <1>2, <1>3

(* BalanceIsRefundable: what get_job_balance reports of a job is what Cancel sends   *)
(* back, provided no request names the vault as its own refund account, which        *)
(* process_initialize does not refuse: Cancel would then move nothing.               *)
THEOREM BalanceStaysRefundable ==
  ASSUME \A n \in InitializeNames : n.token_account # n.canceler_token_account
  PROVE  Spec => []BalanceIsRefundable
  <1>1. MeantInv => BalanceIsRefundable
    BY RefundIsReported
  <1> QED BY <1>1, ViewsStaySound, PTL

-----------------------------------------------------------------------------
(* That a call is executed at all.  First the accounts its builder lists.        *)

\* What the handler of a call changes, by role
Changes ==
  [FactoryInitialize |-> {"factory"}, Initialize |-> {"escrow"}, Setup |-> {"escrow"},
   StoreResults |-> {"escrow"}, StoreFinalAmounts |-> {"escrow"},
   Payout |-> {"escrow", "token_account", "recipient_token_account",
               "reputation_oracle_token_account", "recording_oracle_token_account"},
   Cancel |-> {"escrow", "token_account", "canceler_token_account"},
   Complete |-> {"escrow"}]

\* The builder marks that as writable, and nobody but the handler signs.
FlagsFit(kind) ==
  LET built == BuiltAccounts[kind]
  IN  /\ \A a \in DOMAIN built : built[a].is_signer => built[a].role = "trusted_handler"
      /\ \A a \in DOMAIN built : built[a].role \in Changes[kind] => built[a].is_writable
      /\ \A role \in Changes[kind] : \E a \in DOMAIN built : built[a].role = role

\* So it is for each of the instructions (instruction.rs).
LEMMA FlagsAreSet ==
  ASSUME NEW kind \in Kinds
  PROVE  FlagsFit(kind)
  <1>1. FlagsFit("FactoryInitialize")
    BY DEF FlagsFit, BuiltAccounts, Changes, W, R, S
  <1>2. FlagsFit("Initialize")
    BY DEF FlagsFit, BuiltAccounts, Changes, W, R, S
  <1>3. FlagsFit("Setup")
    BY DEF FlagsFit, BuiltAccounts, Changes, W, R, S
  <1>4. FlagsFit("StoreResults")
    BY DEF FlagsFit, BuiltAccounts, Changes, W, R, S
  <1>5. FlagsFit("StoreFinalAmounts")
    BY DEF FlagsFit, BuiltAccounts, Changes, W, R, S
  <1>6. FlagsFit("Payout")
    BY DEF FlagsFit, BuiltAccounts, Changes, W, R, S
  <1>7. FlagsFit("Cancel")
    BY DEF FlagsFit, BuiltAccounts, Changes, W, R, S
  <1>8. FlagsFit("Complete")
    BY DEF FlagsFit, BuiltAccounts, Changes, W, R, S
  <1>9. FlagsFit(kind)
    BY <1>1, <1>2, <1>3, <1>4, <1>5, <1>6, <1>7, <1>8 DEF Kinds
  <1> QED BY <1>9

\* The list of a builder has every account of the call, writable if it changes, and
\* asks nobody but the handler to sign.
LEMMA ListFits ==
  ASSUME NEW kind, NEW n, FitsBuilder(kind, n)
  PROVE  LET list == Range(Escrow(kind, n).accounts) IN
         /\ \A m \in list : m.is_signer =>
              m.key = n.trusted_handler /\ "trusted_handler" \in DOMAIN n
         /\ \A role \in Changes[kind] : \E m \in list : m.key = n[role] /\ m.is_writable
         /\ \A role \in NeededBy(kind) \ ArgumentNames : \E m \in list : m.key = n[role]
  <1> DEFINE built == BuiltAccounts[kind]
             accounts == Escrow(kind, n).accounts
             list == Range(accounts)
  <1>1. kind \in Kinds /\ NeededBy(kind) \subseteq DOMAIN n
    BY DEF FitsBuilder
  <1>2. /\ DOMAIN accounts = DOMAIN built
        /\ \A a \in DOMAIN built : /\ accounts[a].key = Given(n)[built[a].role]
                                   /\ accounts[a].is_signer = built[a].is_signer
                                   /\ accounts[a].is_writable = built[a].is_writable
    BY DEF Escrow, Built, Given
  <1>3. FlagsFit(kind)
    BY <1>1, FlagsAreSet
  <1>4. Range(PackArguments[kind]) \subseteq ArgumentNames
    BY <1>1, ArgumentsAreFew DEF Range
  <1>5. \A role \in {built[a].role : a \in DOMAIN built} \ {"clock", "token_program"} :
          role \in NeededBy(kind) /\ Given(n)[role] = n[role]
    BY <1>1, GivenAreNamed DEF NeededBy
  <1>6. NeededBy(kind) \ ArgumentNames \subseteq {built[a].role : a \in DOMAIN built} \ {"clock", "token_program"}
    BY <1>4 DEF NeededBy
  <1>7. \A role \in Changes[kind] : role \notin {"clock", "token_program"}
    BY <1>1 DEF Changes, Kinds
  <1>8. \A a \in DOMAIN built : accounts[a] \in list
    BY <1>2 DEF Range
  <1>9. \A m \in list : \E a \in DOMAIN built : m = accounts[a]
    BY <1>2 DEF Range
  <1> HIDE DEF accounts, list, built
  <1>10. ASSUME NEW m \in list, m.is_signer
         PROVE  m.key = n.trusted_handler /\ "trusted_handler" \in DOMAIN n
    <2>1. PICK a \in DOMAIN built : m = accounts[a]
      BY <1>9
    <2>2. built[a].role = "trusted_handler"
      BY <1>2, <1>3, <1>10, <2>1 DEF FlagsFit, built
    <2>3. "trusted_handler" \in NeededBy(kind) /\ Given(n)["trusted_handler"] = n["trusted_handler"]
      BY <1>5, <2>2
    <2> QED BY <1>1, <1>2, <2>1, <2>2, <2>3
  <1>11. ASSUME NEW role \in Changes[kind]
         PROVE  \E m \in list : m.key = n[role] /\ m.is_writable
    <2>1. PICK a \in DOMAIN built : built[a].role = role
      BY <1>3 DEF FlagsFit, built
    <2>2. built[a].is_writable
      BY <1>3, <2>1 DEF FlagsFit, built
    <2> QED BY <1>2, <1>5, <1>7, <1>8, <2>1, <2>2
  <1>12. ASSUME NEW role \in NeededBy(kind) \ ArgumentNames
         PROVE  \E m \in list : m.key = n[role]
    <2>1. PICK a \in DOMAIN built : built[a].role = role /\ role \notin {"clock", "token_program"}
      BY <1>6
    <2> QED BY <1>2, <1>5, <1>8, <2>1
  <1> QED BY <1>10, <1>11, <1>12 DEF list, accounts

\* A transaction of one instruction is that instruction.
LEMMA LoneExecution ==
  ASSUME NEW w, NEW now, NEW tx, NEW i, tx.instructions = <<i>>
  PROVE  Executed(w, now, tx) = Execute(w, now, tx.signers, i)
  <1>1. DOMAIN tx.instructions = 1 .. 1 /\ tx.instructions[1] = i
    OBVIOUS
  <1>2. PICK run : IsExecution(run, w, now, tx, 1)
    BY <1>1, ExecutionRuns
  <1>3. /\ run[0] = {w}
        /\ run[1] = Stepped(run[0], now, tx.signers, i)
        /\ Executed(w, now, tx) = run[1]
    BY <1>1, <1>2 DEF IsExecution
  <1> DEFINE Out(v) == Execute(v, now, tx.signers, i)
  <1>4. Stepped(run[0], now, tx.signers, i) = UNION {Out(v) : v \in run[0]}
    BY DEF Stepped
  <1> HIDE DEF Out
  <1>5. UNION {Out(v) : v \in run[0]} = Out(w)
    BY <1>3
  <1> QED BY <1>3, <1>4, <1>5 DEF Out

\* From v to w only accounts change that a call of a kind may change.
ChangesOnly(w, v, kind, n) ==
  \A a \in Addresses : v.account[a] # w.account[a] => \E role \in Changes[kind] : a = n[role]

\* A token account that is there, created and initialised
Usable(w, a) == Has(w, a, "TokenAccount") /\ w.account[a].mint # NoMint

\* Such a token account is the one MintOf and OwnerOf describe.
LEMMA UsableAccounts ==
  ASSUME NEW w, SoundWorld(w), NEW a \in TokenAccounts, Usable(w, a)
  PROVE  MintIn(w)[a] = MintOf[a] /\ OwnerIn(w)[a] = OwnerOf[a]
  <1>1. a \in Addresses
    BY Subsets
  <1>2. MintIn(w)[a] = w.account[a].mint /\ OwnerIn(w)[a] = w.account[a].owner
    BY <1>1 DEF MintIn, OwnerIn, Usable
  <1>3. TokenAgrees(a, w.account[a])
    BY <1>1 DEF SoundWorld, WorldAgrees, IsTokenAccount, Usable, Has
  <1> QED BY <1>2, <1>3 DEF TokenAgrees, Usable

\* The account of an escrow can be read.
LEMMA EscrowsAreRead ==
  ASSUME NEW w, SoundWorld(w), NEW e \in Escrows, Has(w, e, "Escrow")
  PROVE  \E got \in EscrowIn(w, e) :
           /\ got.escrow = ViewOf(w).escrow[e]
           /\ EscrowInitialized(got.escrow) => got.bump_seed = BumpSeed[e]
  <1>1. PICK got \in EscrowIn(w, e) : TRUE
    BY DEF SoundWorld, WorldInv, Readable, Has, EscrowIn
  <1>2. got.escrow = ViewOf(w).escrow[e]
    BY <1>1, SeenIsRead
  <1>3. EscrowInitialized(got.escrow) => got.bump_seed = BumpSeed[e]
    BY <1>1, GotIsWhole DEF SoundWorld
  <1> QED BY <1>1, <1>2, <1>3

\* Storing an escrow changes that account alone.
LEMMA StoredChanges ==
  ASSUME NEW w, SoundWorld(w), NEW e, NEW esc, NEW bump_seed
  PROVE  LET v == Stored(w, e, esc, bump_seed) IN
         \A a \in Addresses : v.account[a] # w.account[a] => a = e
  BY DEF Stored, SoundWorld, WorldInv

\* A transfer changes no other amounts.
LEMMA TransferChanges ==
  ASSUME NEW ledger, NEW from, NEW to, NEW n
  PROVE  \A a \in DOMAIN ledger : Transferred(ledger, from, to, n)[a] # ledger[a] => a \in {from, to}
  BY DEF Transferred

\* Storing an escrow and new amounts changes that account and those whose amounts change.
LEMMA PaidChanges ==
  ASSUME NEW w, SoundWorld(w), NEW e, NEW esc, NEW bump_seed, NEW ledger
  PROVE  LET v == Paid(Stored(w, e, esc, bump_seed), ledger) IN
         \A a \in Addresses : v.account[a] # w.account[a] => a = e \/ ledger[a] # LedgerIn(w)[a]
  <1> DEFINE u == Stored(w, e, esc, bump_seed)
  <1>1. \A a \in Addresses : u.account[a] # w.account[a] => a = e
    BY StoredChanges
  <1>2. DOMAIN u.account = Addresses /\ "account" \in DOMAIN u
    BY DEF Stored, SoundWorld, WorldInv
  <1> HIDE DEF u
  <1>3. ASSUME NEW a \in Addresses, a # e, ledger[a] = LedgerIn(w)[a]
        PROVE  Paid(u, ledger).account[a] = w.account[a]
    <2>1. u.account[a] = w.account[a]
      BY <1>1, <1>3
    <2>2. Paid(u, ledger).account[a] =
            IF Has(u, a, "TokenAccount") THEN [u.account[a] EXCEPT !.amount = ledger[a]]
            ELSE u.account[a]
      BY <1>2 DEF Paid
    <2>3. CASE Has(u, a, "TokenAccount")
      <3> DEFINE contents == w.account[a]
      <3>1. Has(w, a, "TokenAccount")
        BY <2>1, <2>3 DEF Has
      <3>2. ledger[a] = contents.amount
        BY <1>3, <3>1 DEF LedgerIn
      <3>3. IsRecord(contents) /\ "amount" \in DOMAIN contents
        BY <3>1 DEF SoundWorld, WorldAgrees, IsTokenAccount, Has, TokenAgrees
      <3> HIDE DEF contents
      <3>4. [contents EXCEPT !.amount = ledger[a]] = contents
        BY <3>2, <3>3 DEF IsRecord
      <3> QED BY <2>1, <2>2, <2>3, <3>4 DEF contents
    <2>4. CASE ~Has(u, a, "TokenAccount")
      BY <2>1, <2>2, <2>4
    <2> QED BY <2>3, <2>4
  <1> QED BY <1>3 DEF u

\* A transfer between accounts that are there goes through as the clients see it.
LEMMA TransfersReach ==
  ASSUME NEW w, SoundWorld(w), NEW ledger, NEW seen, Mirrors(w, ledger, seen),
         NEW from \in TokenAccounts, NEW to \in TokenAccounts, Usable(w, from), Usable(w, to),
         NEW k \in Keys, NEW n, Invokable(seen, from, to, k, n)
  PROVE  /\ Program(MintIn(w), OwnerIn(w))!Invokable(ledger, from, to, k, n)
         /\ Mirrors(w, Transferred(ledger, from, to, n), Transferred(seen, from, to, n))
  <1>1. n = 0 \/ CanTransfer(seen, from, to, k, n)
    BY DEF Invokable
  <1>2. /\ MintIn(w)[from] = MintOf[from] /\ OwnerIn(w)[from] = OwnerOf[from]
        /\ MintIn(w)[to] = MintOf[to]
    BY UsableAccounts
  <1>3. ledger[from] = seen[from] /\ ledger[to] = seen[to]
    BY DEF Mirrors
  <1>4. \/ n = 0
        \/ /\ from \in SplAccounts /\ to \in SplAccounts
           /\ OwnerIn(w)[from] = k /\ MintIn(w)[from] = MintIn(w)[to]
           /\ ledger[from] >= n
           /\ from = to \/ ledger[to] + n < U64
    BY <1>1, <1>2, <1>3 DEF CanTransfer
  <1>5. Program(MintIn(w), OwnerIn(w))!Invokable(ledger, from, to, k, n)
    BY <1>4 DEF Program!Invokable, Program!CanTransfer, Program!U64, U64
  <1> QED BY <1>5, TransfersMirror

\* The account is there, as what its address is for.
There(w, a) ==
  /\ a \in Escrows => Has(w, a, "Escrow")
  /\ a \in Factories => Has(w, a, "Factory")
  /\ a \in TokenAccounts => Usable(w, a)

\* All accounts that a call names are there.
AllThere(w, kind, n) == \A role \in NeededBy(kind) \ ArgumentNames : There(w, n[role])

\* The program makes something of a call, and changes nothing the call may not change.
Reaches(w, now, u, kind, n) ==
  \E v \in Dispatched(w, now, u.kind, HandlerOf(u.metas), u.call) : ChangesOnly(w, v, kind, n)

\* What the handler makes of an instruction is executed, whoever else signs.
LEMMA CallExecutes ==
  ASSUME NEW kind, NEW n, FitsBuilder(kind, n),
         NEW signers, "trusted_handler" \in DOMAIN n => n.trusted_handler \in signers,
         NEW w, NEW now, NEW u, Understood(Escrow(kind, n)) = {u}, Sees(u, kind, n),
         Reaches(w, now, u, kind, n)
  PROVE  Execute(w, now, signers, Escrow(kind, n)) # {}
  <1> DEFINE i == Escrow(kind, n)
  <1>1. i.program = "escrow"
    BY DEF Escrow
  <1>2. /\ \A m \in Range(i.accounts) : m.is_signer =>
             m.key = n.trusted_handler /\ "trusted_handler" \in DOMAIN n
        /\ \A role \in Changes[kind] :
             \E m \in Range(i.accounts) : m.key = n[role] /\ m.is_writable
    BY ListFits
  <1>3. Understood(i) = {u}
    OBVIOUS
  <1> HIDE DEF i
  <1>4. PICK v \in Dispatched(w, now, u.kind, HandlerOf(u.metas), u.call) :
          ChangesOnly(w, v, kind, n)
    BY DEF Reaches
  <1>5. v \in Process(w, now, i)
    <2>1. \A a \in Addresses : v.account[a] # w.account[a] =>
            \E m \in Range(i.accounts) : m.key = a /\ m.is_writable
      BY <1>2, <1>4 DEF ChangesOnly
    <2>2. "clock" \in DOMAIN u.metas => u.metas["clock"].key = "clock"
      BY DEF Sees
    <2> QED BY <1>3, <1>4, <2>1, <2>2 DEF Process
  <1>6. ~ \E m \in Range(i.accounts) : m.is_signer /\ m.key \notin signers
    BY <1>2
  <1>7. Execute(w, now, signers, i) = Process(w, now, i)
    BY <1>1, <1>6 DEF Execute
  <1> QED BY <1>5, <1>7 DEF i

\* What the handler of a kind makes of a call is what the program makes of it.
LEMMA HandlersAreDispatched ==
  ASSUME NEW w, NEW now, NEW handler, NEW call, NEW got \in EscrowIn(w, call.escrow)
  PROVE  /\ ProcessInitialize(w, now, got, call) \subseteq
              Dispatched(w, now, "Initialize", handler, call)
         /\ ProcessSetup(w, now, got, handler, call) \subseteq
              Dispatched(w, now, "Setup", handler, call)
         /\ ProcessStoreResults(w, now, got, handler, call) \subseteq
              Dispatched(w, now, "StoreResults", handler, call)
         /\ ProcessStoreAmounts(w, now, got, handler, call) \subseteq
              Dispatched(w, now, "StoreFinalAmounts", handler, call)
         /\ ProcessPayout(w, now, got, handler, call) \subseteq
              Dispatched(w, now, "Payout", handler, call)
         /\ ProcessCancel(w, got, handler, call) \subseteq
              Dispatched(w, now, "Cancel", handler, call)
         /\ ProcessComplete(w, now, got, handler, call) \subseteq
              Dispatched(w, now, "Complete", handler, call)
  <1>1. ProcessInitialize(w, now, got, call) \subseteq
          Dispatched(w, now, "Initialize", handler, call)
    BY DEF Dispatched
  <1>2. ProcessSetup(w, now, got, handler, call) \subseteq
          Dispatched(w, now, "Setup", handler, call)
    BY DEF Dispatched
  <1>3. ProcessStoreResults(w, now, got, handler, call) \subseteq
          Dispatched(w, now, "StoreResults", handler, call)
    BY DEF Dispatched
  <1>4. ProcessStoreAmounts(w, now, got, handler, call) \subseteq
          Dispatched(w, now, "StoreFinalAmounts", handler, call)
    BY DEF Dispatched
  <1>5. ProcessPayout(w, now, got, handler, call) \subseteq
          Dispatched(w, now, "Payout", handler, call)
    BY DEF Dispatched
  <1>6. ProcessCancel(w, got, handler, call) \subseteq
          Dispatched(w, now, "Cancel", handler, call)
    BY DEF Dispatched
  <1>7. ProcessComplete(w, now, got, handler, call) \subseteq
          Dispatched(w, now, "Complete", handler, call)
    BY DEF Dispatched
  <1> QED BY <1>1, <1>2, <1>3, <1>4, <1>5, <1>6, <1>7

\* Those accounts that its handler looks at are there.
RolesThere(w, kind, n) ==
  \A role \in Needs[kind] :
    /\ role = "factory" => Has(w, n.factory, "Factory")
    /\ role = "escrow" => Has(w, n.escrow, "Escrow")
    /\ role \in {"token_account", "canceler_token_account", "recipient_token_account",
                 "reputation_oracle_token_account", "recording_oracle_token_account"} =>
         Usable(w, n[role])

\* If all accounts are there, these are.
LEMMA RolesAreThere ==
  ASSUME NEW w, NEW kind, NEW n, FitsBuilder(kind, n), AllThere(w, kind, n)
  PROVE  RolesThere(w, kind, n)
  <1> SUFFICES ASSUME NEW role \in Needs[kind]
               PROVE  /\ role = "factory" => Has(w, n.factory, "Factory")
                      /\ role = "escrow" => Has(w, n.escrow, "Escrow")
                      /\ role \in {"token_account", "canceler_token_account",
                                   "recipient_token_account",
                                   "reputation_oracle_token_account",
                                   "recording_oracle_token_account"} => Usable(w, n[role])
    BY DEF RolesThere
  <1>1. role \in NeededBy(kind)
    BY NeedsAreNeeded DEF FitsBuilder
  <1>2. {"factory", "escrow", "token_account", "canceler_token_account",
         "recipient_token_account", "reputation_oracle_token_account",
         "recording_oracle_token_account"} \cap ArgumentNames = {}
    BY DEF ArgumentNames
  <1>3. role \notin ArgumentNames => There(w, n[role])
    BY <1>1 DEF AllThere
  <1> QED BY <1>2, <1>3, NamesHaveTheirRoles DEF There

\* The account of the escrow that a call names, as the clients and as its handler see it
LEMMA EscrowIsRead ==
  ASSUME NEW w, SoundWorld(w), NEW kind, NEW n, FitsBuilder(kind, n), RolesThere(w, kind, n),
         "escrow" \in Needs[kind], NEW u, Sees(u, kind, n)
  PROVE  /\ u.call.escrow = n.escrow /\ n.escrow \in Escrows
         /\ \E got \in EscrowIn(w, u.call.escrow) :
              /\ got.escrow = ViewOf(w).escrow[n.escrow]
              /\ EscrowInitialized(got.escrow) => got.bump_seed = BumpSeed[n.escrow]
  <1>1. u.call.escrow = n.escrow /\ n.escrow \in Escrows /\ Has(w, n.escrow, "Escrow")
    BY SeenFields, NamesHaveTheirRoles DEF RolesThere
  <1> QED BY <1>1, EscrowsAreRead

\* One lemma per process_* function: what EscrowInstructions accepts, it accepts.
\* process_factory_initialize
LEMMA FactoryInitializeReaches ==
  ASSUME NEW w, SoundWorld(w), NEW now, NEW n, FitsBuilder("FactoryInitialize", n),
         RolesThere(w, "FactoryInitialize", n), NEW u, Sees(u, "FactoryInitialize", n),
         FactoryInitializeAccepts(ViewOf(w).version[n.factory]),
         OwnerAllows(n.factory, ViewOf(w).version[n.factory], n.version)
  PROVE  Reaches(w, now, u, "FactoryInitialize", n)
  <1> DEFINE v == [w EXCEPT !.account[n.factory].version = n.version]
  <1>1. /\ u.call.factory = n.factory /\ u.call.version = n.version
        /\ n.factory \in Factories /\ Has(w, n.factory, "Factory")
    BY SeenFields, NamesHaveTheirRoles DEF Needs, RolesThere
  <1>2. ViewOf(w).version[n.factory] = w.account[n.factory].version
    BY <1>1 DEF ViewOf
  <1>3. v \in ProcessFactoryInitialize(w, u.call)
    BY <1>1, <1>2 DEF ProcessFactoryInitialize, When
  <1>4. v \in Dispatched(w, now, u.kind, HandlerOf(u.metas), u.call)
    BY <1>3 DEF Dispatched, Sees
  <1>5. \A a \in Addresses : v.account[a] # w.account[a] => a = n.factory
    BY DEF SoundWorld, WorldInv
  <1> HIDE DEF v
  <1>6. ChangesOnly(w, v, "FactoryInitialize", n)
    BY <1>5 DEF ChangesOnly, Changes
  <1> QED BY <1>4, <1>6 DEF Reaches

\* A handler that stores the escrow it has read, and moves nothing
LEMMA StoringReaches ==
  ASSUME NEW w, SoundWorld(w), NEW now, NEW kind \in Kinds, NEW n,
         NEW u, u.call.escrow = n.escrow, NEW esc, NEW bump_seed,
         Stored(w, u.call.escrow, esc, bump_seed) \in
           Dispatched(w, now, u.kind, HandlerOf(u.metas), u.call),
         "escrow" \in Changes[kind]
  PROVE  Reaches(w, now, u, kind, n)
  <1> DEFINE v == Stored(w, u.call.escrow, esc, bump_seed)
  <1>1. \A a \in Addresses : v.account[a] # w.account[a] => a = n["escrow"]
    BY StoredChanges
  <1> HIDE DEF v
  <1>2. ChangesOnly(w, v, kind, n)
    BY <1>1 DEF ChangesOnly
  <1> QED BY <1>2 DEF Reaches, v

\* process_initialize
LEMMA InitializeReaches ==
  ASSUME NEW w, SoundWorld(w), NEW now, NEW n, FitsBuilder("Initialize", n),
         RolesThere(w, "Initialize", n), NEW u, Sees(u, "Initialize", n),
         InitializeAccepts(n.escrow, ViewOf(w).escrow[n.escrow], ViewOf(w).version[n.factory], n)
  PROVE  Reaches(w, now, u, "Initialize", n)
  <1> DEFINE call == u.call
             e == n.escrow
             esc == InitializeWrites(now, call)
  <1>1. /\ call.factory = n.factory /\ call.token_mint = n.token_mint
        /\ call.token_account = n.token_account /\ call.duration = n.duration
        /\ call.canceler_token_account = n.canceler_token_account
        /\ n.factory \in Factories /\ Has(w, n.factory, "Factory")
        /\ n.token_account \in TokenAccounts /\ Usable(w, n.token_account)
        /\ n.canceler_token_account \in TokenAccounts /\ Usable(w, n.canceler_token_account)
    BY SeenFields, NamesHaveTheirRoles DEF Needs, RolesThere
  <1>2. PICK got \in EscrowIn(w, call.escrow) : got.escrow = ViewOf(w).escrow[e]
    BY EscrowIsRead DEF Needs
  <1>3. call.escrow = e /\ e \in Escrows
    BY EscrowIsRead DEF Needs
  <1>4. ViewOf(w).version[n.factory] = w.account[n.factory].version
    BY <1>1 DEF ViewOf
  <1>5. /\ MintIn(w)[n.token_account] = MintOf[n.token_account]
        /\ OwnerIn(w)[n.token_account] = OwnerOf[n.token_account]
        /\ MintIn(w)[n.canceler_token_account] = MintOf[n.canceler_token_account]
    BY <1>1, UsableAccounts
  <1>6. Program(MintIn(w), OwnerIn(w))!InitializeAccepts(
          e, got.escrow, w.account[n.factory].version, call)
    BY <1>1, <1>2, <1>4, <1>5
       DEF Program!InitializeAccepts, Program!FactoryInitialized, Program!EscrowInitialized,
           InitializeAccepts, FactoryInitialized, EscrowInitialized
  <1>7. Stored(w, call.escrow, esc, BumpSeed[call.escrow]) \in ProcessInitialize(w, now, got, call)
    BY <1>1, <1>3, <1>6 DEF ProcessInitialize, When, Usable
  <1>8. Stored(w, call.escrow, esc, BumpSeed[call.escrow]) \in
          Dispatched(w, now, u.kind, HandlerOf(u.metas), call)
    BY <1>2, <1>7, HandlersAreDispatched DEF Sees
  <1>9. "escrow" \in Changes["Initialize"] /\ "Initialize" \in Kinds
    BY DEF Changes, FitsBuilder
  <1> HIDE DEF esc
  <1> QED BY <1>3, <1>8, <1>9, StoringReaches

\* process_setup
LEMMA SetupReaches ==
  ASSUME NEW w, SoundWorld(w), NEW now, NEW n, FitsBuilder("Setup", n),
         RolesThere(w, "Setup", n), NEW u, Sees(u, "Setup", n),
         SetupAccepts(ViewOf(w).escrow[n.escrow], now, ByHandler(n), n)
  PROVE  Reaches(w, now, u, "Setup", n)
  <1> DEFINE call == u.call
             e == n.escrow
             rep == n.reputation_oracle_token_account
             rec == n.recording_oracle_token_account
  <1>1. /\ HandlerOf(u.metas) = ByHandler(n)
        /\ call.reputation_oracle_token_account = rep
        /\ call.recording_oracle_token_account = rec
        /\ call.reputation_oracle_stake = n.reputation_oracle_stake
        /\ call.recording_oracle_stake = n.recording_oracle_stake
        /\ rep \in TokenAccounts /\ Usable(w, rep)
        /\ rec \in TokenAccounts /\ Usable(w, rec)
    BY SeenFields, NamesHaveTheirRoles DEF Needs, RolesThere
  <1>2. PICK got \in EscrowIn(w, call.escrow) : got.escrow = ViewOf(w).escrow[e]
    BY EscrowIsRead DEF Needs
  <1>3. call.escrow = e /\ e \in Escrows
    BY EscrowIsRead DEF Needs
  <1>4. MintIn(w)[rep] = MintOf[rep] /\ MintIn(w)[rec] = MintOf[rec]
    BY <1>1, UsableAccounts
  <1>5. Program(MintIn(w), OwnerIn(w))!SetupAccepts(got.escrow, now, ByHandler(n), call)
    BY <1>1, <1>2, <1>4, StateCheckSame DEF Program!SetupAccepts, SetupAccepts
  <1> DEFINE v == Stored(w, call.escrow, SetupWrites(got.escrow, call), got.bump_seed)
  <1>6. v \in ProcessSetup(w, now, got, HandlerOf(u.metas), call)
    BY <1>1, <1>5 DEF ProcessSetup, When, Usable
  <1>7. v \in Dispatched(w, now, u.kind, HandlerOf(u.metas), call)
    <2> HIDE DEF v
    <2> QED BY <1>2, <1>6, HandlersAreDispatched DEF Sees
  <1>8. "escrow" \in Changes["Setup"] /\ "Setup" \in Kinds
    BY DEF Changes, FitsBuilder
  <1> QED BY <1>3, <1>7, <1>8, StoringReaches

\* process_store_results, process_store_amounts and process_complete
LEMMA StoresReach ==
  ASSUME NEW w, SoundWorld(w), NEW now, NEW kind \in {"StoreResults", "StoreFinalAmounts", "Complete"},
         NEW n, FitsBuilder(kind, n), RolesThere(w, kind, n), NEW u, Sees(u, kind, n),
         kind = "StoreResults" =>
           StoreResultsAccepts(ViewOf(w).escrow[n.escrow], now, ByHandler(n)),
         kind = "StoreFinalAmounts" =>
           StoreAmountsAccepts(ViewOf(w).escrow[n.escrow], now, ByHandler(n)),
         kind = "Complete" => CompleteAccepts(ViewOf(w).escrow[n.escrow], now, ByHandler(n))
  PROVE  Reaches(w, now, u, kind, n)
  <1> DEFINE call == u.call
  <1>1. {"escrow", "trusted_handler"} \subseteq Needs[kind]
    BY DEF Needs
  <1>2. HandlerOf(u.metas) = ByHandler(n) /\ call.escrow = n.escrow /\ u.kind = kind
    BY <1>1, SeenFields DEF Sees
  <1>3. PICK got \in EscrowIn(w, call.escrow) : got.escrow = ViewOf(w).escrow[n.escrow]
    BY <1>1, EscrowIsRead
  <1>4. \E esc : Stored(w, call.escrow, esc, got.bump_seed) \in
          Dispatched(w, now, u.kind, HandlerOf(u.metas), call)
    <2>1. CASE kind = "StoreResults"
      <3>1. Stored(w, call.escrow, StoreResultsWrites(got.escrow, call.final_results), got.bump_seed)
              \in ProcessStoreResults(w, now, got, HandlerOf(u.metas), call)
        BY <1>2, <1>3, <2>1 DEF ProcessStoreResults, When
      <3> QED BY <1>2, <1>3, <2>1, <3>1, HandlersAreDispatched
    <2>2. CASE kind = "StoreFinalAmounts"
      <3>1. Stored(w, call.escrow, StoreAmountsWrites(got.escrow, call), got.bump_seed)
              \in ProcessStoreAmounts(w, now, got, HandlerOf(u.metas), call)
        BY <1>2, <1>3, <2>2 DEF ProcessStoreAmounts, When
      <3> QED BY <1>2, <1>3, <2>2, <3>1, HandlersAreDispatched
    <2>3. CASE kind = "Complete"
      <3>1. Stored(w, call.escrow, CompleteWrites(got.escrow), got.bump_seed)
              \in ProcessComplete(w, now, got, HandlerOf(u.metas), call)
        BY <1>2, <1>3, <2>3 DEF ProcessComplete, When
      <3> QED BY <1>2, <1>3, <2>3, <3>1, HandlersAreDispatched
    <2> QED BY <2>1, <2>2, <2>3
  <1>5. "escrow" \in Changes[kind] /\ kind \in Kinds
    BY DEF Changes, FitsBuilder
  <1> QED BY <1>2, <1>4, <1>5, StoringReaches

\* A handler that stores the escrow it has read and moves tokens among the accounts
\* of the call
LEMMA PayingReaches ==
  ASSUME NEW w, SoundWorld(w), NEW now, NEW kind \in Kinds, NEW n,
         NEW u, u.call.escrow = n.escrow, NEW esc, NEW bump_seed, NEW ledger,
         Paid(Stored(w, u.call.escrow, esc, bump_seed), ledger) \in
           Dispatched(w, now, u.kind, HandlerOf(u.metas), u.call),
         "escrow" \in Changes[kind],
         \A a \in Addresses : ledger[a] # LedgerIn(w)[a] => \E role \in Changes[kind] : a = n[role]
  PROVE  Reaches(w, now, u, kind, n)
  <1> DEFINE v == Paid(Stored(w, u.call.escrow, esc, bump_seed), ledger)
  <1>1. \A a \in Addresses : v.account[a] # w.account[a] =>
          a = n["escrow"] \/ ledger[a] # LedgerIn(w)[a]
    BY PaidChanges
  <1> HIDE DEF v
  <1>2. ChangesOnly(w, v, kind, n)
    BY <1>1 DEF ChangesOnly
  <1> QED BY <1>2 DEF Reaches, v

\* What the clients see to be payable is payable.
LEMMA PayoutAccepted ==
  ASSUME NEW w, SoundWorld(w), NEW e \in Escrows, NEW esc, NEW ledger, NEW seen,
         Mirrors(w, ledger, seen), NEW now, NEW handler, NEW call,
         {call.token_account, call.recipient_token_account,
          call.reputation_oracle_token_account,
          call.recording_oracle_token_account} \subseteq TokenAccounts,
         Usable(w, call.token_account), Usable(w, call.recipient_token_account),
         Usable(w, call.reputation_oracle_token_account),
         Usable(w, call.recording_oracle_token_account),
         PayoutAccepts(e, esc, seen, now, handler, call)
  PROVE  Program(MintIn(w), OwnerIn(w))!PayoutAccepts(e, esc, ledger, now, handler, call)
  <1> DEFINE from == call.token_account
             one == AfterRecipient(esc, ledger, call)
             two == AfterReputation(esc, ledger, call)
             oneSeen == AfterRecipient(esc, seen, call)
             twoSeen == AfterReputation(esc, seen, call)
             share == RecipientShare(esc, call.amount)
             rep == ReputationFee(esc, call.amount)
             rec == RecordingFee(esc, call.amount)
             k == Authority[e]
             P(x, to, n) == Program(MintIn(w), OwnerIn(w))!Invokable(x, from, to, k, n)
  <1>1. /\ StateCheck(esc, now, handler, {"Pending", "Partial"})
        /\ PayoutAccountsMatch(e, esc, call)
        /\ seen[from] >= call.amount
        /\ WithinTotals(esc, call.amount)
        /\ PayoutTransfersSucceed(esc, seen, call)
    BY DEF PayoutAccepts
  <1>2. call.authority = k /\ k \in Keys
    BY <1>1, AuthorityAssumption DEF PayoutAccountsMatch
  <1>3. /\ Invokable(seen, from, call.recipient_token_account, k, share)
        /\ Invokable(oneSeen, from, call.reputation_oracle_token_account, k, rep)
        /\ Invokable(twoSeen, from, call.recording_oracle_token_account, k, rec)
    BY <1>1, <1>2 DEF PayoutTransfersSucceed
  <1>4. P(ledger, call.recipient_token_account, share) /\ Mirrors(w, one, oneSeen)
    BY <1>2, <1>3, TransfersReach DEF AfterRecipient
  <1>5. P(one, call.reputation_oracle_token_account, rep) /\ Mirrors(w, two, twoSeen)
    <2> HIDE DEF one, oneSeen, rep
    <2>1. /\ P(one, call.reputation_oracle_token_account, rep)
          /\ Mirrors(w, Transferred(one, from, call.reputation_oracle_token_account, rep),
                        Transferred(oneSeen, from, call.reputation_oracle_token_account, rep))
      BY <1>2, <1>3, <1>4, TransfersReach
    <2> QED BY <2>1 DEF AfterReputation, one, oneSeen, rep
  <1>6. P(two, call.recording_oracle_token_account, rec)
    <2> HIDE DEF two, twoSeen, rec
    <2> QED BY <1>2, <1>3, <1>5, TransfersReach
  <1>7. Program(MintIn(w), OwnerIn(w))!PayoutTransfersSucceed(esc, ledger, call)
    BY <1>2, <1>4, <1>5, <1>6, AmountsSame, LedgersSame DEF Program!PayoutTransfersSucceed
  <1>8. ledger[from] >= call.amount
    BY <1>1 DEF Mirrors
  <1> QED BY <1>1, <1>7, <1>8, StateCheckSame, AmountsSame
          DEF Program!PayoutAccepts, Program!PayoutAccountsMatch, PayoutAccountsMatch

\* A payout changes the amounts of its four accounts at most.
LEMMA PayoutChanges ==
  ASSUME NEW esc, NEW ledger, NEW call
  PROVE  \A a \in DOMAIN ledger : PayoutLedger(esc, ledger, call)[a] # ledger[a] =>
           a \in {call.token_account, call.recipient_token_account,
                  call.reputation_oracle_token_account, call.recording_oracle_token_account}
  <1> DEFINE one == AfterRecipient(esc, ledger, call)
             two == AfterReputation(esc, ledger, call)
  <1>1. \A x, f, t, k : DOMAIN Transferred(x, f, t, k) = DOMAIN x
    BY DEF Transferred
  <1>2. DOMAIN one = DOMAIN ledger /\ DOMAIN two = DOMAIN ledger
    BY <1>1 DEF AfterRecipient, AfterReputation
  <1>3. \A a \in DOMAIN ledger : one[a] # ledger[a] =>
          a \in {call.token_account, call.recipient_token_account}
    BY TransferChanges DEF AfterRecipient
  <1> HIDE DEF one
  <1>4. \A a \in DOMAIN one : two[a] # one[a] =>
          a \in {call.token_account, call.reputation_oracle_token_account}
    BY TransferChanges DEF AfterReputation, one
  <1> HIDE DEF two
  <1>5. \A a \in DOMAIN two : PayoutLedger(esc, ledger, call)[a] # two[a] =>
          a \in {call.token_account, call.recording_oracle_token_account}
    BY TransferChanges DEF PayoutLedger, two
  <1> QED BY <1>2, <1>3, <1>4, <1>5

\* process_payout
LEMMA PayoutReaches ==
  ASSUME NEW w, SoundWorld(w), NEW now, NEW n, FitsBuilder("Payout", n),
         RolesThere(w, "Payout", n), NEW u, Sees(u, "Payout", n),
         PayoutAccepts(n.escrow, ViewOf(w).escrow[n.escrow], ViewOf(w).balance, now,
                       ByHandler(n), n)
  PROVE  Reaches(w, now, u, "Payout", n)
  <1> DEFINE call == u.call
             e == n.escrow
             seen == ViewOf(w).balance
             ledger == LedgerIn(w)
  <1>1. /\ HandlerOf(u.metas) = ByHandler(n)
        /\ call.amount = n.amount /\ call.authority = n.authority
        /\ call.token_account = n.token_account
        /\ call.recipient_token_account = n.recipient_token_account
        /\ call.reputation_oracle_token_account = n.reputation_oracle_token_account
        /\ call.recording_oracle_token_account = n.recording_oracle_token_account
        /\ {n.token_account, n.recipient_token_account, n.reputation_oracle_token_account,
            n.recording_oracle_token_account} \subseteq TokenAccounts
        /\ Usable(w, n.token_account) /\ Usable(w, n.recipient_token_account)
        /\ Usable(w, n.reputation_oracle_token_account)
        /\ Usable(w, n.recording_oracle_token_account)
    BY SeenFields, NamesHaveTheirRoles DEF Needs, RolesThere
  <1>2. PICK got \in EscrowIn(w, call.escrow) :
          /\ got.escrow = ViewOf(w).escrow[e]
          /\ EscrowInitialized(got.escrow) => got.bump_seed = BumpSeed[e]
    BY EscrowIsRead DEF Needs
  <1>3. call.escrow = e /\ e \in Escrows
    BY EscrowIsRead DEF Needs
  <1>4. u.kind = "Payout" /\ call.token_program = "spl_token"
    BY DEF Sees
  <1>5. Mirrors(w, ledger, seen) /\ DOMAIN ledger = Addresses
    BY LedgerMirrors DEF LedgerIn
  <1> HIDE DEF ledger, seen, call
  <1>6. PayoutAccepts(e, got.escrow, seen, now, ByHandler(n), n)
    BY <1>2 DEF seen
  <1>7. PayoutAccepts(e, got.escrow, seen, now, ByHandler(n), call)
    <2>1. /\ AfterRecipient(got.escrow, seen, n) = AfterRecipient(got.escrow, seen, call)
          /\ AfterReputation(got.escrow, seen, n) = AfterReputation(got.escrow, seen, call)
      BY <1>1 DEF AfterReputation, AfterRecipient
    <2>2. PayoutAccountsMatch(e, got.escrow, n) = PayoutAccountsMatch(e, got.escrow, call)
      BY <1>1 DEF PayoutAccountsMatch
    <2>3. PayoutTransfersSucceed(got.escrow, seen, n) = PayoutTransfersSucceed(got.escrow, seen, call)
      BY <1>1, <2>1 DEF PayoutTransfersSucceed
    <2> QED BY <1>1, <1>6, <2>2, <2>3 DEF PayoutAccepts
  <1>8. Program(MintIn(w), OwnerIn(w))!PayoutAccepts(e, got.escrow, ledger, now, ByHandler(n), call)
    BY <1>1, <1>3, <1>5, <1>7, PayoutAccepted
  <1>9. got.bump_seed = BumpSeed[e]
    BY <1>2, <1>7 DEF PayoutAccepts, StateCheck
  <1> DEFINE esc == PayoutWrites(got.escrow, call.amount)
             paid == PayoutLedger(got.escrow, ledger, call)
             v == Paid(Stored(w, call.escrow, esc, got.bump_seed), paid)
  <1>10. v \in ProcessPayout(w, now, got, HandlerOf(u.metas), call)
    BY <1>1, <1>3, <1>4, <1>8, <1>9
       DEF ProcessPayout, TransferBuilt, When, SeedGivesAuthority, Usable, ledger
  <1>11. \A a \in Addresses : paid[a] # ledger[a] =>
           a \in {n.token_account, n.recipient_token_account, n.reputation_oracle_token_account,
                  n.recording_oracle_token_account}
    BY <1>1, <1>5, PayoutChanges
  <1> HIDE DEF esc, paid
  <1>12. v \in Dispatched(w, now, u.kind, HandlerOf(u.metas), call)
    <2> HIDE DEF v
    <2> QED BY <1>2, <1>4, <1>10, HandlersAreDispatched
  <1>13. /\ "escrow" \in Changes["Payout"] /\ "Payout" \in Kinds
         /\ {"token_account", "recipient_token_account", "reputation_oracle_token_account",
             "recording_oracle_token_account"} \subseteq Changes["Payout"]
    BY DEF Changes, FitsBuilder
  <1>14. \A a \in Addresses : paid[a] # ledger[a] => \E role \in Changes["Payout"] : a = n[role]
    BY <1>11, <1>13
  <1> QED BY <1>3, <1>12, <1>13, <1>14, PayingReaches DEF ledger, call

\* process_cancel
LEMMA CancelReaches ==
  ASSUME NEW w, SoundWorld(w), NEW now, NEW n, FitsBuilder("Cancel", n),
         RolesThere(w, "Cancel", n), NEW u, Sees(u, "Cancel", n),
         CancelAccepts(n.escrow, ViewOf(w).escrow[n.escrow], ViewOf(w).balance, ByHandler(n), n)
  PROVE  Reaches(w, now, u, "Cancel", n)
  <1> DEFINE call == u.call
             e == n.escrow
             seen == ViewOf(w).balance
             ledger == LedgerIn(w)
             from == n.token_account
             to == n.canceler_token_account
             k == Authority[e]
  <1>1. /\ HandlerOf(u.metas) = ByHandler(n)
        /\ call.authority = n.authority
        /\ call.token_account = from /\ call.canceler_token_account = to
        /\ {from, to} \subseteq TokenAccounts
        /\ Usable(w, from) /\ Usable(w, to)
    BY SeenFields, NamesHaveTheirRoles DEF Needs, RolesThere
  <1>2. PICK got \in EscrowIn(w, call.escrow) :
          /\ got.escrow = ViewOf(w).escrow[e]
          /\ EscrowInitialized(got.escrow) => got.bump_seed = BumpSeed[e]
    BY EscrowIsRead DEF Needs
  <1>3. call.escrow = e /\ e \in Escrows
    BY EscrowIsRead DEF Needs
  <1>4. u.kind = "Cancel" /\ call.token_program = "spl_token"
    BY DEF Sees
  <1>5. Mirrors(w, ledger, seen) /\ DOMAIN ledger = Addresses
    BY LedgerMirrors DEF LedgerIn
  <1> HIDE DEF ledger, seen, call
  <1>6. CancelAccepts(e, got.escrow, seen, ByHandler(n), n)
    BY <1>2 DEF seen
  <1>7. seen[from] = ledger[from] /\ k \in Keys
    BY <1>1, <1>3, <1>5, AuthorityAssumption DEF Mirrors
  <1>8. Program(MintIn(w), OwnerIn(w))!CanTransfer(ledger, from, to, k, ledger[from])
    <2>1. Invokable(seen, from, to, k, ledger[from]) /\ ledger[from] # 0
      BY <1>6, <1>7 DEF CancelAccepts, Invokable
    <2>2. Program(MintIn(w), OwnerIn(w))!Invokable(ledger, from, to, k, ledger[from])
      BY <1>1, <1>5, <1>7, <2>1, TransfersReach
    <2> QED BY <2>1, <2>2 DEF Program!Invokable
  <1>9. Program(MintIn(w), OwnerIn(w))!CancelAccepts(e, got.escrow, ledger, ByHandler(n), call)
    BY <1>1, <1>6, <1>7, <1>8
       DEF CancelAccepts, Program!CancelAccepts, Program!EscrowInitialized, EscrowInitialized,
           Program!TrustedHandler, TrustedHandler, Program!TrustedKeys, TrustedKeys
  <1>10. got.bump_seed = BumpSeed[e]
    BY <1>2, <1>6 DEF CancelAccepts
  <1> DEFINE esc == CancelWrites(got.escrow)
             refunded == CancelLedger(ledger, call)
             v == Paid(Stored(w, call.escrow, esc, got.bump_seed), refunded)
  <1>11. v \in ProcessCancel(w, got, HandlerOf(u.metas), call)
    BY <1>1, <1>3, <1>4, <1>9, <1>10
       DEF ProcessCancel, TransferBuilt, When, SeedGivesAuthority, Usable, ledger
  <1>12. \A a \in Addresses : refunded[a] # ledger[a] => a \in {from, to}
    BY <1>1, <1>5, TransferChanges DEF CancelLedger
  <1> HIDE DEF esc, refunded
  <1>13. v \in Dispatched(w, now, u.kind, HandlerOf(u.metas), call)
    <2> HIDE DEF v
    <2> QED BY <1>2, <1>4, <1>11, HandlersAreDispatched
  <1>14. /\ "escrow" \in Changes["Cancel"] /\ "Cancel" \in Kinds
         /\ {"token_account", "canceler_token_account"} \subseteq Changes["Cancel"]
    BY DEF Changes, FitsBuilder
  <1>15. \A a \in Addresses : refunded[a] # ledger[a] => \E role \in Changes["Cancel"] : a = n[role]
    BY <1>12, <1>14
  <1> QED BY <1>3, <1>13, <1>14, <1>15, PayingReaches DEF ledger, call

\* Setup takes its document from the url, and decides without it.
LEMMA ManifestIsNotChecked ==
  ASSUME NEW esc, NEW now, NEW handler, NEW n, FitsBuilder("Setup", n)
  PROVE  SetupAccepts(esc, now, handler, WithManifest(n)) = SetupAccepts(esc, now, handler, n)
  <1>1. {"reputation_oracle_stake", "recording_oracle_stake", "reputation_oracle_token_account",
         "recording_oracle_token_account"} \subseteq Needs["Setup"]
    BY DEF Needs
  <1>2. \A f \in DOMAIN n \ {"manifest"} : WithManifest(n)[f] = n[f]
    BY DEF WithManifest, Joined
  <1>3. /\ WithManifest(n).reputation_oracle_stake = n.reputation_oracle_stake
        /\ WithManifest(n).recording_oracle_stake = n.recording_oracle_stake
        /\ WithManifest(n).reputation_oracle_token_account = n.reputation_oracle_token_account
        /\ WithManifest(n).recording_oracle_token_account = n.recording_oracle_token_account
    BY <1>1, <1>2, NamesHaveTheirRoles
  <1> QED BY <1>3 DEF SetupAccepts

\* What was executed, the handler accepts.
LEMMA ExecutedIsAccepted ==
  ASSUME MeantInv, NEW c \in Calls, NEW result \in Executed(World, clock, Single(c))
  PROVE  HandlerAccepts(c)
  <1> DEFINE n == c.names
  <1>1. /\ Calling(Single(c), c.kind, n)
        /\ FitsBuilder(c.kind, n)
        /\ c.kind = "Initialize" => n \in InitializeNames
    BY LoneCallCalls DEF InitializeNames, CallsOf
  <1>2. Meant(clock, view, ViewOf(result), c.kind, n)
    <2>1. Meant(clock, ViewOf(World), ViewOf(result), c.kind, n)
      BY <1>1, CallingMeans DEF MeantInv
    <2> QED BY <2>1 DEF MeantInv
  <1>3. c.kind \in Kinds
    BY <1>1 DEF FitsBuilder
  <1>4. CASE c.kind = "FactoryInitialize"
    BY <1>2, <1>4 DEF Meant, HandlerAccepts
  <1>5. CASE c.kind = "Initialize"
    BY <1>2, <1>5 DEF Meant, HandlerAccepts
  <1>6. CASE c.kind = "Setup"
    BY <1>1, <1>2, <1>6, ManifestIsNotChecked DEF Meant, HandlerAccepts, ByHandler
  <1>7. CASE c.kind = "StoreResults"
    BY <1>2, <1>7 DEF Meant, HandlerAccepts, ByHandler
  <1>8. CASE c.kind = "StoreFinalAmounts"
    BY <1>2, <1>8 DEF Meant, HandlerAccepts, ByHandler
  <1>9. CASE c.kind = "Payout"
    BY <1>2, <1>9 DEF Meant, HandlerAccepts, ByHandler
  <1>10. CASE c.kind = "Cancel"
    BY <1>2, <1>10 DEF Meant, HandlerAccepts, ByHandler
  <1>11. CASE c.kind = "Complete"
    BY <1>2, <1>11 DEF Meant, HandlerAccepts, ByHandler
  <1> QED BY <1>3, <1>4, <1>5, <1>6, <1>7, <1>8, <1>9, <1>10, <1>11 DEF Kinds

\* What the handler accepts is executed.
LEMMA AcceptedIsExecuted ==
  ASSUME MeantInv, NEW c \in Calls,
         \A m \in Range(Single(c).instructions[1].accounts) : Exists(m.key),
         HandlerAccepts(c)
  PROVE  Executed(World, clock, Single(c)) # {}
  <1> DEFINE n == c.names
  <1>1. PICK w : w = World
    OBVIOUS
  <1>2. SoundWorld(w) /\ view = ViewOf(w) /\ account = w.account
    BY <1>1 DEF MeantInv, World
  <1>3. FitsBuilder(c.kind, n) /\ c.kind \in Kinds
    BY LoneCallCalls DEF FitsBuilder
  <1>4. RolesThere(w, c.kind, n)
    <2> SUFFICES ASSUME NEW role \in NeededBy(c.kind) \ ArgumentNames
                 PROVE  There(w, n[role])
      BY <1>3, RolesAreThere DEF AllThere
    <2>1. Single(c).instructions[1] = Escrow(c.kind, n)
      BY DEF Single, Transaction
    <2>2. \E m \in Range(Escrow(c.kind, n).accounts) : m.key = n[role]
      BY <1>3, ListFits
    <2>3. Exists(n[role])
      BY <2>1, <2>2
    <2> QED BY <1>1, <1>2, <2>3 DEF Exists, There, Usable
  <1>5. PICK u : Understood(Escrow(c.kind, n)) = {u} /\ Sees(u, c.kind, n)
    BY <1>3, CallsAreUnderstood
  <1>6. Reaches(w, clock, u, c.kind, n)
    <2>1. CASE c.kind = "FactoryInitialize"
      BY <1>2, <1>3, <1>4, <1>5, <2>1, FactoryInitializeReaches DEF HandlerAccepts
    <2>2. CASE c.kind = "Initialize"
      BY <1>2, <1>3, <1>4, <1>5, <2>2, InitializeReaches DEF HandlerAccepts
    <2>3. CASE c.kind = "Setup"
      BY <1>2, <1>3, <1>4, <1>5, <2>3, SetupReaches DEF HandlerAccepts, ByHandler
    <2>4. CASE c.kind \in {"StoreResults", "StoreFinalAmounts", "Complete"}
      BY <1>2, <1>3, <1>4, <1>5, <2>4, StoresReach DEF HandlerAccepts, ByHandler
    <2>5. CASE c.kind = "Payout"
      BY <1>2, <1>3, <1>4, <1>5, <2>5, PayoutReaches DEF HandlerAccepts, ByHandler
    <2>6. CASE c.kind = "Cancel"
      BY <1>2, <1>3, <1>4, <1>5, <2>6, CancelReaches DEF HandlerAccepts, ByHandler
    <2> QED BY <1>3, <2>1, <2>2, <2>3, <2>4, <2>5, <2>6 DEF Kinds
  <1> DEFINE tx == Single(c)
             i == Escrow(c.kind, n)
  <1>7. /\ tx.instructions = <<i>>
        /\ "trusted_handler" \in DOMAIN n => n.trusted_handler \in tx.signers
    BY DEF Single, Transaction
  <1> HIDE DEF tx
  <1>8. Execute(w, clock, tx.signers, i) # {}
    BY <1>3, <1>5, <1>6, <1>7, CallExecutes
  <1> HIDE DEF i
  <1>9. Executed(w, clock, tx) = Execute(w, clock, tx.signers, i)
    BY <1>7, LoneExecution
  <1> QED BY <1>1, <1>8, <1>9 DEF tx

(* BuildersReachHandlers, for every choice of accounts and of requests: when the     *)
(* accounts it names are there, an instruction of the program's own builders is      *)
(* executed exactly if its handler accepts the call (instruction.rs, the builders;   *)
(* processor.rs, Processor::process).                                                *)
THEOREM BuildersAlwaysReach == Spec => []BuildersReachHandlers
  <1>1. MeantInv => BuildersReachHandlers
    <2> SUFFICES ASSUME MeantInv, NEW c \in Calls,
                        \A m \in Range(Single(c).instructions[1].accounts) : Exists(m.key)
                 PROVE  Executed(World, clock, Single(c)) # {} <=> HandlerAccepts(c)
      BY DEF BuildersReachHandlers
    <2> QED BY ExecutedIsAccepted, AcceptedIsExecuted
  <1> QED BY <1>1, ViewsStaySound, PTL

-----------------------------------------------------------------------------
(* Transactions that create accounts and then make a call.  Which accounts they    *)
(* have made so far, and for what price, is carried along their instructions.       *)

\* What create_account makes of a world
Creates(v, x, a, kind) ==
  /\ SoundWorld(x) /\ ViewOf(x) = ViewOf(v)
  /\ x.lamports = v.lamports - Rent[kind]
  /\ x.account[a] = Blanks[kind]
  /\ \A b \in Addresses \ {a} : x.account[b] = v.account[b]

\* An address with nothing there can be given an account, for its rent.
LEMMA CreateAccountExecutes ==
  ASSUME NEW v, SoundWorld(v), NEW now, NEW signers, NEW a \in Addresses, a \in signers,
         v.account[a] = None, NEW kind \in {"Escrow", "TokenAccount"}
  PROVE  LET out == Execute(v, now, signers, NewAccount(a, kind)) IN
         /\ v.lamports \in Nat /\ Rent[kind] \in Nat
         /\ v.lamports < Rent[kind] => out = {}
         /\ v.lamports >= Rent[kind] => \E x : out = {x} /\ Creates(v, x, a, kind)
  <1> DEFINE i == NewAccount(a, kind)
             x == [v EXCEPT !.account[a] = Blanks[kind], !.lamports = @ - Rent[kind]]
             out == Execute(v, now, signers, i)
  <1>1. i.program = "create_account" /\ i.new = a /\ i.kind = kind
    BY DEF NewAccount
  <1> HIDE DEF i
  <1>2. out = CreateAccount(v, signers, i)
    BY <1>1 DEF Execute
  <1>3. v.lamports \in Nat /\ Rent[kind] \in Nat
    BY StartAssumption DEF SoundWorld, WorldAgrees, Solvent
  <1>4. CreateAccount(v, signers, i) = When(v.lamports >= Rent[kind], x)
    BY <1>1 DEF CreateAccount, When
  <1> HIDE DEF out
  <1>5. CASE v.lamports < Rent[kind]
    <2>1. ~(v.lamports >= Rent[kind])
      BY <1>3, <1>5
    <2> QED BY <1>2, <1>3, <1>4, <1>5, <2>1 DEF When, out, i
  <1>6. CASE v.lamports >= Rent[kind]
    <2>1. out = {x}
      BY <1>2, <1>4, <1>6 DEF When
    <2>2. SoundWorld(x) /\ ViewOf(x) = ViewOf(v)
      <3>1. x \in CreateAccount(v, signers, i)
        BY <1>2, <2>1
      <3> HIDE DEF x
      <3> QED BY <1>1, <3>1, CreateAccountUnseen
    <2>3. /\ {"account", "lamports"} \subseteq DOMAIN v
          /\ DOMAIN v.account = Addresses
      BY DEF SoundWorld, WorldInv, WorldAgrees, Solvent
    <2>4. x.account = [v.account EXCEPT ![a] = Blanks[kind]] /\ x.lamports = v.lamports - Rent[kind]
      BY <2>3
    <2> HIDE DEF x
    <2>5. Creates(v, x, a, kind)
      BY <2>2, <2>3, <2>4 DEF Creates
    <2>6. ~(v.lamports < Rent[kind])
      BY <1>3, <1>6
    <2> QED BY <1>3, <2>1, <2>5, <2>6 DEF out, i
  <1> QED BY <1>3, <1>5, <1>6

\* What initialize_account makes of a world
Initializes(v, x, a) ==
  /\ SoundWorld(x) /\ ViewOf(x) = ViewOf(v)
  /\ x.lamports = v.lamports
  /\ Usable(x, a)
  /\ \A b \in Addresses \ {a} : x.account[b] = v.account[b]

\* An instruction takes v there.
InitializesBy(v, now, signers, i, a) ==
  \E x : Execute(v, now, signers, i) = {x} /\ Initializes(v, x, a)

\* A token account of zeros is initialised with the mint and the owner foretold.
LEMMA InitializeAccountExecutes ==
  ASSUME NEW v, SoundWorld(v), NEW now, NEW signers, NEW a \in Addresses,
         v.account[a] = Blanks.TokenAccount, NEW mint \in NativeMints, NEW owner,
         mint = MintOf[a], owner = OwnerOf[a]
  PROVE  InitializesBy(v, now, signers, NewTokenAccount(a, mint, owner)[2], a)
  <1> DEFINE i == NewTokenAccount(a, mint, owner)[2]
             x == [v EXCEPT !.account[a].mint = mint, !.account[a].owner = owner]
             out == Execute(v, now, signers, i)
  <1>1. /\ i.program = "initialize_account" /\ i.account = a /\ i.mint = mint /\ i.owner = owner
    BY DEF NewTokenAccount
  <1> HIDE DEF i
  <1>2. out = InitializeAccount(v, i)
    BY <1>1 DEF Execute
  <1>3. Has(v, mint, "Mint") /\ v.account[mint].initialized
    BY Subsets, RequestsAssumption DEF SoundWorld, WorldAgrees, MintAgrees, Has
  <1>4. InitializeAccount(v, i) = {x}
    BY <1>1, <1>3 DEF InitializeAccount, When
  <1>5. SoundWorld(x) /\ ViewOf(x) = ViewOf(v)
    <2>1. x \in InitializeAccount(v, i)
      BY <1>4
    <2> HIDE DEF x
    <2> QED BY <1>1, <2>1, InitializeAccountUnseen
  <1> DEFINE was == v.account[a]
             made == [[was EXCEPT !.mint = mint] EXCEPT !.owner = owner]
  <1>6. DOMAIN was = {"kind", "mint", "owner", "amount"} /\ was.kind = "TokenAccount"
    BY DEF Blanks
  <1>7. /\ {"account"} \subseteq DOMAIN v /\ DOMAIN v.account = Addresses
        /\ "lamports" \in DOMAIN v
    BY DEF SoundWorld, WorldInv, WorldAgrees, Solvent
  <1>8. /\ x.account = [[v.account EXCEPT ![a] = [@ EXCEPT !.mint = mint]]
                          EXCEPT ![a] = [@ EXCEPT !.owner = owner]]
        /\ x.lamports = v.lamports
    BY <1>7
  <1> HIDE DEF x
  <1>9. x.account[a] = made /\ \A b \in Addresses \ {a} : x.account[b] = v.account[b]
    BY <1>7, <1>8
  <1> HIDE DEF was
  <1>10. made.kind = "TokenAccount" /\ made.mint = mint
    BY <1>6
  <1> HIDE DEF made
  <1>11. mint # NoMint
    BY DefaultsAssumption, RequestsAssumption
  <1>12. Usable(x, a)
    BY <1>9, <1>10, <1>11 DEF Usable, Has
  <1>13. Initializes(v, x, a)
    BY <1>5, <1>8, <1>9, <1>12 DEF Initializes
  <1> QED BY <1>2, <1>4, <1>13 DEF i, InitializesBy

-----------------------------------------------------------------------------
\* v is w with token accounts new and blank, others new and initialised, and new
\* escrow accounts, for a price.
IsPrepared(w, v, price, blank, tokens, escrows) ==
  /\ SoundWorld(v) /\ ViewOf(v) = ViewOf(w)
  /\ v.lamports = w.lamports - price
  /\ \A a \in Addresses \ (blank \cup tokens \cup escrows) : v.account[a] = w.account[a]
  /\ \A a \in blank : a \in Addresses /\ v.account[a] = Blanks.TokenAccount
  /\ \A a \in tokens : Usable(v, a)
  /\ \A a \in escrows : Has(v, a, "Escrow")

\* Preparing takes w to such a world if the fee payer can pay, to none otherwise.
Prepared(w, worlds, price, blank, tokens, escrows) ==
  /\ w.lamports < price => worlds = {}
  /\ w.lamports >= price =>
       \E v : worlds = {v} /\ IsPrepared(w, v, price, blank, tokens, escrows)

\* Nothing is prepared at first.
LEMMA PreparedAtFirst ==
  ASSUME NEW w, SoundWorld(w)
  PROVE  Prepared(w, {w}, 0, {}, {}, {})
  <1>1. w.lamports \in Nat
    BY DEF SoundWorld, WorldAgrees, Solvent
  <1>2. IsPrepared(w, w, 0, {}, {}, {})
    BY <1>1 DEF IsPrepared
  <1>3. ~(w.lamports < 0)
    BY <1>1
  <1> QED BY <1>2, <1>3 DEF Prepared

\* An instruction on one world
LEMMA SteppedOnce ==
  ASSUME NEW v, NEW now, NEW signers, NEW i
  PROVE  /\ Stepped({v}, now, signers, i) = Execute(v, now, signers, i)
         /\ Stepped({}, now, signers, i) = {}
  <1> DEFINE Out(x) == Execute(x, now, signers, i)
  <1>1. \A s : Stepped(s, now, signers, i) = UNION {Out(x) : x \in s}
    BY DEF Stepped
  <1> HIDE DEF Out
  <1>2. UNION {Out(x) : x \in {v}} = Out(v) /\ UNION {Out(x) : x \in {}} = {}
    OBVIOUS
  <1> QED BY <1>1, <1>2 DEF Out

\* One more account is created.
LEMMA OneMoreCreated ==
  ASSUME NEW w, SoundWorld(w), NEW worlds, NEW price \in Nat, NEW blank, NEW tokens, NEW escrows,
         Prepared(w, worlds, price, blank, tokens, escrows), NEW now, NEW signers,
         NEW a \in Addresses, a \in signers, w.account[a] = None,
         a \notin blank \cup tokens \cup escrows, NEW kind \in {"Escrow", "TokenAccount"}
  PROVE  LET after == Stepped(worlds, now, signers, NewAccount(a, kind)) IN
         /\ kind = "TokenAccount" =>
              Prepared(w, after, price + Rent.TokenAccount, blank \cup {a}, tokens, escrows)
         /\ kind = "Escrow" =>
              Prepared(w, after, price + Rent.Escrow, blank, tokens, escrows \cup {a})
  <1> DEFINE i == NewAccount(a, kind)
             after == Stepped(worlds, now, signers, i)
             sum == price + Rent[kind]
             b == IF kind = "TokenAccount" THEN blank \cup {a} ELSE blank
             e == IF kind = "Escrow" THEN escrows \cup {a} ELSE escrows
  <1>1. w.lamports \in Nat /\ Rent[kind] \in Nat
    BY StartAssumption DEF SoundWorld, WorldAgrees, Solvent
  <1>2. ASSUME w.lamports < price
        PROVE  Prepared(w, after, sum, b, tokens, e)
    <2>1. after = {}
      BY <1>2, SteppedOnce DEF Prepared
    <2>2. w.lamports < sum /\ ~(w.lamports >= sum)
      BY <1>1, <1>2
    <2> QED BY <2>1, <2>2 DEF Prepared
  <1>3. ASSUME w.lamports >= price
        PROVE  Prepared(w, after, sum, b, tokens, e)
    <2>1. PICK v : worlds = {v} /\ IsPrepared(w, v, price, blank, tokens, escrows)
      BY <1>3 DEF Prepared
    <2>2. /\ SoundWorld(v) /\ v.account[a] = None
          /\ v.lamports = w.lamports - price
      BY <2>1 DEF IsPrepared
    <2> DEFINE out == Execute(v, now, signers, i)
    <2>3. /\ v.lamports < Rent[kind] => out = {}
          /\ v.lamports >= Rent[kind] => \E x : out = {x} /\ Creates(v, x, a, kind)
      BY <2>2, CreateAccountExecutes
    <2>4. after = out
      BY <2>1, SteppedOnce
    <2>5. /\ v.lamports < Rent[kind] <=> w.lamports < sum
          /\ v.lamports >= Rent[kind] <=> w.lamports >= sum
      BY <1>1, <2>2
    <2>6. ASSUME NEW x, Creates(v, x, a, kind)
          PROVE  IsPrepared(w, x, sum, b, tokens, e)
      <3>1. /\ SoundWorld(x) /\ ViewOf(x) = ViewOf(w)
            /\ x.account[a] = Blanks[kind]
            /\ \A c \in Addresses \ {a} : x.account[c] = v.account[c]
        BY <2>1, <2>6 DEF Creates, IsPrepared
      <3>2. x.lamports = w.lamports - sum
        BY <1>1, <2>2, <2>6 DEF Creates
      <3>3. \A c \in Addresses \ (b \cup tokens \cup e) : x.account[c] = w.account[c]
        BY <2>1, <3>1 DEF IsPrepared
      <3>4. \A c \in b : c \in Addresses /\ x.account[c] = Blanks.TokenAccount
        BY <2>1, <3>1 DEF IsPrepared
      <3>5. \A c \in tokens : Usable(x, c)
        BY <2>1, <3>1 DEF IsPrepared, Usable, Has
      <3>6. \A c \in e : Has(x, c, "Escrow")
        <4>1. kind = "Escrow" => Has(x, a, "Escrow")
          BY <3>1 DEF Has, Blanks
        <4> QED BY <2>1, <3>1, <4>1 DEF IsPrepared, Has
      <3> HIDE DEF b, e, sum
      <3> QED BY <3>1, <3>2, <3>3, <3>4, <3>5, <3>6 DEF IsPrepared
    <2> HIDE DEF after, out, sum, b, e
    <2>7. Prepared(w, after, sum, b, tokens, e)
      BY <2>3, <2>4, <2>5, <2>6 DEF Prepared
    <2> QED BY <2>7 DEF after, sum, b, e
  <1>4. w.lamports < price \/ w.lamports >= price
    BY <1>1
  <1> HIDE DEF after
  <1>5. Prepared(w, after, sum, b, tokens, e)
    BY <1>2, <1>3, <1>4
  <1>6. /\ kind = "TokenAccount" => b = blank \cup {a} /\ e = escrows
        /\ kind = "Escrow" => b = blank /\ e = escrows \cup {a}
    OBVIOUS
  <1> HIDE DEF b, e
  <1> QED BY <1>5, <1>6 DEF after

\* One of the accounts created is initialised.
LEMMA OneMoreInitialized ==
  ASSUME NEW w, SoundWorld(w), NEW worlds, NEW price, NEW blank, NEW tokens, NEW escrows,
         Prepared(w, worlds, price, blank, tokens, escrows), NEW now, NEW signers,
         NEW a \in blank, a \notin tokens \cup escrows, NEW mint \in NativeMints, NEW owner,
         mint = MintOf[a], owner = OwnerOf[a]
  PROVE  Prepared(w, Stepped(worlds, now, signers, NewTokenAccount(a, mint, owner)[2]), price,
                  blank \ {a}, tokens \cup {a}, escrows)
  <1> DEFINE i == NewTokenAccount(a, mint, owner)[2]
             after == Stepped(worlds, now, signers, i)
             rest == blank \ {a}
             more == tokens \cup {a}
  <1>1. ASSUME w.lamports < price
        PROVE  after = {}
    BY <1>1, SteppedOnce DEF Prepared
  <1>2. ASSUME w.lamports >= price
        PROVE  \E x : after = {x} /\ IsPrepared(w, x, price, rest, more, escrows)
    <2>1. PICK v : worlds = {v} /\ IsPrepared(w, v, price, blank, tokens, escrows)
      BY <1>2 DEF Prepared
    <2>2. /\ SoundWorld(v) /\ a \in Addresses /\ v.account[a] = Blanks.TokenAccount
      BY <2>1 DEF IsPrepared
    <2>3. InitializesBy(v, now, signers, i, a)
      BY <2>2, InitializeAccountExecutes
    <2> HIDE DEF i
    <2>4. PICK x : Execute(v, now, signers, i) = {x} /\ Initializes(v, x, a)
      BY <2>3 DEF InitializesBy
    <2>5. after = {x}
      BY <2>1, <2>4, SteppedOnce
    <2>6. /\ SoundWorld(x) /\ ViewOf(x) = ViewOf(w)
          /\ x.lamports = w.lamports - price
          /\ Usable(x, a)
          /\ \A c \in Addresses \ {a} : x.account[c] = v.account[c]
      BY <2>1, <2>4 DEF Initializes, IsPrepared
    <2>7. \A c \in Addresses \ (rest \cup more \cup escrows) : x.account[c] = w.account[c]
      BY <2>1, <2>6 DEF IsPrepared
    <2>8. \A c \in rest : c \in Addresses /\ x.account[c] = Blanks.TokenAccount
      BY <2>1, <2>6 DEF IsPrepared
    <2>9. \A c \in more : Usable(x, c)
      BY <2>1, <2>6 DEF IsPrepared, Usable, Has
    <2>10. \A c \in escrows : Has(x, c, "Escrow")
      BY <2>1, <2>6 DEF IsPrepared, Has
    <2> HIDE DEF rest, more
    <2> QED BY <2>5, <2>6, <2>7, <2>8, <2>9, <2>10 DEF IsPrepared
  <1> HIDE DEF after, rest, more
  <1>3. Prepared(w, after, price, rest, more, escrows)
    BY <1>1, <1>2 DEF Prepared
  <1> QED BY <1>3 DEF after, rest, more

-----------------------------------------------------------------------------
\* The worlds that a list of instructions leads to from w
After(w, now, signers, list) == Executed(w, now, Transaction(list, signers, 0))

\* From a list without instructions to w itself
LEMMA AfterNothing ==
  ASSUME NEW w, NEW now, NEW signers
  PROVE  After(w, now, signers, <<>>) = {w}
  <1> DEFINE tx == Transaction(<<>>, signers, 0)
  <1>1. DOMAIN tx.instructions = 1 .. 0
    BY DEF Transaction
  <1> HIDE DEF tx
  <1>2. PICK run : IsExecution(run, w, now, tx, 0)
    BY <1>1, ExecutionRuns
  <1> QED BY <1>2 DEF IsExecution, After, tx

\* One instruction more is executed on what the others left, for any budget.
LEMMA AfterOneMore ==
  ASSUME NEW w, NEW now, NEW signers, NEW parts, NEW list \in Seq(parts), NEW i \in parts,
         NEW budget
  PROVE  Executed(w, now, Transaction(list \o <<i>>, signers, budget)) =
           Stepped(After(w, now, signers, list), now, signers, i)
  <1> DEFINE one == Transaction(list, signers, 0)
             two == Transaction(list \o <<i>>, signers, budget)
             n == Len(list)
             all == n + 1
  <1>1. /\ n \in Nat /\ all \in Nat /\ all - 1 = n /\ all \in 1 .. all
        /\ \A k \in 1 .. n : k \in 1 .. all
    OBVIOUS
  <1>2. /\ one.signers = signers /\ two.signers = signers
        /\ one.instructions = list /\ two.instructions = list \o <<i>>
    BY DEF Transaction
  <1>3. /\ DOMAIN one.instructions = 1 .. n
        /\ DOMAIN two.instructions = 1 .. all
        /\ \A k \in 1 .. n : two.instructions[k] = one.instructions[k]
        /\ two.instructions[all] = i
    BY <1>2
  <1> HIDE DEF one, two, n, all
  <1>4. PICK before : IsExecution(before, w, now, one, n)
    BY <1>1, <1>3, ExecutionRuns
  <1>5. PICK run : IsExecution(run, w, now, two, all)
    BY <1>1, <1>3, ExecutionRuns
  <1> DEFINE Same == {k \in 0 .. n : run[k] = before[k]}
  <1>6. 0 \in Same
    <2>1. run[0] = before[0]
      BY <1>4, <1>5 DEF IsExecution
    <2>2. 0 \in 0 .. n
      BY <1>1
    <2> QED BY <2>1, <2>2
  <1>7. ASSUME NEW k \in 1 .. n, k - 1 \in Same
        PROVE  k \in Same
    BY <1>1, <1>2, <1>3, <1>4, <1>5, <1>7 DEF IsExecution
  <1> HIDE DEF Same
  <1>8. n \in Same
    <2>1. \A k \in 0 .. n : k \in Same
      BY <1>1, <1>6, <1>7, PrefixInduction
    <2> QED BY <1>1, <2>1
  <1>9. run[all] = Stepped(run[n], now, signers, i) /\ Executed(w, now, two) = run[all]
    BY <1>1, <1>2, <1>3, <1>5 DEF IsExecution
  <1>10. After(w, now, signers, list) = before[n]
    BY <1>4 DEF IsExecution, After, one
  <1> QED BY <1>8, <1>9, <1>10 DEF Same, two

\* And for no budget
LEMMA AfterEach ==
  ASSUME NEW w, NEW now, NEW signers, NEW parts, NEW list \in Seq(parts), NEW i \in parts
  PROVE  After(w, now, signers, list \o <<i>>) =
           Stepped(After(w, now, signers, list), now, signers, i)
  <1> DEFINE longer == list \o <<i>>
             out == Stepped(After(w, now, signers, list), now, signers, i)
  <1>1. Executed(w, now, Transaction(longer, signers, 0)) = out
    BY AfterOneMore
  <1> HIDE DEF longer, out
  <1>2. After(w, now, signers, longer) = out
    BY <1>1 DEF After
  <1> QED BY <1>2 DEF longer, out

\* Two more, as two after one another
LEMMA TwoMore ==
  ASSUME NEW parts, NEW list \in Seq(parts), NEW a \in parts, NEW b \in parts
  PROVE  /\ list \o <<a>> \in Seq(parts)
         /\ list \o <<a, b>> \in Seq(parts)
         /\ list \o <<a, b>> = (list \o <<a>>) \o <<b>>
  <1> DEFINE s == list \o <<a, b>>
             t == (list \o <<a>>) \o <<b>>
             n == Len(list)
  <1>1. <<a, b>> \in Seq(parts) /\ <<a>> \in Seq(parts) /\ <<b>> \in Seq(parts)
    OBVIOUS
  <1>2. list \o <<a>> \in Seq(parts) /\ s \in Seq(parts) /\ t \in Seq(parts)
    BY <1>1
  <1>3. n \in Nat /\ Len(s) = n + 2 /\ Len(t) = n + 2
    OBVIOUS
  <1>4. \A k \in 1 .. n + 2 : s[k] = t[k]
    OBVIOUS
  <1> HIDE DEF s, t, n
  <1>5. s = t
    BY <1>2, <1>3, <1>4, SeqEqual
  <1> QED BY <1>2, <1>5 DEF s, t

\* Sequences of three
LEMMA ThreeInARow ==
  ASSUME NEW parts, NEW a \in parts, NEW b \in parts, NEW c \in parts
  PROVE  <<a, b>> \o <<c>> = <<a, b, c>>
  <1> DEFINE s == <<a, b>> \o <<c>>
             t == <<a, b, c>>
  <1>1. s \in Seq(parts) /\ t \in Seq(parts) /\ Len(s) = 3 /\ Len(t) = 3
    OBVIOUS
  <1>2. s[1] = t[1] /\ s[2] = t[2] /\ s[3] = t[3]
    OBVIOUS
  <1> HIDE DEF s, t
  <1>3. \A i \in 1 .. 3 : s[i] = t[i]
    BY <1>2
  <1>4. s = t
    BY <1>1, <1>3, SeqEqual
  <1> QED BY <1>4 DEF s, t

\* A sequence and another after it
LEMMA OneAfterAnother ==
  ASSUME NEW parts, NEW s \in Seq(parts), NEW t \in Seq(parts)
  PROVE  /\ s \o t \in Seq(parts) /\ Len(s \o t) = Len(s) + Len(t)
         /\ \A k \in 1 .. Len(s) : (s \o t)[k] = s[k]
         /\ \A k \in Len(s) + 1 .. Len(s) + Len(t) : (s \o t)[k] = t[k - Len(s)]
  OBVIOUS

\* A sequence and nothing before it or after it
LEMMA NothingAdded ==
  ASSUME NEW parts, NEW s \in Seq(parts)
  PROVE  <<>> \o s = s /\ s \o <<>> = s
  <1> DEFINE left == <<>> \o s
             right == s \o <<>>
  <1>1. left \in Seq(parts) /\ right \in Seq(parts)
    OBVIOUS
  <1>2. Len(left) = Len(s) /\ Len(right) = Len(s)
    OBVIOUS
  <1>3. \A k \in 1 .. Len(s) : left[k] = s[k] /\ right[k] = s[k]
    OBVIOUS
  <1> HIDE DEF left, right
  <1>4. left = s /\ right = s
    BY <1>1, <1>2, <1>3, SeqEqual
  <1> QED BY <1>4 DEF left, right

\* A sequence of one
LEMMA OneInARow ==
  ASSUME NEW parts, NEW a \in parts
  PROVE  /\ <<>> \in Seq(parts) /\ <<a>> \in Seq(parts)
         /\ <<>> \o <<a>> = <<a>>
  <1>1. <<>> \in Seq(parts) /\ <<a>> \in Seq(parts)
    OBVIOUS
  <1> DEFINE one == <<a>>
  <1> HIDE DEF one
  <1>2. <<>> \o one = one
    BY <1>1, NothingAdded DEF one
  <1> QED BY <1>1, <1>2 DEF one

-----------------------------------------------------------------------------
\* A list of instructions prepares accounts from w.
Prepares(w, now, signers, list, price, blank, tokens, escrows) ==
  Prepared(w, After(w, now, signers, list), price, blank, tokens, escrows)

\* The instructions of NewTokenAccount prepare one more token account.
LEMMA TokenAccountPrepared ==
  ASSUME NEW w, SoundWorld(w), NEW now, NEW signers, NEW parts, NEW list \in Seq(parts),
         NEW price \in Nat, NEW tokens, NEW escrows,
         Prepares(w, now, signers, list, price, {}, tokens, escrows),
         NEW a, NEW mint \in NativeMints, NEW owner, Foretold(a, mint, owner),
         a \in signers, w.account[a] = None, a \notin tokens \cup escrows,
         NewTokenAccount(a, mint, owner)[1] \in parts,
         NewTokenAccount(a, mint, owner)[2] \in parts
  PROVE  /\ list \o NewTokenAccount(a, mint, owner) \in Seq(parts)
         /\ Prepares(w, now, signers, list \o NewTokenAccount(a, mint, owner),
                     price + Rent.TokenAccount, {}, tokens \cup {a}, escrows)
  <1> DEFINE one == NewTokenAccount(a, mint, owner)[1]
             two == NewTokenAccount(a, mint, owner)[2]
             worlds == After(w, now, signers, list)
             middle == After(w, now, signers, list \o <<one>>)
             last == After(w, now, signers, (list \o <<one>>) \o <<two>>)
             paid == price + Rent.TokenAccount
  <1>1. /\ one = NewAccount(a, "TokenAccount")
        /\ NewTokenAccount(a, mint, owner) = <<one, two>>
    BY BlocksAreWellBuilt
  <1>2. /\ list \o <<one>> \in Seq(parts)
        /\ list \o <<one, two>> \in Seq(parts)
        /\ list \o <<one, two>> = (list \o <<one>>) \o <<two>>
    BY TwoMore
  <1>3. a \in Addresses /\ mint = MintOf[a] /\ owner = OwnerOf[a]
    BY Subsets DEF Foretold
  <1>4. middle = Stepped(worlds, now, signers, one)
    BY AfterEach
  <1> HIDE DEF one, worlds
  <1>5. last = Stepped(middle, now, signers, two)
    <2> DEFINE longer == list \o <<one>>
    <2>1. longer \in Seq(parts) /\ two \in parts
      BY <1>2
    <2> HIDE DEF longer, two
    <2>2. After(w, now, signers, longer \o <<two>>) =
            Stepped(After(w, now, signers, longer), now, signers, two)
      BY <2>1, AfterEach
    <2> QED BY <2>2 DEF longer
  <1> HIDE DEF middle, last
  <1>6. Prepared(w, middle, paid, {a}, tokens, escrows)
    <2>1. Prepared(w, worlds, price, {}, tokens, escrows)
      BY DEF Prepares, worlds
    <2>2. Prepared(w, Stepped(worlds, now, signers, NewAccount(a, "TokenAccount")),
                   price + Rent.TokenAccount, {} \cup {a}, tokens, escrows)
      BY <1>3, <2>1, OneMoreCreated
    <2> QED BY <1>1, <1>4, <2>2
  <1>7. Prepared(w, last, paid, {a} \ {a}, tokens \cup {a}, escrows)
    BY <1>3, <1>5, <1>6, OneMoreInitialized
  <1>8. {a} \ {a} = {}
    OBVIOUS
  <1>9. Prepares(w, now, signers, list \o <<one, two>>, paid, {}, tokens \cup {a}, escrows)
    BY <1>2, <1>7, <1>8 DEF Prepares, last
  <1> QED BY <1>1, <1>2, <1>9

\* An account and its authority's token account: what command_create makes first
LEMMA VaultPrepared ==
  ASSUME NEW w, SoundWorld(w), NEW now, NEW signers, NEW a, NEW mint \in NativeMints, NEW owner,
         Foretold(a, mint, owner), NEW e \in Escrows, a # e, {a, e} \subseteq signers,
         w.account[a] = None, w.account[e] = None
  PROVE  LET vault == NewTokenAccount(a, mint, owner)
         IN  Prepares(w, now, signers, <<vault[1], NewAccount(e, "Escrow"), vault[2]>>,
                      Rent.TokenAccount + Rent.Escrow, {}, {a}, {e})
  <1> DEFINE one == NewTokenAccount(a, mint, owner)[1]
             two == NewAccount(e, "Escrow")
             three == NewTokenAccount(a, mint, owner)[2]
             parts == {one, two, three}
             worlds == Stepped({w}, now, signers, one)
             middle == Stepped(worlds, now, signers, two)
             last == Stepped(middle, now, signers, three)
             sum == Rent.TokenAccount + Rent.Escrow
  <1>1. one = NewAccount(a, "TokenAccount")
    BY BlocksAreWellBuilt
  <1>2. /\ a \in Addresses /\ e \in Addresses /\ mint = MintOf[a] /\ owner = OwnerOf[a]
        /\ a \in signers /\ e \in signers
    BY Subsets DEF Foretold
  <1>3. Rent.TokenAccount \in Nat /\ Rent.Escrow \in Nat
    BY StartAssumption
  <1> HIDE DEF one, two, three
  <1>4. After(w, now, signers, <<one, two, three>>) = last
    <2> DEFINE nothing == <<>>
               first == <<one>>
               second == <<one, two>>
    <2>1. one \in parts /\ two \in parts /\ three \in parts
      OBVIOUS
    <2> HIDE DEF parts
    <2>2. /\ nothing \in Seq(parts) /\ first \in Seq(parts)
          /\ nothing \o <<one>> = first
      BY <2>1, OneInARow
    <2>3. second \in Seq(parts) /\ first \o <<two>> = second
      BY <2>1, TwoInARow
    <2>4. second \o <<three>> = <<one, two, three>>
      BY <2>1, ThreeInARow
    <2>5. After(w, now, signers, nothing) = {w}
      BY AfterNothing
    <2> HIDE DEF nothing, first, second
    <2>6. After(w, now, signers, nothing \o <<one>>) =
            Stepped(After(w, now, signers, nothing), now, signers, one)
      BY <2>1, <2>2, AfterEach
    <2>7. After(w, now, signers, first) = worlds
      BY <2>2, <2>5, <2>6
    <2> HIDE DEF worlds
    <2>8. After(w, now, signers, first \o <<two>>) =
            Stepped(After(w, now, signers, first), now, signers, two)
      BY <2>1, <2>2, AfterEach
    <2>9. After(w, now, signers, second) = middle
      BY <2>3, <2>7, <2>8
    <2> HIDE DEF middle
    <2>10. After(w, now, signers, second \o <<three>>) =
            Stepped(After(w, now, signers, second), now, signers, three)
      BY <2>1, <2>3, AfterEach
    <2> QED BY <2>4, <2>9, <2>10
  <1>5. Prepared(w, {w}, 0, {}, {}, {})
    BY PreparedAtFirst
  <1>6. Prepared(w, worlds, Rent.TokenAccount, {a}, {}, {})
    <2>1. Prepared(w, worlds, 0 + Rent.TokenAccount, {} \cup {a}, {}, {})
      BY <1>1, <1>2, <1>5, OneMoreCreated
    <2>2. 0 + Rent.TokenAccount = Rent.TokenAccount /\ {} \cup {a} = {a}
      BY <1>3
    <2> QED BY <2>1, <2>2
  <1> HIDE DEF worlds
  <1>7. Prepared(w, middle, sum, {a}, {}, {e})
    <2>1. Prepared(w, middle, sum, {a}, {}, {} \cup {e})
      BY <1>2, <1>3, <1>6, OneMoreCreated DEF two
    <2>2. {} \cup {e} = {e}
      OBVIOUS
    <2> QED BY <2>1, <2>2
  <1> HIDE DEF middle, sum
  <1>8. Prepared(w, last, sum, {}, {a}, {e})
    <2>1. Prepared(w, last, sum, {a} \ {a}, {} \cup {a}, {e})
      BY <1>2, <1>7, OneMoreInitialized DEF three
    <2>2. {a} \ {a} = {} /\ {} \cup {a} = {a}
      OBVIOUS
    <2> QED BY <2>1, <2>2
  <1> HIDE DEF last
  <1>9. Prepares(w, now, signers, <<one, two, three>>, sum, {}, {a}, {e})
    BY <1>4, <1>8 DEF Prepares
  <1> QED BY <1>9 DEF one, two, three, sum

-----------------------------------------------------------------------------
\* A call that is executed on the accounts prepared for it is executed exactly if the
\* fee payer could pay for them.
LEMMA PaidIsExecuted ==
  ASSUME NEW w, SoundWorld(w), NEW now, NEW signers, NEW parts, NEW list \in Seq(parts),
         NEW price \in Nat, NEW tokens, NEW escrows,
         Prepares(w, now, signers, list, price, {}, tokens, escrows), NEW i \in parts,
         \A v : IsPrepared(w, v, price, {}, tokens, escrows) => Execute(v, now, signers, i) # {}
  PROVE  w.lamports >= price <=>
           Executed(w, now, Transaction(list \o <<i>>, signers, price)) # {}
  <1> DEFINE worlds == After(w, now, signers, list)
             all == Executed(w, now, Transaction(list \o <<i>>, signers, price))
  <1>1. all = Stepped(worlds, now, signers, i)
    BY AfterOneMore
  <1>2. Prepared(w, worlds, price, {}, tokens, escrows)
    BY DEF Prepares
  <1> HIDE DEF worlds, all
  <1>3. w.lamports \in Nat
    BY DEF SoundWorld, WorldAgrees, Solvent
  <1>4. ASSUME w.lamports < price
        PROVE  all = {} /\ ~(w.lamports >= price)
    BY <1>1, <1>2, <1>3, <1>4, SteppedOnce DEF Prepared
  <1>5. ASSUME w.lamports >= price
        PROVE  all # {}
    <2>1. PICK v : worlds = {v} /\ IsPrepared(w, v, price, {}, tokens, escrows)
      BY <1>2, <1>5 DEF Prepared
    <2>2. all = Execute(v, now, signers, i)
      BY <1>1, <2>1, SteppedOnce
    <2> QED BY <2>1, <2>2
  <1>6. w.lamports >= price <=> all # {}
    BY <1>3, <1>4, <1>5
  <1> QED BY <1>6 DEF all

\* An account of the right mint, if one is given
GivenAccountHolds(w, a, mint) ==
  a = NoAccount \/ (Has(w, a, "TokenAccount") /\ w.account[a].mint = mint)

\* Such an account can be used.
LEMMA GivenIsUsable ==
  ASSUME NEW w, SoundWorld(w), NEW a \in TokenAccounts, a # NoAccount, NEW mint \in NativeMints,
         GivenAccountHolds(w, a, mint)
  PROVE  Usable(w, a) /\ MintOf[a] = mint
  <1>1. mint # NoMint
    BY DefaultsAssumption, RequestsAssumption
  <1>2. Usable(w, a)
    BY <1>1 DEF GivenAccountHolds, Usable
  <1>3. MintIn(w)[a] = mint
    BY Subsets DEF GivenAccountHolds, MintIn
  <1> QED BY <1>2, <1>3, UsableAccounts

\* What can be used can still be used after a preparation.
LEMMA StillUsable ==
  ASSUME NEW w, NEW v, NEW price, NEW tokens, NEW escrows,
         IsPrepared(w, v, price, {}, tokens, escrows),
         \A a \in tokens : w.account[a] = None, \A a \in escrows : w.account[a] = None
  PROVE  /\ \A a : Usable(w, a) => Usable(v, a)
         /\ \A kind \in {"Escrow", "Factory"} : \A a : Has(w, a, kind) => Has(v, a, kind)
  <1>1. None.kind \notin {"TokenAccount", "Escrow", "Factory"}
    BY DEF None
  <1>2. \A a \in Addresses : w.account[a] # None => v.account[a] = w.account[a]
    BY DEF IsPrepared
  <1> QED BY <1>1, <1>2 DEF Usable, Has

\* A factory of some version is there.
LEMMA FactoriesAreThere ==
  ASSUME NEW w, NEW f \in Factories, FactoryInitialized(ViewOf(w).version[f])
  PROVE  Has(w, f, "Factory")
  BY DEF ViewOf, FactoryInitialized

\* An escrow that is not there yet is not initialised.
LEMMA NothingIsInitialized ==
  ASSUME NEW w, NEW e \in Escrows, w.account[e] = None
  PROVE  ~EscrowInitialized(ViewOf(w).escrow[e])
  <1>1. EscrowIn(w, e) = {}
    BY DEF EscrowIn, Has, None
  <1>2. ViewOf(w).escrow[e] = BlankEscrow
    BY <1>1 DEF ViewOf
  <1> QED BY <1>2 DEF EscrowInitialized, BlankEscrow

\* An Initialize that is accepted is executed.
LEMMA InitializeIsExecuted ==
  ASSUME NEW w, SoundWorld(w), NEW now, NEW signers, NEW n, FitsBuilder("Initialize", n),
         "trusted_handler" \notin DOMAIN n, RolesThere(w, "Initialize", n),
         InitializeAccepts(n.escrow, ViewOf(w).escrow[n.escrow], ViewOf(w).version[n.factory], n)
  PROVE  Execute(w, now, signers, Escrow("Initialize", n)) # {}
  <1>1. PICK u : Understood(Escrow("Initialize", n)) = {u} /\ Sees(u, "Initialize", n)
    BY CallsAreUnderstood
  <1>2. Reaches(w, now, u, "Initialize", n)
    BY <1>1, InitializeReaches
  <1> QED BY <1>1, <1>2, CallExecutes

\* A Setup that is accepted is executed if its handler signs.
LEMMA SetupIsExecuted ==
  ASSUME NEW w, SoundWorld(w), NEW now, NEW signers, NEW n, FitsBuilder("Setup", n),
         n.trusted_handler \in signers, RolesThere(w, "Setup", n),
         SetupAccepts(ViewOf(w).escrow[n.escrow], now, ByHandler(n), n)
  PROVE  Execute(w, now, signers, Escrow("Setup", n)) # {}
  <1>1. PICK u : Understood(Escrow("Setup", n)) = {u} /\ Sees(u, "Setup", n)
    BY CallsAreUnderstood
  <1>2. Reaches(w, now, u, "Setup", n)
    BY <1>1, SetupReaches
  <1> QED BY <1>1, <1>2, CallExecutes

\* What creates an account in a transaction creates it at a new address.
LEMMA CreatedIsNew ==
  ASSUME NEW tx, NEW k \in DOMAIN tx.instructions, NEW a, NEW kind,
         tx.instructions[k] = NewAccount(a, kind)
  PROVE  a \in NewAddresses(tx)
  <1>1. tx.instructions[k].program = "create_account" /\ tx.instructions[k].new = a
    BY DEF NewAccount
  <1> QED BY <1>1 DEF NewAddresses

\* So it is for the accounts of command_create.
LEMMA CreateAddresses ==
  ASSUME NEW r
  PROVE  /\ {r.token_account, r.escrow} \subseteq NewAddresses(CommandCreate(r))
         /\ r.canceler_token = NoAccount =>
              r.canceler_token_account \in NewAddresses(CommandCreate(r))
  <1> DEFINE creates == r.canceler_token = NoAccount
             one == NewAccount(r.token_account, "TokenAccount")
             blank == NewAccount(r.escrow, "Escrow")
             vault == NewTokenAccount(r.token_account, r.token_mint, Authority[r.escrow])
             two == vault[2]
             other == NewAccount(r.canceler_token_account, "TokenAccount")
             refund == NewTokenAccount(r.canceler_token_account, r.token_mint, r.canceler)
             three == refund[2]
             last == Escrow("Initialize", CreateNames(r))
             head == <<one, blank, two>>
             middle == IF creates THEN refund ELSE <<>>
             tx == CommandCreate(r)
             parts == {one, two, three, blank, other, last}
  <1>1. vault[1] = one /\ refund = <<other, three>>
    BY BlocksAreWellBuilt
  <1>2. tx.instructions = (head \o middle) \o <<last>>
    BY <1>1 DEF CommandCreate, Transaction
  <1> HIDE DEF one, two, three, blank, other, last, creates, tx, refund
  <1>3. head \in Seq(parts) /\ Len(head) = 3 /\ head[1] = one /\ head[2] = blank
    OBVIOUS
  <1>4. <<last>> \in Seq(parts) /\ <<>> \in Seq(parts)
    OBVIOUS
  <1>5. <<other, three>> \in Seq(parts) /\ Len(<<other, three>>) = 2 /\ <<other, three>>[1] = other
    OBVIOUS
  <1>6. middle \in Seq(parts) /\ (creates => Len(middle) = 2 /\ middle[1] = other)
    <2> HIDE DEF parts
    <2> QED BY <1>1, <1>4, <1>5
  <1> HIDE DEF parts, head, middle
  <1>7. /\ 1 \in DOMAIN tx.instructions /\ tx.instructions[1] = one
        /\ 2 \in DOMAIN tx.instructions /\ tx.instructions[2] = blank
        /\ creates => 4 \in DOMAIN tx.instructions /\ tx.instructions[4] = other
    <2> DEFINE most == head \o middle
               m == Len(middle)
               ending == <<last>>
    <2>1. m \in Nat /\ 1 \in 1 .. 3 /\ 2 \in 1 .. 3 /\ (m = 2 => 4 \in 1 .. 3 + m /\ 4 - 3 = 1)
      BY <1>6
    <2>2. /\ most \in Seq(parts) /\ Len(most) = Len(head) + m
          /\ \A k \in 1 .. Len(head) : most[k] = head[k]
          /\ \A k \in Len(head) + 1 .. Len(head) + m : most[k] = middle[k - Len(head)]
      BY <1>3, <1>6, OneAfterAnother
    <2> HIDE DEF most
    <2>3. /\ most \in Seq(parts) /\ m \in Nat /\ Len(most) = 3 + m
          /\ most[1] = one /\ most[2] = blank
      BY <1>3, <2>1, <2>2
    <2>4. creates => most[4] = other /\ m = 2
      <3>1. creates => m = 2 /\ middle[1] = other
        BY <1>6
      <3> HIDE DEF m
      <3> QED BY <1>3, <2>1, <2>2, <3>1
    <2>5. ending \in Seq(parts)
      BY <1>4
    <2> HIDE DEF most, m, ending
    <2>6. /\ Len(most \o ending) >= Len(most)
          /\ \A k \in 1 .. Len(most) : k \in DOMAIN (most \o ending) /\ (most \o ending)[k] = most[k]
      BY <2>3, <2>5
    <2>7. 1 \in 1 .. Len(most) /\ 2 \in 1 .. Len(most) /\ (creates => 4 \in 1 .. Len(most))
      BY <2>3, <2>4
    <2> QED BY <1>2, <2>3, <2>4, <2>6, <2>7 DEF most, ending
  <1> QED BY <1>7, CreatedIsNew DEF one, blank, other, creates, tx

\* The mints there are those there at the start.
LEMMA MintsAreNative ==
  ASSUME NEW w, SoundWorld(w), NEW mint, Has(w, mint, "Mint")
  PROVE  mint \in NativeMints
  BY DEF SoundWorld, WorldAgrees, MintAgrees, Has

\* The names of a command_create
LEMMA CreateNamesFit ==
  ASSUME NEW r \in CreateRequests
  PROVE  /\ FitsBuilder("Initialize", CreateNames(r))
         /\ r.escrow \in Escrows /\ r.factory \in Factories /\ r.token_account \in TokenAccounts
         /\ RefundAccount(r) \in TokenAccounts
         /\ Foretold(r.token_account, r.token_mint, Authority[r.escrow])
         /\ r.canceler_token = NoAccount =>
              Foretold(r.canceler_token_account, r.token_mint, r.canceler)
         /\ "trusted_handler" \notin DOMAIN CreateNames(r)
  <1>1. CreateNames(r) \in InitializeNames
    BY DEF InitializeNames
  <1> DEFINE n == CreateNames(r)
  <1>2. /\ n.escrow = r.escrow /\ n.factory = r.factory /\ n.token_account = r.token_account
        /\ n.canceler_token_account = RefundAccount(r)
        /\ "trusted_handler" \notin DOMAIN n
    BY DEF CreateNames
  <1> HIDE DEF n
  <1> QED BY <1>1, <1>2, InitializeNamesFit, RequestsAssumption DEF n

\* On the accounts that command_create prepares, its call is executed.
LEMMA CreateCallIsExecuted ==
  ASSUME NEW w, SoundWorld(w), NEW now, NEW signers, NEW r \in CreateRequests,
         FactoryInitialized(ViewOf(w).version[r.factory]), r.token_mint \in NativeMints,
         GivenAccountHolds(w, r.canceler_token, r.token_mint), r.duration # 0,
         NEW price, NEW tokens, NEW v, IsPrepared(w, v, price, {}, tokens, {r.escrow}),
         \A a \in tokens \cup {r.escrow} : w.account[a] = None,
         r.token_account \in tokens,
         r.canceler_token = NoAccount => r.canceler_token_account \in tokens
  PROVE  Execute(v, now, signers, Escrow("Initialize", CreateNames(r))) # {}
  <1> DEFINE n == CreateNames(r)
             refund == RefundAccount(r)
  <1>1. /\ n.escrow = r.escrow /\ n.factory = r.factory /\ n.token_account = r.token_account
        /\ n.canceler_token_account = refund /\ n.token_mint = r.token_mint
        /\ n.duration = r.duration
    BY DEF CreateNames
  <1>2. /\ FitsBuilder("Initialize", n) /\ "trusted_handler" \notin DOMAIN n
        /\ r.escrow \in Escrows /\ r.factory \in Factories /\ refund \in TokenAccounts
        /\ Foretold(r.token_account, r.token_mint, Authority[r.escrow])
        /\ r.canceler_token = NoAccount =>
             Foretold(r.canceler_token_account, r.token_mint, r.canceler)
    BY CreateNamesFit
  <1>3. SoundWorld(v) /\ ViewOf(v) = ViewOf(w)
    BY DEF IsPrepared
  <1>4. Usable(v, refund) /\ MintOf[refund] = r.token_mint
    <2>1. CASE r.canceler_token = NoAccount
      BY <1>2, <2>1 DEF RefundAccount, IsPrepared, Foretold
    <2>2. CASE r.canceler_token # NoAccount
      <3>1. refund = r.canceler_token
        BY <2>2 DEF RefundAccount
      <3>2. Usable(w, refund) /\ MintOf[refund] = r.token_mint
        BY <1>2, <2>2, <3>1, GivenIsUsable
      <3> QED BY <3>2, StillUsable
    <2> QED BY <2>1, <2>2
  <1>5. Usable(v, r.token_account) /\ Has(v, r.escrow, "Escrow") /\ Has(v, r.factory, "Factory")
    BY <1>2, FactoriesAreThere, StillUsable DEF IsPrepared
  <1> HIDE DEF n, refund
  <1>6. RolesThere(v, "Initialize", n)
    BY <1>1, <1>4, <1>5 DEF RolesThere, Needs
  <1>7. InitializeAccepts(n.escrow, ViewOf(v).escrow[n.escrow], ViewOf(v).version[n.factory], n)
    BY <1>1, <1>2, <1>3, <1>4, NothingIsInitialized DEF InitializeAccepts, Foretold
  <1>8. Execute(v, now, signers, Escrow("Initialize", n)) # {}
    BY <1>2, <1>3, <1>6, <1>7, InitializeIsExecuted
  <1> QED BY <1>8 DEF n

\* What command_create is for: a factory, a mint, the refund account if one is given, a
\* duration, and nothing at the addresses of new keys.
CanCreate(w, r) ==
  /\ FactoryInitialized(ViewOf(w).version[r.factory])
  /\ Has(w, r.token_mint, "Mint")
  /\ GivenAccountHolds(w, r.canceler_token, r.token_mint)
  /\ r.duration # 0
  /\ \A a \in NewAddresses(CommandCreate(r)) : w.account[a] = None

\* Then it is executed exactly if the fee payer has its budget.
LEMMA CommandCreateIsExecuted ==
  ASSUME NEW w, SoundWorld(w), NEW now, NEW r \in CreateRequests, CanCreate(w, r)
  PROVE  w.lamports >= CommandCreate(r).budget <=> Executed(w, now, CommandCreate(r)) # {}
  <1> DEFINE creates == r.canceler_token = NoAccount
             vault == NewTokenAccount(r.token_account, r.token_mint, Authority[r.escrow])
             refund == NewTokenAccount(r.canceler_token_account, r.token_mint, r.canceler)
             blank == NewAccount(r.escrow, "Escrow")
             call == Escrow("Initialize", CreateNames(r))
             parts == {vault[1], vault[2], blank, refund[1], refund[2], call}
             head == <<vault[1], blank, vault[2]>>
             middle == IF creates THEN refund ELSE <<>>
             signers == {r.payer, r.token_account, r.escrow}
                          \cup (IF creates THEN {r.canceler_token_account} ELSE {})
             tokens == {r.token_account} \cup (IF creates THEN {r.canceler_token_account} ELSE {})
             first == Rent.TokenAccount + Rent.Escrow
             price == CreateBudget(r)
             tx == CommandCreate(r)
  <1>1. tx = Transaction((head \o middle) \o <<call>>, signers, price) /\ tx.budget = price
    BY DEF CommandCreate, Transaction
  <1>2. /\ r.escrow \in Escrows
        /\ Foretold(r.token_account, r.token_mint, Authority[r.escrow])
        /\ creates => Foretold(r.canceler_token_account, r.token_mint, r.canceler)
    BY CreateNamesFit
  <1>3. r.token_mint \in NativeMints
    BY MintsAreNative DEF CanCreate
  <1>4. \A a \in tokens \cup {r.escrow} : w.account[a] = None
    BY CreateAddresses DEF CanCreate
  <1>5. /\ r.token_account # r.escrow
        /\ creates => r.canceler_token_account \notin {r.token_account, r.escrow}
    BY NewKeysAssumption
  <1>6. Rent.TokenAccount \in Nat /\ Rent.Escrow \in Nat
    BY StartAssumption
  <1>7. price = first + (IF creates THEN Rent.TokenAccount ELSE 0) /\ price \in Nat /\ first \in Nat
    BY <1>6 DEF CreateBudget
  <1>8. /\ call \in parts /\ head \in Seq(parts) /\ vault[1] \in parts /\ vault[2] \in parts
        /\ refund[1] \in parts /\ refund[2] \in parts
    <2> HIDE DEF call
    <2> QED OBVIOUS
  <1> HIDE DEF call, tx, price
  <1>9. head \o middle \in Seq(parts) /\
        Prepares(w, now, signers, head \o middle, price, {}, tokens, {r.escrow})
    <2>1. Prepares(w, now, signers, head, first, {}, {r.token_account}, {r.escrow})
      <3>1. {r.token_account, r.escrow} \subseteq signers
        OBVIOUS
      <3> HIDE DEF signers
      <3> QED BY <1>2, <1>3, <1>4, <1>5, <3>1, VaultPrepared
    <2>2. CASE creates
      <3>1. r.canceler_token_account \in signers
        BY <2>2
      <3>2. middle = refund /\ tokens = {r.token_account} \cup {r.canceler_token_account}
        BY <2>2
      <3>3. price = first + Rent.TokenAccount
        BY <1>7, <2>2
      <3> HIDE DEF signers, parts, head, middle, tokens, first
      <3>4. /\ head \o refund \in Seq(parts)
            /\ Prepares(w, now, signers, head \o refund, first + Rent.TokenAccount, {},
                        {r.token_account} \cup {r.canceler_token_account}, {r.escrow})
        <4>1. /\ w.account[r.canceler_token_account] = None
              /\ r.canceler_token_account \notin {r.token_account} \cup {r.escrow}
          BY <1>4, <1>5, <2>2, <3>2
        <4>2. Foretold(r.canceler_token_account, r.token_mint, r.canceler)
          BY <1>2, <2>2
        <4> QED BY <1>3, <1>7, <1>8, <2>1, <3>1, <4>1, <4>2, TokenAccountPrepared
      <3> QED BY <3>2, <3>3, <3>4
    <2>3. CASE ~creates
      <3>1. middle = <<>> /\ tokens = {r.token_account} /\ price = first
        BY <1>7, <2>3
      <3> HIDE DEF signers, parts, head, middle, tokens, first
      <3>2. head \o middle = head
        BY <1>8, <3>1, NothingAdded
      <3> QED BY <1>8, <2>1, <3>1, <3>2
    <2> QED BY <2>2, <2>3
  <1>10. \A v : IsPrepared(w, v, price, {}, tokens, {r.escrow}) =>
                  Execute(v, now, signers, call) # {}
    <2> SUFFICES ASSUME NEW v, IsPrepared(w, v, price, {}, tokens, {r.escrow})
                 PROVE  Execute(v, now, signers, call) # {}
      OBVIOUS
    <2>1. r.token_account \in tokens /\ (creates => r.canceler_token_account \in tokens)
      OBVIOUS
    <2> HIDE DEF tokens, signers
    <2> QED BY <1>3, <1>4, <2>1, CreateCallIsExecuted DEF CanCreate, call
  <1> DEFINE list == head \o middle
  <1> HIDE DEF list, tokens, signers, parts
  <1>11. w.lamports >= price <=> Executed(w, now, Transaction(list \o <<call>>, signers, price)) # {}
    <2>1. list \in Seq(parts) /\ Prepares(w, now, signers, list, price, {}, tokens, {r.escrow})
      BY <1>9 DEF list
    <2> QED BY <1>7, <1>8, <1>10, <2>1, PaidIsExecuted
  <1> QED BY <1>1, <1>11 DEF list, tx

\* What it writes is the escrow it was asked for.
LEMMA CommandCreateStores ==
  ASSUME NEW w, SoundWorld(w), NEW now, NEW r \in CreateRequests,
         NEW result \in Executed(w, now, CommandCreate(r))
  PROVE  ViewOf(result).escrow[r.escrow] = InitializeWrites(now, CreateNames(r))
  <1> DEFINE n == CreateNames(r)
             esc == InitializeWrites(now, n)
  <1>1. /\ Calling(CommandCreate(r), "Initialize", n) /\ FitsBuilder("Initialize", n)
        /\ n \in InitializeNames
    BY CreateRequestCalls DEF InitializeNames
  <1>2. n.escrow = r.escrow /\ r.escrow \in Escrows
    BY CreateNamesFit DEF CreateNames
  <1> HIDE DEF n
  <1>3. Meant(now, ViewOf(w), ViewOf(result), "Initialize", n)
    BY <1>1, CallingMeans
  <1> HIDE DEF esc
  <1>4. ViewOf(result).escrow = [ViewOf(w).escrow EXCEPT ![r.escrow] = esc]
    BY <1>2, <1>3 DEF Meant, Stores, esc
  <1>5. DOMAIN ViewOf(w).escrow = Escrows
    BY DEF ViewOf
  <1>6. ViewOf(result).escrow[r.escrow] = esc
    BY <1>2, <1>4, <1>5
  <1> QED BY <1>6 DEF esc, n

\* A set of two
LEMMA TwoElements ==
  ASSUME NEW x, NEW y, x # y
  PROVE  Cardinality({x, y}) = 2
  <1>1. IsFiniteSet({x}) /\ Cardinality({x}) = 1 /\ y \notin {x}
    BY FS_Singleton
  <1>2. Cardinality({x} \cup {y}) = 1 + 1
    BY <1>1, FS_AddElement
  <1>3. {x} \cup {y} = {x, y}
    OBVIOUS
  <1> QED BY <1>2, <1>3

\* The fee accounts that command_setup has to create
NewFeeAccount(token, a) == IF token = NoAccount THEN {a} ELSE {}
FeeRent(token) == IF token = NoAccount THEN Rent.TokenAccount ELSE 0

\* If none is given, one can be created, by instructions among some.
CanAddFeeAccount(w, signers, parts, tokens, token, a, mint, owner) ==
  token = NoAccount =>
    /\ Foretold(a, mint, owner) /\ a \in signers
    /\ w.account[a] = None /\ a \notin tokens
    /\ NewTokenAccount(a, mint, owner)[1] \in parts
    /\ NewTokenAccount(a, mint, owner)[2] \in parts

\* Its instructions for one of them prepare it.
LEMMA FeeAccountPrepared ==
  ASSUME NEW w, SoundWorld(w), NEW now, NEW signers, NEW parts, NEW list \in Seq(parts),
         NEW price \in Nat, NEW tokens,
         Prepares(w, now, signers, list, price, {}, tokens, {}),
         NEW token, NEW a, NEW mint \in NativeMints, NEW owner,
         CanAddFeeAccount(w, signers, parts, tokens, token, a, mint, owner)
  PROVE  /\ list \o FeeAccount(token, a, mint, owner) \in Seq(parts)
         /\ Prepares(w, now, signers, list \o FeeAccount(token, a, mint, owner),
                     price + FeeRent(token), {}, tokens \cup NewFeeAccount(token, a), {})
         /\ price + FeeRent(token) \in Nat
  <1> DEFINE all == list \o FeeAccount(token, a, mint, owner)
  <1>1. Rent.TokenAccount \in Nat
    BY StartAssumption
  <1>2. CASE token = NoAccount
    <2>1. FeeAccount(token, a, mint, owner) = NewTokenAccount(a, mint, owner)
      BY <1>2 DEF FeeAccount
    <2>2. FeeRent(token) = Rent.TokenAccount /\ NewFeeAccount(token, a) = {a}
      BY <1>2 DEF FeeRent, NewFeeAccount
    <2>3. a \notin tokens \cup {}
      BY <1>2 DEF CanAddFeeAccount
    <2>4. /\ list \o NewTokenAccount(a, mint, owner) \in Seq(parts)
          /\ Prepares(w, now, signers, list \o NewTokenAccount(a, mint, owner),
                      price + Rent.TokenAccount, {}, tokens \cup {a}, {})
      BY <1>2, <2>3, TokenAccountPrepared DEF CanAddFeeAccount
    <2>5. price + Rent.TokenAccount \in Nat
      BY <1>1
    <2> QED BY <2>1, <2>2, <2>4, <2>5
  <1>3. CASE token # NoAccount
    <2>1. FeeAccount(token, a, mint, owner) = <<>>
      BY <1>3 DEF FeeAccount
    <2>2. FeeRent(token) = 0 /\ NewFeeAccount(token, a) = {}
      BY <1>3 DEF FeeRent, NewFeeAccount
    <2>3. list \o <<>> = list
      BY NothingAdded
    <2>4. price + 0 = price /\ tokens \cup {} = tokens
      OBVIOUS
    <2> QED BY <2>1, <2>2, <2>3, <2>4
  <1> QED BY <1>2, <1>3

\* The addresses of the accounts it creates
LEMMA SetupAddresses ==
  ASSUME NEW r, NEW mint
  PROVE  NewFeeAccount(r.reputation_oracle_token, r.reputation_oracle_token_account)
           \cup NewFeeAccount(r.recording_oracle_token, r.recording_oracle_token_account)
           \subseteq NewAddresses(CommandSetup(r, mint))
  <1> DEFINE one == r.reputation_oracle_token = NoAccount
             two == r.recording_oracle_token = NoAccount
             rep == NewTokenAccount(r.reputation_oracle_token_account, mint, r.reputation_oracle)
             rec == NewTokenAccount(r.recording_oracle_token_account, mint, r.recording_oracle)
             new1 == NewAccount(r.reputation_oracle_token_account, "TokenAccount")
             new2 == NewAccount(r.recording_oracle_token_account, "TokenAccount")
             last == Escrow("Setup", SetupNames(r))
             first == IF one THEN rep ELSE <<>>
             second == IF two THEN rec ELSE <<>>
             tx == CommandSetup(r, mint)
             parts == {rep[1], rep[2], rec[1], rec[2], last}
  <1>1. rep = <<new1, rep[2]>> /\ rec = <<new2, rec[2]>> /\ rep[1] = new1 /\ rec[1] = new2
    BY BlocksAreWellBuilt
  <1>2. tx.instructions = (first \o second) \o <<last>>
    BY DEF CommandSetup, Transaction, FeeAccount
  <1> HIDE DEF rep, rec, new1, new2, last, one, two, tx
  <1>3. /\ <<rep[1], rep[2]>> \in Seq(parts) /\ Len(<<rep[1], rep[2]>>) = 2
        /\ <<rec[1], rec[2]>> \in Seq(parts) /\ Len(<<rec[1], rec[2]>>) = 2
        /\ <<last>> \in Seq(parts) /\ <<>> \in Seq(parts)
    OBVIOUS
  <1> HIDE DEF parts
  <1>4. /\ first \in Seq(parts) /\ second \in Seq(parts)
        /\ one => Len(first) = 2 /\ first[1] = new1
        /\ two => Len(second) = 2 /\ second[1] = new2
    BY <1>1, <1>3
  <1> DEFINE most == first \o second
             ending == <<last>>
             all == most \o ending
             f == Len(first)
             s == Len(second)
  <1>5. f \in Nat /\ s \in Nat
    BY <1>4
  <1>6. /\ most \in Seq(parts) /\ Len(most) = f + s
        /\ \A k \in 1 .. f : most[k] = first[k]
        /\ \A k \in f + 1 .. f + s : most[k] = second[k - f]
    <2> HIDE DEF first, second
    <2> QED BY <1>4, OneAfterAnother
  <1>7. one => 1 \in 1 .. f + s /\ most[1] = new1
    <2>1. one => 1 \in 1 .. f /\ 1 \in 1 .. f + s
      BY <1>4, <1>5
    <2> HIDE DEF most
    <2> QED BY <1>4, <1>6, <2>1
  <1>8. two => f + 1 \in 1 .. f + s /\ most[f + 1] = new2
    <2>1. two => f + 1 \in f + 1 .. f + s /\ f + 1 \in 1 .. f + s /\ (f + 1) - f = 1
      BY <1>4, <1>5
    <2> HIDE DEF most
    <2> QED BY <1>4, <1>6, <2>1
  <1> HIDE DEF first, second, most, f, s
  <1>9. \A k \in 1 .. f + s : k \in DOMAIN all /\ all[k] = most[k]
    <2> HIDE DEF ending
    <2>1. ending \in Seq(parts)
      BY <1>3 DEF ending
    <2>2. \A k \in 1 .. Len(most) : k \in DOMAIN all /\ all[k] = most[k]
      BY <1>6, <2>1
    <2> QED BY <1>6, <2>2
  <1>10. tx.instructions = all
    BY <1>2 DEF most, first, second
  <1> HIDE DEF all
  <1>11. one => r.reputation_oracle_token_account \in NewAddresses(tx)
    BY <1>7, <1>9, <1>10, CreatedIsNew DEF new1
  <1>12. two => r.recording_oracle_token_account \in NewAddresses(tx)
    BY <1>8, <1>9, <1>10, CreatedIsNew DEF new2
  <1> QED BY <1>11, <1>12 DEF NewFeeAccount, one, two, tx

\* What it asks the fee payer for: the rent of the accounts it creates
LEMMA SetupBudget ==
  ASSUME NEW r \in SetupRequests, NEW mint
  PROVE  CommandSetup(r, mint).budget =
           (0 + FeeRent(r.reputation_oracle_token)) + FeeRent(r.recording_oracle_token)
  <1> DEFINE one == r.reputation_oracle_token = NoAccount
             two == r.recording_oracle_token = NoAccount
             x == <<r.reputation_oracle_token, r.reputation_oracle_token_account>>
             y == <<r.recording_oracle_token, r.recording_oracle_token_account>>
             fresh == {p \in {x, y} : p[1] = NoAccount}
             rent == Rent.TokenAccount
  <1>1. CommandSetup(r, mint).budget = Cardinality(fresh) * rent
    BY DEF CommandSetup, Transaction
  <1>2. (x[1] = NoAccount <=> one) /\ (y[1] = NoAccount <=> two)
    OBVIOUS
  <1>3. one /\ two => x # y
    <2>1. one /\ two => r.reputation_oracle_token_account # r.recording_oracle_token_account
      BY NewKeysAssumption
    <2> QED BY <2>1
  <1>4. rent \in Nat
    BY StartAssumption
  <1>5. /\ FeeRent(r.reputation_oracle_token) = IF one THEN rent ELSE 0
        /\ FeeRent(r.recording_oracle_token) = IF two THEN rent ELSE 0
    BY DEF FeeRent
  <1> HIDE DEF x, y, one, two, rent
  <1>6. CASE one /\ two
    <2>1. fresh = {x, y}
      BY <1>2, <1>6
    <2>2. Cardinality(fresh) = 2
      BY <1>3, <1>6, <2>1, TwoElements
    <2> HIDE DEF fresh
    <2> QED BY <1>1, <1>4, <1>5, <1>6, <2>2
  <1>7. CASE one /\ ~two
    <2>1. fresh = {x}
      BY <1>2, <1>7
    <2>2. Cardinality(fresh) = 1
      BY <2>1, FS_Singleton
    <2> HIDE DEF fresh
    <2> QED BY <1>1, <1>4, <1>5, <1>7, <2>2
  <1>8. CASE ~one /\ two
    <2>1. fresh = {y}
      BY <1>2, <1>8
    <2>2. Cardinality(fresh) = 1
      BY <2>1, FS_Singleton
    <2> HIDE DEF fresh
    <2> QED BY <1>1, <1>4, <1>5, <1>8, <2>2
  <1>9. CASE ~one /\ ~two
    <2>1. fresh = {}
      BY <1>2, <1>9
    <2>2. Cardinality(fresh) = 0
      BY <2>1, FS_EmptySet
    <2> HIDE DEF fresh
    <2> QED BY <1>1, <1>4, <1>5, <1>9, <2>2
  <1> QED BY <1>6, <1>7, <1>8, <1>9

\* What command_setup is for: a launched escrow its owner may set up, stakes that are
\* shares, the fee accounts if they are given, and nothing at the addresses of new keys.
CanSetup(w, now, r) ==
  LET esc == ViewOf(w).escrow[r.escrow]
  IN  /\ StateCheck(esc, now, [key |-> r.owner, is_signer |-> TRUE], {"Launched"})
      /\ r.reputation_oracle_stake + r.recording_oracle_stake \in 1 .. 100
      /\ GivenAccountHolds(w, r.reputation_oracle_token, esc.token_mint)
      /\ GivenAccountHolds(w, r.recording_oracle_token, esc.token_mint)
      /\ \A a \in NewAddresses(CommandSetup(r, esc.token_mint)) : w.account[a] = None

\* The names of a command_setup
LEMMA SetupNamesFit ==
  ASSUME NEW r \in SetupRequests
  PROVE  LET n == SetupNames(r) IN
         /\ FitsBuilder("Setup", n)
         /\ n.escrow = r.escrow /\ n.trusted_handler = r.owner /\ r.escrow \in Escrows
         /\ n.reputation_oracle_token_account =
              IF r.reputation_oracle_token = NoAccount THEN r.reputation_oracle_token_account
              ELSE r.reputation_oracle_token
         /\ n.recording_oracle_token_account =
              IF r.recording_oracle_token = NoAccount THEN r.recording_oracle_token_account
              ELSE r.recording_oracle_token
         /\ n.reputation_oracle_token_account \in TokenAccounts
         /\ n.recording_oracle_token_account \in TokenAccounts
         /\ n.reputation_oracle_stake = r.reputation_oracle_stake
         /\ n.recording_oracle_stake = r.recording_oracle_stake
  <1> DEFINE n == SetupNames(r)
  <1>1. FitsBuilder("Setup", n)
    BY RequestsAssumption
  <1>2. /\ n.escrow = r.escrow /\ n.trusted_handler = r.owner
        /\ n.reputation_oracle_token_account =
             IF r.reputation_oracle_token = NoAccount THEN r.reputation_oracle_token_account
             ELSE r.reputation_oracle_token
        /\ n.recording_oracle_token_account =
             IF r.recording_oracle_token = NoAccount THEN r.recording_oracle_token_account
             ELSE r.recording_oracle_token
        /\ n.reputation_oracle_stake = r.reputation_oracle_stake
        /\ n.recording_oracle_stake = r.recording_oracle_stake
    BY DEF SetupNames
  <1> HIDE DEF n
  <1>3. /\ n.escrow \in Escrows
        /\ n.reputation_oracle_token_account \in TokenAccounts
        /\ n.recording_oracle_token_account \in TokenAccounts
    BY <1>1, NamesHaveTheirRoles DEF Needs
  <1> QED BY <1>1, <1>2, <1>3 DEF n

\* An initialised escrow is there, and has the mint its fee accounts are foretold with.
LEMMA InitializedEscrows ==
  ASSUME NEW w, SoundWorld(w), NEW r \in SetupRequests,
         EscrowInitialized(ViewOf(w).escrow[r.escrow])
  PROVE  LET mint == ViewOf(w).escrow[r.escrow].token_mint IN
         /\ Has(w, r.escrow, "Escrow")
         /\ mint \in NativeMints
         /\ r.reputation_oracle_token = NoAccount =>
              Foretold(r.reputation_oracle_token_account, mint, r.reputation_oracle)
         /\ r.recording_oracle_token = NoAccount =>
              Foretold(r.recording_oracle_token_account, mint, r.recording_oracle)
  <1> DEFINE e == r.escrow
             esc == ViewOf(w).escrow[e]
  <1>1. e \in Escrows
    BY SetupNamesFit
  <1>2. ~EscrowInitialized(BlankEscrow)
    BY DEF EscrowInitialized, BlankEscrow
  <1>3. Has(w, e, "Escrow")
    <2>1. ~Has(w, e, "Escrow") => esc = BlankEscrow
      BY <1>1 DEF ViewOf, EscrowIn
    <2> HIDE DEF esc
    <2> QED BY <1>2, <2>1 DEF esc
  <1>4. RecordAgrees(w, e, esc)
    <2>1. ViewOf(w).escrow = [x \in Escrows |-> RecordOf(w.account[x])]
      BY ViewIsOfContents
    <2>2. esc = RecordOf(w.account[e])
      BY <1>1, <2>1
    <2> HIDE DEF esc
    <2> QED BY <1>1, <2>2 DEF SoundWorld, WorldAgrees
  <1> HIDE DEF esc
  <1>5. esc # BlankEscrow
    BY <1>2 DEF esc
  <1>6. PICK n \in InitializeNames :
          n.escrow = e /\ n.token_mint \in NativeMints /\ esc.token_mint = n.token_mint
    BY <1>4, <1>5 DEF RecordAgrees
  <1> QED BY <1>3, <1>6, RequestsAssumption DEF esc

\* On the accounts that command_setup prepares, its call is executed.
LEMMA SetupCallIsExecuted ==
  ASSUME NEW w, SoundWorld(w), NEW now, NEW r \in SetupRequests, CanSetup(w, now, r),
         NEW signers, r.owner \in signers,
         NEW price, NEW tokens, NEW v, IsPrepared(w, v, price, {}, tokens, {}),
         tokens = NewFeeAccount(r.reputation_oracle_token, r.reputation_oracle_token_account)
                    \cup NewFeeAccount(r.recording_oracle_token, r.recording_oracle_token_account),
         \A a \in tokens : w.account[a] = None
  PROVE  Execute(v, now, signers, Escrow("Setup", SetupNames(r))) # {}
  <1> DEFINE n == SetupNames(r)
             e == r.escrow
             esc == ViewOf(w).escrow[e]
             mint == esc.token_mint
             rep == n.reputation_oracle_token_account
             rec == n.recording_oracle_token_account
  <1>1. /\ FitsBuilder("Setup", n)
        /\ n.escrow = e /\ n.trusted_handler = r.owner
        /\ rep = IF r.reputation_oracle_token = NoAccount THEN r.reputation_oracle_token_account
                 ELSE r.reputation_oracle_token
        /\ rec = IF r.recording_oracle_token = NoAccount THEN r.recording_oracle_token_account
                 ELSE r.recording_oracle_token
        /\ rep \in TokenAccounts /\ rec \in TokenAccounts
        /\ n.reputation_oracle_stake = r.reputation_oracle_stake
        /\ n.recording_oracle_stake = r.recording_oracle_stake
    BY SetupNamesFit
  <1>2. /\ StateCheck(esc, now, ByHandler(n), {"Launched"})
        /\ r.reputation_oracle_stake + r.recording_oracle_stake \in 1 .. 100
        /\ GivenAccountHolds(w, r.reputation_oracle_token, mint)
        /\ GivenAccountHolds(w, r.recording_oracle_token, mint)
    <2> HIDE DEF n
    <2> QED BY <1>1 DEF CanSetup, ByHandler
  <1>3. EscrowInitialized(esc)
    BY <1>2 DEF StateCheck
  <1>4. /\ Has(w, e, "Escrow") /\ mint \in NativeMints
        /\ r.reputation_oracle_token = NoAccount =>
             Foretold(r.reputation_oracle_token_account, mint, r.reputation_oracle)
        /\ r.recording_oracle_token = NoAccount =>
             Foretold(r.recording_oracle_token_account, mint, r.recording_oracle)
    BY <1>3, InitializedEscrows
  <1>5. SoundWorld(v) /\ ViewOf(v) = ViewOf(w)
    BY DEF IsPrepared
  <1>6. /\ \A a : Usable(w, a) => Usable(v, a)
        /\ \A a : Has(w, a, "Escrow") => Has(v, a, "Escrow")
    <2> DEFINE none == {}
    <2>1. IsPrepared(w, v, price, {}, tokens, none) /\ \A a \in none : w.account[a] = None
      OBVIOUS
    <2> HIDE DEF none
    <2>2. \A kind \in {"Escrow", "Factory"} : \A a : Has(w, a, kind) => Has(v, a, kind)
      BY <2>1, StillUsable
    <2>3. \A a : Usable(w, a) => Usable(v, a)
      BY <2>1, StillUsable
    <2> QED BY <2>2, <2>3
  <1> HIDE DEF n, mint, rep, rec
  <1>7. Usable(v, rep) /\ MintOf[rep] = mint
    <2>1. CASE r.reputation_oracle_token = NoAccount
      BY <1>1, <1>4, <2>1 DEF NewFeeAccount, IsPrepared, Foretold
    <2>2. CASE r.reputation_oracle_token # NoAccount
      BY <1>1, <1>2, <1>4, <1>6, <2>2, GivenIsUsable
    <2> QED BY <2>1, <2>2
  <1>8. Usable(v, rec) /\ MintOf[rec] = mint
    <2>1. CASE r.recording_oracle_token = NoAccount
      BY <1>1, <1>4, <2>1 DEF NewFeeAccount, IsPrepared, Foretold
    <2>2. CASE r.recording_oracle_token # NoAccount
      BY <1>1, <1>2, <1>4, <1>6, <2>2, GivenIsUsable
    <2> QED BY <2>1, <2>2
  <1>9. Has(v, e, "Escrow")
    BY <1>4, <1>6
  <1>10. RolesThere(v, "Setup", n)
    <2>1. n.reputation_oracle_token_account = rep /\ n.recording_oracle_token_account = rec
      BY DEF rep, rec
    <2> QED BY <1>1, <1>7, <1>8, <1>9, <2>1 DEF RolesThere, Needs
  <1>11. SetupAccepts(ViewOf(v).escrow[n.escrow], now, ByHandler(n), n)
    <2>1. n.reputation_oracle_token_account = rep /\ n.recording_oracle_token_account = rec
      BY DEF rep, rec
    <2>2. ViewOf(v).escrow[n.escrow] = esc /\ esc.token_mint = mint
      BY <1>1, <1>5 DEF mint
    <2> HIDE DEF esc
    <2> QED BY <1>1, <1>2, <1>7, <1>8, <2>1, <2>2 DEF SetupAccepts
  <1>12. Execute(v, now, signers, Escrow("Setup", n)) # {}
    BY <1>1, <1>5, <1>10, <1>11, SetupIsExecuted
  <1> QED BY <1>12 DEF n

\* Then command_setup is executed exactly if the fee payer has its budget.
LEMMA CommandSetupIsExecuted ==
  ASSUME NEW w, SoundWorld(w), NEW now, NEW r \in SetupRequests, CanSetup(w, now, r),
         NEW mint, mint = ViewOf(w).escrow[r.escrow].token_mint
  PROVE  w.lamports >= CommandSetup(r, mint).budget <=>
           Executed(w, now, CommandSetup(r, mint)) # {}
  <1> DEFINE t1 == r.reputation_oracle_token
             t2 == r.recording_oracle_token
             a1 == r.reputation_oracle_token_account
             a2 == r.recording_oracle_token_account
             o1 == r.reputation_oracle
             o2 == r.recording_oracle
             rep == NewTokenAccount(a1, mint, o1)
             rec == NewTokenAccount(a2, mint, o2)
             call == Escrow("Setup", SetupNames(r))
             parts == {rep[1], rep[2], rec[1], rec[2], call}
             fresh == {x \in {<<t1, a1>>, <<t2, a2>>} : x[1] = NoAccount}
             signers == {r.payer, r.owner} \cup {x[2] : x \in fresh}
             first == NewFeeAccount(t1, a1)
             tokens == first \cup NewFeeAccount(t2, a2)
             list == FeeAccount(t1, a1, mint, o1) \o FeeAccount(t2, a2, mint, o2)
             tx == CommandSetup(r, mint)
             price == (0 + FeeRent(t1)) + FeeRent(t2)
  <1>1. tx = Transaction(list \o <<call>>, signers, tx.budget)
    BY DEF CommandSetup, Transaction
  <1>2. tx.budget = price
    BY SetupBudget
  <1>3. /\ mint \in NativeMints
        /\ t1 = NoAccount => Foretold(a1, mint, o1)
        /\ t2 = NoAccount => Foretold(a2, mint, o2)
    <2>1. EscrowInitialized(ViewOf(w).escrow[r.escrow])
      BY DEF CanSetup, StateCheck
    <2> QED BY <2>1, InitializedEscrows
  <1>4. \A a \in tokens : w.account[a] = None
    BY SetupAddresses DEF CanSetup
  <1>5. /\ t1 = NoAccount => a1 \in signers
        /\ t2 = NoAccount => a2 \in signers
        /\ r.owner \in signers
    <2>1. t1 = NoAccount => <<t1, a1>> \in fresh
      OBVIOUS
    <2>2. t2 = NoAccount => <<t2, a2>> \in fresh
      OBVIOUS
    <2> HIDE DEF fresh
    <2>3. \A x \in fresh : x[2] \in signers
      OBVIOUS
    <2> QED BY <2>1, <2>2, <2>3
  <1>6. /\ call \in parts /\ <<>> \in Seq(parts)
        /\ rep[1] \in parts /\ rep[2] \in parts /\ rec[1] \in parts /\ rec[2] \in parts
    <2> HIDE DEF call, rep, rec
    <2> QED OBVIOUS
  <1>7. t2 = NoAccount => a2 \notin first
    BY NewKeysAssumption DEF NewFeeAccount
  <1>8. /\ t1 = NoAccount => w.account[a1] = None
        /\ t2 = NoAccount => w.account[a2] = None
    BY <1>4 DEF NewFeeAccount
  <1> DEFINE one == FeeAccount(t1, a1, mint, o1)
             two == FeeAccount(t2, a2, mint, o2)
             half == 0 + FeeRent(t1)
  <1> HIDE DEF tx, signers, parts, call
  <1>9. /\ one \in Seq(parts) /\ Prepares(w, now, signers, one, half, {}, first, {})
        /\ half \in Nat
    <2> DEFINE nothing == <<>>
               none == {}
    <2>1. Prepares(w, now, signers, nothing, 0, {}, none, {})
      BY AfterNothing, PreparedAtFirst DEF Prepares
    <2>2. nothing \in Seq(parts) /\ 0 \in Nat
      BY <1>6
    <2>3. CanAddFeeAccount(w, signers, parts, none, t1, a1, mint, o1)
      BY <1>3, <1>5, <1>6, <1>8 DEF CanAddFeeAccount
    <2> HIDE DEF nothing, none, first, t1, a1, o1
    <2>4. /\ nothing \o one \in Seq(parts)
          /\ Prepares(w, now, signers, nothing \o one, 0 + FeeRent(t1), {},
                      none \cup NewFeeAccount(t1, a1), {})
          /\ 0 + FeeRent(t1) \in Nat
      BY <1>3, <2>1, <2>2, <2>3, FeeAccountPrepared
    <2>5. one \in Seq(parts)
      <3> USE DEF t1, a1, o1
      <3>1. one = (IF t1 = NoAccount THEN rep ELSE <<>>) /\ rep = <<rep[1], rep[2]>>
        BY BlocksAreWellBuilt DEF FeeAccount
      <3>2. <<rep[1], rep[2]>> \in Seq(parts)
        BY <1>6
      <3> HIDE DEF one, rep
      <3> QED BY <1>6, <3>1, <3>2
    <2>6. nothing \o one = one /\ none \cup NewFeeAccount(t1, a1) = first
      <3> HIDE DEF one
      <3>1. <<>> \o one = one
        BY <1>6, <2>5, NothingAdded
      <3> QED BY <3>1 DEF nothing, none, first, t1, a1
    <2> HIDE DEF one
    <2> QED BY <2>4, <2>5, <2>6 DEF t1
  <1>10. /\ one \o two \in Seq(parts)
         /\ Prepares(w, now, signers, one \o two, price, {}, tokens, {})
         /\ price \in Nat
    <2>1. CanAddFeeAccount(w, signers, parts, first, t2, a2, mint, o2)
      BY <1>3, <1>5, <1>6, <1>7, <1>8 DEF CanAddFeeAccount
    <2> HIDE DEF one, half, first, t2, a2, o2
    <2>2. /\ one \o FeeAccount(t2, a2, mint, o2) \in Seq(parts)
          /\ Prepares(w, now, signers, one \o FeeAccount(t2, a2, mint, o2), half + FeeRent(t2), {},
                      first \cup NewFeeAccount(t2, a2), {})
          /\ half + FeeRent(t2) \in Nat
      BY <1>3, <1>9, <2>1, FeeAccountPrepared
    <2> QED BY <2>2 DEF half, t2, a2, o2
  <1>11. \A v : IsPrepared(w, v, price, {}, tokens, {}) => Execute(v, now, signers, call) # {}
    <2> SUFFICES ASSUME NEW v, IsPrepared(w, v, price, {}, tokens, {})
                 PROVE  Execute(v, now, signers, call) # {}
      OBVIOUS
    <2>1. tokens = NewFeeAccount(r.reputation_oracle_token, r.reputation_oracle_token_account)
                    \cup NewFeeAccount(r.recording_oracle_token, r.recording_oracle_token_account)
      OBVIOUS
    <2> HIDE DEF tokens, price
    <2> QED BY <1>4, <1>5, <2>1, SetupCallIsExecuted DEF call
  <1> HIDE DEF list, tokens, price, one, two
  <1>12. list \in Seq(parts) /\ Prepares(w, now, signers, list, price, {}, tokens, {})
    BY <1>10 DEF list, one, two
  <1>13. w.lamports >= price <=> Executed(w, now, Transaction(list \o <<call>>, signers, price)) # {}
    BY <1>6, <1>10, <1>11, <1>12, PaidIsExecuted
  <1>14. tx = Transaction(list \o <<call>>, signers, price)
    BY <1>1, <1>2
  <1> QED BY <1>2, <1>13, <1>14 DEF tx

\* What it writes is the escrow set up as it was asked to.
LEMMA CommandSetupStores ==
  ASSUME MeantInv, NEW r \in SetupRequests, NEW mint \in SeenMints(r.escrow),
         NEW result \in Executed(World, clock, CommandSetup(r, mint))
  PROVE  ViewOf(result).escrow[r.escrow] =
           SetupWrites(view.escrow[r.escrow], WithManifest(SetupNames(r)))
  <1> DEFINE n == SetupNames(r)
             esc == SetupWrites(view.escrow[r.escrow], WithManifest(n))
  <1>1. /\ Calling(CommandSetup(r, mint), "Setup", n) /\ FitsBuilder("Setup", n)
    BY SetupRequestCalls
  <1>2. n.escrow = r.escrow /\ r.escrow \in Escrows
    BY SetupNamesFit
  <1> HIDE DEF n
  <1>3. Meant(clock, ViewOf(World), ViewOf(result), "Setup", n)
    BY <1>1, CallingMeans DEF MeantInv
  <1>4. view = ViewOf(World) /\ DOMAIN view.escrow = Escrows
    BY DEF MeantInv, ViewOf
  <1> HIDE DEF esc
  <1>5. ViewOf(result).escrow = [view.escrow EXCEPT ![r.escrow] = esc]
    BY <1>2, <1>3, <1>4 DEF Meant, Stores, esc
  <1>6. ViewOf(result).escrow[r.escrow] = esc
    BY <1>2, <1>4, <1>5
  <1> QED BY <1>6 DEF esc, n

(* RequestsGoThrough, for every choice of accounts, rents and requests: whichever     *)
(* token accounts it has to create, command_create launches the escrow it is asked    *)
(* for and command_setup sets a launched one up, exactly if the fee payer has the     *)
(* rent they compute (cli/src/main.rs, command_create and command_setup).             *)
THEOREM RequestsAlwaysGoThrough == Spec => []RequestsGoThrough
  <1>1. MeantInv => RequestsGoThrough
    <2> SUFFICES ASSUME MeantInv
                 PROVE  RequestsGoThrough
      OBVIOUS
    <2>1. PICK w : w = World
      OBVIOUS
    <2>2. SoundWorld(w) /\ view = ViewOf(w) /\ account = w.account /\ lamports = w.lamports
      BY <2>1 DEF MeantInv, World
    <2>3. \A a, mint : HoldsMint(a, mint) = GivenAccountHolds(w, a, mint)
      BY <2>1, <2>2 DEF HoldsMint, GivenAccountHolds
    <2>4. ASSUME NEW r \in CreateRequests
          PROVE  CreateGoesThrough(r)
      <3> SUFFICES ASSUME FactoryInitialized(view.version[r.factory]),
                          Has(World, r.token_mint, "Mint"),
                          HoldsMint(r.canceler_token, r.token_mint),
                          r.duration # 0,
                          Fresh(CommandCreate(r))
                   PROVE  /\ lamports >= CommandCreate(r).budget <=>
                               Executed(World, clock, CommandCreate(r)) # {}
                          /\ \A x \in Executed(World, clock, CommandCreate(r)) :
                               ViewOf(x).escrow[r.escrow] =
                                 InitializeWrites(clock, CreateNames(r))
        BY DEF CreateGoesThrough
      <3>1. CanCreate(w, r)
        BY <2>1, <2>2, <2>3 DEF CanCreate, Fresh
      <3>2. w.lamports >= CommandCreate(r).budget <=>
              Executed(w, clock, CommandCreate(r)) # {}
        BY <2>2, <3>1, CommandCreateIsExecuted
      <3>3. \A x \in Executed(w, clock, CommandCreate(r)) :
              ViewOf(x).escrow[r.escrow] = InitializeWrites(clock, CreateNames(r))
        BY <2>2, CommandCreateStores
      <3> QED BY <2>1, <2>2, <3>2, <3>3
    <2>5. ASSUME NEW r \in SetupRequests
          PROVE  SetupGoesThrough(r)
      <3> DEFINE esc == view.escrow[r.escrow]
                 mint == esc.token_mint
                 tx == CommandSetup(r, mint)
      <3> SUFFICES ASSUME StateCheck(esc, clock, [key |-> r.owner, is_signer |-> TRUE],
                                     {"Launched"}),
                          r.reputation_oracle_stake + r.recording_oracle_stake \in 1 .. 100,
                          HoldsMint(r.reputation_oracle_token, mint),
                          HoldsMint(r.recording_oracle_token, mint),
                          Fresh(tx)
                   PROVE  /\ lamports >= tx.budget <=> Executed(World, clock, tx) # {}
                          /\ \A x \in Executed(World, clock, tx) :
                               ViewOf(x).escrow[r.escrow] =
                                 SetupWrites(esc, WithManifest(SetupNames(r)))
        BY DEF SetupGoesThrough
      <3>1. CanSetup(w, clock, r)
        BY <2>2, <2>3 DEF CanSetup, Fresh
      <3>2. mint = ViewOf(w).escrow[r.escrow].token_mint
        BY <2>2
      <3>3. mint \in SeenMints(r.escrow)
        BY DEF SeenMints
      <3> HIDE DEF mint
      <3>4. w.lamports >= tx.budget <=> Executed(w, clock, tx) # {}
        BY <2>2, <3>1, <3>2, CommandSetupIsExecuted
      <3>5. \A x \in Executed(World, clock, tx) :
              ViewOf(x).escrow[r.escrow] = SetupWrites(esc, WithManifest(SetupNames(r)))
        BY <3>3, CommandSetupStores
      <3> QED BY <2>1, <2>2, <3>4, <3>5
    <2> QED BY <2>4, <2>5 DEF RequestsGoThrough
  <1> QED BY <1>1, ViewsStaySound, PTL

-----------------------------------------------------------------------------
\* Nothing can be initialised as a token account of which it is itself the mint.
LEMMA NoMintOfItself ==
  ASSUME NEW worlds, NEW now, NEW signers, NEW a, NEW owner
  PROVE  Stepped(worlds, now, signers, NewTokenAccount(a, a, owner)[2]) = {}
  <1> DEFINE i == NewTokenAccount(a, a, owner)[2]
  <1>1. i.program = "initialize_account" /\ i.account = a /\ i.mint = a
    BY DEF NewTokenAccount
  <1> HIDE DEF i
  <1>2. ASSUME NEW w
        PROVE  Execute(w, now, signers, i) = {}
    <2>1. ~(w.account[a] = Blanks.TokenAccount /\ Has(w, a, "Mint"))
      BY DEF Has, Blanks
    <2>2. InitializeAccount(w, i) = {}
      BY <1>1, <2>1 DEF InitializeAccount, When
    <2> QED BY <1>1, <2>2 DEF Execute
  <1>3. Stepped(worlds, now, signers, i) = {}
    BY <1>2 DEF Stepped
  <1> QED BY <1>3 DEF i

\* A transaction with an instruction that leads nowhere leads nowhere.
LEMMA RefusedForGood ==
  ASSUME NEW w, NEW now, NEW tx, NEW n \in Nat, DOMAIN tx.instructions = 1 .. n, NEW m \in 1 .. n,
         \A worlds : Stepped(worlds, now, tx.signers, tx.instructions[m]) = {}
  PROVE  Executed(w, now, tx) = {}
  <1>1. PICK run : IsExecution(run, w, now, tx, n)
    BY ExecutionRuns
  <1> DEFINE P == {k \in 0 .. n : k >= m => run[k] = {}}
  <1>2. 0 \in P
    OBVIOUS
  <1>3. ASSUME NEW k \in 1 .. n, k - 1 \in P
        PROVE  k \in P
    <2>1. run[k] = Stepped(run[k - 1], now, tx.signers, tx.instructions[k])
      BY <1>1 DEF IsExecution
    <2>2. CASE k = m
      BY <2>1, <2>2
    <2>3. CASE k > m
      <3>1. k - 1 >= m
        BY <2>3
      <3>2. run[k - 1] = {}
        BY <1>3, <3>1
      <3>3. run[k] = {}
        BY <2>1, <3>2, SteppedOnce
      <3> QED BY <3>3
    <2>4. CASE k < m
      BY <2>4
    <2> QED BY <2>2, <2>3, <2>4
  <1> HIDE DEF P
  <1>4. \A k \in 0 .. n : k \in P
    BY <1>2, <1>3, PrefixInduction
  <1>5. run[n] = {}
    <2>1. n \in 0 .. n /\ n >= m
      OBVIOUS
    <2> QED BY <1>4, <2>1 DEF P
  <1> QED BY <1>1, <1>5 DEF IsExecution

(* new_job is refused in every world, whatever it is asked for: the seventh of its   *)
(* instructions initialises the refund account with itself as the mint (job.rs,      *)
(* new_job).  So Next needs no step for it.                                        *)
THEOREM NewJobIsRefused ==
  ASSUME NEW w, NEW now, NEW r
  PROVE  Executed(w, now, NewJob(r)) = {}
  <1> DEFINE mint == NewMint(r.token_mint)
             blank == NewAccount(r.escrow, "Escrow")
             vault == NewTokenAccount(r.token_account, r.token_mint, Authority[r.escrow])
             refund == NewTokenAccount(r.canceler_token_account, r.canceler_token_account, r.payer)
             rep == NewTokenAccount(r.reputation_oracle_token_account, r.token_mint,
                                    r.reputation_oracle)
             rec == NewTokenAccount(r.recording_oracle_token_account, r.token_mint,
                                    r.recording_oracle)
             first == NewJobInitialize(r)
             second == NewJobSetup(r)
             tx == NewJob(r)
             parts == {mint[1], mint[2], blank, vault[1], vault[2], refund[1], refund[2],
                       rep[1], rep[2], rec[1], rec[2], first, second}
             new == <<blank>>
             start == mint \o new
             head == start \o vault
             tail == <<first>>
  <1>1. /\ vault = <<vault[1], vault[2]>> /\ refund = <<refund[1], refund[2]>>
        /\ rep = <<rep[1], rep[2]>> /\ rec = <<rec[1], rec[2]>>
    BY BlocksAreWellBuilt
  <1>2. mint = <<mint[1], mint[2]>>
    BY DEF NewMint
  <1>3. tx.instructions = (((((head \o refund) \o tail) \o rep) \o rec) \o <<second>>)
    BY DEF NewJob, NewJobAccounts, Transaction
  <1>4. \A worlds : Stepped(worlds, now, tx.signers, refund[2]) = {}
    BY NoMintOfItself
  <1> HIDE DEF mint, blank, vault, refund, rep, rec, first, second, tx
  <1>5. /\ <<mint[1], mint[2]>> \in Seq(parts) /\ <<vault[1], vault[2]>> \in Seq(parts)
        /\ <<refund[1], refund[2]>> \in Seq(parts) /\ <<rep[1], rep[2]>> \in Seq(parts)
        /\ <<rec[1], rec[2]>> \in Seq(parts) /\ new \in Seq(parts) /\ Len(new) = 1
        /\ tail \in Seq(parts) /\ <<second>> \in Seq(parts)
    OBVIOUS
  <1> HIDE DEF parts, new, tail
  <1>6. /\ mint \in Seq(parts) /\ Len(mint) = 2 /\ vault \in Seq(parts) /\ Len(vault) = 2
        /\ refund \in Seq(parts) /\ Len(refund) = 2
        /\ rep \in Seq(parts) /\ rec \in Seq(parts)
    BY <1>1, <1>2, <1>5
  <1>7. head \in Seq(parts) /\ Len(head) = 5
    <2>1. start \in Seq(parts) /\ Len(start) = Len(mint) + Len(new)
      BY <1>5, <1>6, OneAfterAnother
    <2> HIDE DEF start
    <2>2. head \in Seq(parts) /\ Len(head) = Len(start) + Len(vault)
      BY <1>6, <2>1, OneAfterAnother
    <2> HIDE DEF head
    <2> QED BY <1>5, <1>6, <2>1, <2>2
  <1> HIDE DEF start, head
  <1> DEFINE most == head \o refund
  <1>8. most \in Seq(parts) /\ Len(most) = 7 /\ most[7] = refund[2]
    <2>1. /\ most \in Seq(parts) /\ Len(most) = Len(head) + Len(refund)
          /\ \A k \in Len(head) + 1 .. Len(head) + Len(refund) : most[k] = refund[k - Len(head)]
      BY <1>6, <1>7, OneAfterAnother
    <2>2. 7 \in 5 + 1 .. 5 + 2 /\ 7 - 5 = 2
      OBVIOUS
    <2> HIDE DEF most
    <2>3. most[7] = refund[7 - 5]
      BY <1>6, <1>7, <2>1, <2>2
    <2> QED BY <1>6, <1>7, <2>1, <2>2, <2>3
  <1> DEFINE some == most \o tail
             more == some \o rep
             still == more \o rec
             ending == <<second>>
             all == still \o ending
  <1>9. \A s \in Seq(parts), t \in Seq(parts) :
          7 \in DOMAIN s => 7 \in DOMAIN (s \o t) /\ (s \o t)[7] = s[7] /\ s \o t \in Seq(parts)
    OBVIOUS
  <1>10. most \in Seq(parts) /\ 7 \in DOMAIN most /\ most[7] = refund[2]
    BY <1>8
  <1> HIDE DEF most
  <1>11. some \in Seq(parts) /\ 7 \in DOMAIN some /\ some[7] = refund[2]
    BY <1>5, <1>9, <1>10
  <1> HIDE DEF some
  <1>12. more \in Seq(parts) /\ 7 \in DOMAIN more /\ more[7] = refund[2]
    BY <1>6, <1>9, <1>11
  <1> HIDE DEF more
  <1>13. still \in Seq(parts) /\ 7 \in DOMAIN still /\ still[7] = refund[2]
    BY <1>6, <1>9, <1>12
  <1>14. ending \in Seq(parts)
    BY <1>5
  <1> HIDE DEF still, ending
  <1>15. all \in Seq(parts) /\ 7 \in DOMAIN all /\ all[7] = refund[2]
    BY <1>9, <1>13, <1>14
  <1>16. tx.instructions = all
    BY <1>3 DEF head, start, new, most, some, more, still, ending
  <1> HIDE DEF all
  <1>17. /\ Len(all) \in Nat /\ DOMAIN tx.instructions = 1 .. Len(all)
         /\ 7 \in 1 .. Len(all) /\ tx.instructions[7] = refund[2]
    BY <1>15, <1>16
  <1>18. Executed(w, now, tx) = {}
    BY <1>4, <1>17, RefusedForGood
  <1> QED BY <1>18 DEF tx
=============================================================================
