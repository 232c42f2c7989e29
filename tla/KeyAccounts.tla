----------------------------- MODULE KeyAccounts -----------------------------
(***************************************************************************)
(* The private keys and the addresses of ONE asset of the wallet           *)
(* (actions/wallet-shared.js, actions/wallet.js): the raw assets, which    *)
(* hold the keys and are what is encrypted, saved and loaded, and the      *)
(* displayable assets, which hold the addresses the user sees.             *)
(*                                                                         *)
(* Every operation rewrites both. On the command line it does so in one    *)
(* go; in the browser the raw assets are posted to the server on the way,  *)
(* and other handlers run meanwhile. A wallet is then loaded again, in     *)
(* either environment, from what was saved: the keys are what the copy     *)
(* held, the addresses are derived from them anew.                         *)
(*                                                                         *)
(* A derived key stands for its HD index, and a key for its address.       *)
(***************************************************************************)
EXTENDS Integers, Sequences, FiniteSets, Bags, FiniteSetsExt

CONSTANTS
    Eth,         \* the asset is 'ethereum'; otherwise it is of utxo type
    OpCltv,      \* meta.OP_CLTV: public keys are computed with the addresses
    External,    \* keys that are not derived from the wallet's
    Invalid,     \* those that only look like a key: no address can be computed
    NoAddress,   \* null
    Protected,   \* non-standard addresses found by scans
    NoCopy,      \* nothing saved
    Lists,       \* lists of keys the user may import
    MaxOps,      \* bound: operations on keys and addresses
    MaxSessions  \* bound: loads of the wallet

ASSUME FlagsAssumption == Eth \in BOOLEAN /\ OpCltv \in BOOLEAN
ASSUME InvalidAssumption == Invalid \subseteq External
ASSUME DistinctAssumption ==
    /\ External \cap Nat = {} /\ Protected \cap Nat = {} /\ Protected \cap External = {}
    /\ NoAddress \notin Nat \cup External \cup Protected
ASSUME ListsAssumption == Lists \subseteq Seq(External)
ASSUME BoundsAssumption == MaxOps \in Nat /\ MaxSessions \in Nat

VARIABLES
    env,      \* configWallet.WALLET_ENV
    raw,      \* the asset in store.wallet.assetsRaw
    shown,    \* the asset's addresses in store.wallet.assets, a bag
    saved,    \* the copy in the file and on the server
    posting,  \* the operation whose updateAssetsJsonApi is under way
    told,     \* the user has been told "Saved Wallet" of the last operation
    source,   \* where the session's wallet was loaded from
    ops,      \* operations so far
    sessions  \* loads so far

vars == <<env, source, raw, shown, saved, posting, told, ops, sessions>>

Env == {"browser", "cli"}
Place == {"file", "server"}
Source == Place \cup {"none"}   \* "none": a new wallet

(* The default account's privKeys, in order, as pairs <<position, index>>;  *)
(* the import accounts, of which n is the number in name and path and keys  *)
(* the pairs <<private key, leaf>>; importCount; is there a protected       *)
(* account?                                                                 *)
NewRaw == [keys |-> {}, imports |-> {}, importCount |-> 0, nonStd |-> FALSE]

\* the paths of m/.., ~i/.. and ~p/.. addresses: they name the account, too
DefaultPath(i) == <<"m", 0, i>>
ImportPath(n, i) == <<"~i", n, i>>
ProtectedPath(i) == <<"~p", 0, i>>

AddressEntry(addr, path) == [addr |-> addr, path |-> path]

\* a bag and one entry more
Added(bag, entry) == bag (+) SetToBag({entry})

NotPosting == [of |-> "nothing", copy |-> NewRaw, addresses |-> EmptyBag]
-----------------------------------------------------------------------------
(* Keys                                                                     *)

Indexes(keys) == {k[2] : k \in keys}

\* all the private keys of an asset, whichever the account
PrivKeys(r) == Indexes(r.keys) \cup {k[1] : k \in UNION {a.keys : a \in r.imports}}

NextPosition(keys) == IF keys = {} THEN 0 ELSE Max({k[1] : k \in keys}) + 1

\* mutant: the number of keys, for every type of asset
CountIndex(keys) == Cardinality(keys)

\* the index of a new address: the lowest free one, but for ETH the number of keys
NextIndex(keys) ==
    IF Eth THEN Cardinality(keys)
    ELSE Min(0..Cardinality(keys) \ Indexes(keys))

\* getAddressFromPrivateKey
AddressOf(key) == IF key \in Invalid THEN NoAddress ELSE key

\* encryptPrunedAssets: "accounts" is all that is kept of an asset
Pruned(r) == [r EXCEPT !.importCount = 0]

-----------------------------------------------------------------------------
(* generateWallets                                                          *)

Sorted(indexes) == {<<i, i>> : i \in indexes}

\* mutant: the keys are not sorted before the first one is overwritten
UnsortedDefault(keys) ==
    LET first == {k \in keys : \A l \in keys : k[1] <= l[1]}
    IN  Sorted(Indexes(keys \ first) \cup {0})

\* Duplicates are removed and the keys sorted by path; the first is overwritten by the
\* key of index 0. ETH is generated before the others, hence overwritten before the sort.
RegeneratedDefault(keys) ==
    LET first == IF Eth THEN {k \in keys : \A l \in keys : k[1] <= l[1]}
                 ELSE {k \in keys : \A l \in keys : k[2] <= l[2]}
    IN  Sorted(Indexes(keys \ first) \cup {0})

\* _.uniqBy(privKeys, 'privKey')
Unique(keys) == {k \in keys : \A l \in keys : l[1] = k[1] => k[2] <= l[2]}

Regenerated(r) ==
    [keys        |-> RegeneratedDefault(r.keys),
     imports     |-> {[a EXCEPT !.keys = Unique(@)] : a \in r.imports},
     importCount |-> r.importCount,
     nonStd      |-> r.nonStd]

AddressesOfDefault(r) == SetToBag({AddressEntry(k[2], DefaultPath(k[2])) : k \in r.keys})

AddressesOfImports(r) ==
    LET held == UNION {{<<a.n, k>> : k \in a.keys} : a \in r.imports}
        entry(h) == AddressEntry(AddressOf(h[2][1]), ImportPath(h[1], h[2][2]))
    IN  BagOfAll(entry, SetToBag(held))

\* the addresses of all keys, each computed once (op_WalletAddrFromPrivKey)
AddressesOf(r) == AddressesOfDefault(r) (+) AddressesOfImports(r)

\* computing the public key of an invalid one throws, and the address is waited for forever
Loads(r) == OpCltv => PrivKeys(r) \cap Invalid = {}

\* the copy a wallet is loaded from; none for a new one
Copy(place) == IF place = "none" THEN NewRaw ELSE saved[place]

(* A session starts, in the browser or on the command line: the wallet is   *)
(* generated from a saved copy or from nothing. The browser posts it back   *)
(* at once, whether or not that succeeds or is answered. What the last      *)
(* session was still posting is lost (or has reached the server: PostFails  *)
(* comes first).                                                            *)
Load(e, place) ==
    LET r == Regenerated(Copy(place))
    IN  /\ sessions < MaxSessions
        /\ place = "file" => e = "cli"
        /\ place = "none" /\ e = "browser" => saved["server"] = NoCopy
        /\ Copy(place) # NoCopy
        /\ Loads(Copy(place))
        /\ sessions' = sessions + 1
        /\ env' = e
        /\ source' = place
        /\ raw' = r
        /\ shown' = AddressesOf(r)
        /\ \/ told' = FALSE /\ UNCHANGED saved
           \/ /\ e = "browser"
              /\ saved' = [saved EXCEPT !["server"] = Pruned(r)]
              /\ told' \in BOOLEAN
        /\ posting' = NotPosting
        /\ UNCHANGED ops

-----------------------------------------------------------------------------
(* Operations. All of them start by reading both views from the store, and  *)
(* none starts while the user's last one is being posted.                   *)

Loaded == sessions > 0
Ready == Loaded /\ posting = NotPosting /\ ops < MaxOps

\* mutant: what is posted is what was read from the store
PostBefore(op, addresses) ==
    /\ told' = FALSE
    /\ posting' = IF env = "browser"
                  THEN [of |-> op, copy |-> Pruned(raw), addresses |-> addresses]
                  ELSE posting

\* In the browser the raw assets are posted and "addresses" are set, now, or once the
\* server has answered ("addresses" of the operation itself are those it sets then).
Post(op, addresses) ==
    /\ told' = FALSE
    /\ posting' = IF env = "browser"
                  THEN [of |-> op, copy |-> Pruned(raw'), addresses |-> addresses]
                  ELSE posting

(* generateNewStandardAddress: on the command line the address is shown at  *)
(* once, in the browser when the server has answered, added to the          *)
(* addresses there were before the wait.                                    *)
Generate ==
    LET i     == NextIndex(raw.keys)
        after == Added(shown, AddressEntry(i, DefaultPath(i)))
    IN  /\ Ready
        /\ raw' = [raw EXCEPT !.keys = @ \cup {<<NextPosition(@), i>>}]
        /\ shown' = IF env = "browser" THEN shown ELSE after
        /\ Post("generate", after)
        /\ ops' = ops + 1
        /\ UNCHANGED <<env, source, saved, sessions>>

\* mutant: addresses are blanked instead of removed
KeptBlank(bag, keep) == [e \in DOMAIN bag |-> IF keep[e] THEN bag[e] ELSE 0]

\* mutant: the addresses are not filtered
KeptAll(bag, keep) == bag

\* the entries of a bag that satisfy a condition
Kept(bag, keep) == [e \in {x \in DOMAIN bag : keep[x]} |-> bag[e]]

(* deleteUnusedStandardAddress: the address of the default account is       *)
(* pruned, unless it has been used or not been fetched (then nothing is).   *)
Delete(i) ==
    LET entry == AddressEntry(i, DefaultPath(i))
    IN  /\ Ready
        /\ env = "browser"
        /\ entry \in DOMAIN shown
        /\ \/ /\ raw' = [raw EXCEPT !.keys = {k \in @ : k[2] # i}]
              /\ shown' = Kept(shown, [e \in DOMAIN shown |-> e.addr # i])
           \/ UNCHANGED <<raw, shown>>
        /\ Post("delete", EmptyBag)
        /\ ops' = ops + 1
        /\ UNCHANGED <<env, source, saved, sessions>>

\* mutant: only the default account's keys count as imported already
NewToDefault(r, list) == {j \in 1..Len(list) : list[j] \notin Indexes(r.keys)}

\* "remove already imported": the places of the list that are left
NotYetHeld(r, list) == {j \in 1..Len(list) : list[j] \notin PrivKeys(r)}

\* the leaf of a place among those that are left
Leaf(places, j) == Cardinality({i \in places : i < j})

ImportedKeys(list, places) == {<<list[j], Leaf(places, j)>> : j \in places}

\* an asset with a new account of the keys at these places
Imported(r, list, places) ==
    [keys        |-> r.keys,
     imports     |-> r.imports \cup
                       {[n |-> r.importCount + 1, keys |-> ImportedKeys(list, places)]},
     importCount |-> r.importCount + 1,
     nonStd      |-> r.nonStd]

\* one address per place, with the path of the first place that holds its key
\* (privKeys.find)
ImportedAddresses(list, places, n) ==
    LET same(j) == {i \in places : list[i] = list[j]}
        entry(j) == AddressEntry(list[j], ImportPath(n, Leaf(places, Min(same(j)))))
    IN  BagOfAll(entry, SetToBag(places))

(* importPrivKeys: the raw assets are set before the addresses are          *)
(* computed, and an invalid key ends it there, with an error.               *)
Import(list) ==
    LET places == NotYetHeld(raw, list)
    IN  /\ Ready
        /\ places # {}
        /\ raw' = Imported(raw, list, places)
        /\ IF \E j \in places : list[j] \in Invalid
           THEN /\ told' = FALSE
                /\ UNCHANGED <<shown, posting>>
           ELSE /\ shown' = shown (+) ImportedAddresses(list, places, raw.importCount + 1)
                /\ Post("import", EmptyBag)
        /\ ops' = ops + 1
        /\ UNCHANGED <<env, source, saved, sessions>>

(* removeImportedAccounts: accounts are told by their name, "Import #n ..". *)
(* On the command line the name must be that of an address.                 *)
Remove(n) ==
    /\ Ready
    /\ env = "cli" => \E e \in DOMAIN shown : e.path[1] = "~i" /\ e.path[2] = n
    /\ raw' = [raw EXCEPT !.imports = {a \in @ : a.n # n}]
    /\ shown' = Kept(shown, [e \in DOMAIN shown |-> ~(e.path[1] = "~i" /\ e.path[2] = n)])
    /\ Post("remove", EmptyBag)
    /\ ops' = ops + 1
    /\ UNCHANGED <<env, source, saved, sessions>>

(* addNonStdAddress_DsigCltv, when a scan has found protected outputs with  *)
(* a balance: it may run during a post, and is never posted itself.         *)
AddNonStd(q) ==
    LET used  == {e \in DOMAIN shown : e.path[1] = "~p"}
        entry == AddressEntry(q, ProtectedPath(Cardinality(used)))
    IN  /\ Loaded
        /\ ops < MaxOps
        /\ ops' = ops + 1
        /\ raw' = [raw EXCEPT !.nonStd = TRUE]
        /\ shown' = IF \E e \in DOMAIN shown : e.addr = q THEN shown ELSE Added(shown, entry)
        /\ UNCHANGED <<env, source, saved, posting, told, sessions>>

\* the operation goes on after the post, whatever came of it
AfterPost == IF posting.of = "generate" THEN posting.addresses ELSE shown

(* updateAssetsJsonApi: the server stores the copy and answers, which the   *)
(* user is told; or it fails or its answer is lost, which the caller is not *)
(* told: the operation goes on and is reported as complete.                 *)
Posted ==
    /\ posting # NotPosting
    /\ saved' = [saved EXCEPT !["server"] = posting.copy]
    /\ shown' = AfterPost
    /\ told' = TRUE
    /\ posting' = NotPosting
    /\ UNCHANGED <<env, source, raw, ops, sessions>>

PostFails ==
    /\ posting # NotPosting
    /\ \/ saved' = [saved EXCEPT !["server"] = posting.copy]
       \/ UNCHANGED saved
    /\ shown' = AfterPost
    /\ posting' = NotPosting
    /\ UNCHANGED <<env, source, raw, told, ops, sessions>>

(* walletFileSave and walletServerSave, which needs a wallet loaded from    *)
(* the server: the first saves the raw assets as they are, the second pruned.*)
Save(place) ==
    /\ Loaded
    /\ env = "cli"
    /\ place = "server" => source = "server"
    /\ saved' = [saved EXCEPT ![place] = IF place = "file" THEN raw ELSE Pruned(raw)]
    /\ UNCHANGED <<env, source, raw, shown, posting, told, ops, sessions>>

-----------------------------------------------------------------------------
Init ==
    /\ env = "cli"
    /\ source = "none"
    /\ raw = NewRaw
    /\ shown = EmptyBag
    /\ saved = [p \in Place |-> NoCopy]
    /\ posting = NotPosting
    /\ told = FALSE
    /\ ops = 0
    /\ sessions = 0

Next ==
    \/ \E e \in Env, place \in Source : Load(e, place)
    \/ Generate
    \/ \E i \in Indexes(raw.keys) : Delete(i)
    \/ \E list \in Lists : Import(list)
    \/ \E a \in raw.imports : Remove(a.n)
    \/ \E q \in Protected : AddNonStd(q)
    \/ Posted \/ PostFails
    \/ \E place \in Place : Save(place)

Spec == Init /\ [][Next]_vars

-----------------------------------------------------------------------------
(* Properties *)

Pair(S) == S \X Nat
Account == [n : Nat, keys : SUBSET Pair(External)]
Raw == [keys : SUBSET Pair(Nat), imports : SUBSET Account, importCount : Nat, nonStd : BOOLEAN]
Path == {"m", "~i", "~p"} \X Nat \X Nat
Address == [addr : Nat \cup External \cup Protected \cup {NoAddress}, path : Path]

IsAddresses(bag) == DOMAIN bag \subseteq Address /\ \A e \in DOMAIN bag : bag[e] \in Nat \ {0}

TypeOK ==
    /\ env \in Env /\ source \in Source
    /\ raw \in Raw
    /\ IsAddresses(shown)
    /\ saved \in [Place -> Raw \cup {NoCopy}]
    /\ posting.of \in {"nothing", "generate", "delete", "import", "remove"}
    /\ posting.copy \in Raw /\ IsAddresses(posting.addresses)
    /\ told \in BOOLEAN
    /\ ops \in 0..MaxOps /\ sessions \in 0..MaxSessions

\* Every address shown, protected ones aside, can be spent from: its key is in the account
\* its path names, whatever was deleted, removed or added during a post.
ShownHasKey ==
    \A e \in DOMAIN shown :
        \/ e.path[1] = "~p"
        \/ e.path[1] = "m" /\ e.addr \in Indexes(raw.keys) /\ e.path = DefaultPath(e.addr)
        \/ /\ e.path[1] = "~i"
           /\ \E a \in raw.imports : \E k \in a.keys :
                  a.n = e.path[2] /\ AddressOf(k[1]) = e.addr

\* On the command line every key is shown, but for the accounts whose import has failed on
\* an invalid key.
KeyShown ==
    Loaded /\ env = "cli" =>
        /\ \A i \in Indexes(raw.keys) : AddressEntry(i, DefaultPath(i)) \in DOMAIN shown
        /\ \A a \in raw.imports : \A k \in a.keys :
               \/ \E l \in a.keys : l[1] \in Invalid
               \/ \E e \in DOMAIN shown : e.addr = k[1] /\ e.path[1] = "~i" /\ e.path[2] = a.n

\* "had seen duplicates persisted here; due to bugs around add/delete addr's, since fixed":
\* no sequence of additions, deletions and loads gives the default account a key twice, or
\* shows one of its addresses twice.
GeneratedOnce ==
    /\ Cardinality(Indexes(raw.keys)) = Cardinality(raw.keys)
    /\ \A e \in DOMAIN shown : e.path[1] = "m" => shown[e] = 1

\* No external key is in two import accounts, however imports, removals, saves and loads
\* follow each other.
ImportedOnce ==
    \A a, b \in raw.imports : a # b => {k[1] : k \in a.keys} \cap {k[1] : k \in b.keys} = {}

\* "Saved Wallet": when the user has been told so, and until the next operation, the
\* server's copy holds the same keys: another session finds all of them, and none that
\* was removed.
ToldIsSaved == told => PrivKeys(saved["server"]) = PrivKeys(raw)

\* Loading a copy whose default address has not been deleted gives all its keys back.
LoadKeeps ==
    [][\A e \in Env, place \in Source :
         Load(e, place) /\ 0 \in Indexes(Copy(place).keys)
            => PrivKeys(Copy(place)) \subseteq PrivKeys(raw')]_vars

\* "we leave any other server-populated address indexes alone, so any user-activated
\* (non-default) addresses persist across logins"
LoadKeepsAll ==
    [][\A e \in Env, place \in Source :
         Load(e, place) => PrivKeys(Copy(place)) \subseteq PrivKeys(raw')]_vars

\* "a name for the saved wallet; the wallet can subsequently be loaded by this name"
Loadable == saved["file"] # NoCopy => Loads(saved["file"])
=============================================================================
