------------------------- MODULE KeyAccounts_proofs -------------------------
(***************************************************************************)
(* Proofs about KeyAccounts, for any keys, lists of imported keys and      *)
(* bounds, and either kind of asset: every address shown can be spent      *)
(* from, on the command line every key is shown, no external key is in two *)
(* accounts, what the user is told to be saved is on the server, and       *)
(* loading loses no key; and, but for ETH, no key is generated twice.      *)
(***************************************************************************)
EXTENDS KeyAccounts, FiniteSetTheorems, TLAPS

(* The addresses shown and the keys: ShownHasKey, about any bag and asset.  *)

EntryHasKey(e, r) ==
    \/ e.path[1] = "~p"
    \/ e.path[1] = "m" /\ e.addr \in Indexes(r.keys) /\ e.path = DefaultPath(e.addr)
    \/ /\ e.path[1] = "~i"
       /\ \E a \in r.imports : \E k \in a.keys :
              a.n = e.path[2] /\ AddressOf(k[1]) = e.addr

HasKeys(bag, r) == \A e \in DOMAIN bag : EntryHasKey(e, r)

\* The addresses that an operation will show when its post is over have their keys: nothing
\* that may happen during the post takes one away.
PostingHasKeys == posting.of = "generate" => HasKeys(posting.addresses, raw)

(* What is being posted is what the operation made of the keys.            *)
PostingIsRaw ==
    posting # NotPosting =>
        ~told /\ PrivKeys(posting.copy) = PrivKeys(raw)

(* An asset and its copies: ImportedOnce, about any of them, and the form  *)
(* of the records that EXCEPT updates.                                     *)
ExternalOf(a) == {k[1] : k \in a.keys}

Disjoint(r) == \A a, b \in r.imports : a # b => ExternalOf(a) \cap ExternalOf(b) = {}

IsRecord(r) ==
    /\ r = [keys |-> r.keys, imports |-> r.imports,
            importCount |-> r.importCount, nonStd |-> r.nonStd]
    /\ \A a \in r.imports : a = [n |-> a.n, keys |-> a.keys]

WellFormed(r) == IsRecord(r) /\ Disjoint(r)

CopiesWellFormed ==
    /\ WellFormed(raw)
    /\ WellFormed(posting.copy)
    /\ saved = [p \in Place |-> saved[p]]
    /\ \A p \in Place : saved[p] # NoCopy => WellFormed(saved[p])

-----------------------------------------------------------------------------
(* Bags *)

\* What a bag holds after an addition.
LEMMA AddDomain ==
    ASSUME NEW bag, NEW e
    PROVE  DOMAIN Added(bag, e) = DOMAIN bag \cup {e}
BY DEF Added, (+), SetToBag

\* What the union of two bags holds.
LEMMA UnionDomain ==
    ASSUME NEW b1, NEW b2
    PROVE  DOMAIN (b1 (+) b2) = DOMAIN b1 \cup DOMAIN b2
BY DEF (+)

\* What the bag of a set holds.
LEMMA SetDomain ==
    ASSUME NEW S
    PROVE  DOMAIN SetToBag(S) = S
BY DEF SetToBag

\* The empty bag, of which Init starts, holds nothing.
LEMMA EmptyDomain == DOMAIN EmptyBag = {}
BY DEF EmptyBag, SetToBag

\* Asset by asset: a bag keeps its keys in an asset that has at least those of another.
LEMMA MoreKeys ==
    ASSUME NEW bag, NEW r, NEW s, HasKeys(bag, r),
           r.keys \subseteq s.keys, r.imports \subseteq s.imports
    PROVE  HasKeys(bag, s)
BY DEF HasKeys, EntryHasKey, Indexes

\* The addresses computed when a wallet is loaded are those of its keys.
LEMMA LoadedHasKeys ==
    ASSUME NEW r
    PROVE  HasKeys(AddressesOf(r), r)
<1> DEFINE held == UNION {{<<a.n, k>> : k \in a.keys} : a \in r.imports}
           entry(h) == AddressEntry(AddressOf(h[2][1]), ImportPath(h[1], h[2][2]))
           default == {AddressEntry(k[2], DefaultPath(k[2])) : k \in r.keys}
<1>1. BagToSet(SetToBag(held)) = held
  BY SetDomain DEF BagToSet
<1>2. DOMAIN AddressesOfImports(r) = {entry(h) : h \in held}
  BY <1>1 DEF AddressesOfImports, BagOfAll
<1>3. DOMAIN AddressesOfDefault(r) = default
  BY SetDomain DEF AddressesOfDefault
<1>4. DOMAIN AddressesOf(r) = DOMAIN AddressesOfDefault(r) \cup DOMAIN AddressesOfImports(r)
  BY UnionDomain DEF AddressesOf
<1>5. ASSUME NEW e \in default PROVE EntryHasKey(e, r)
  BY DEF EntryHasKey, AddressEntry, DefaultPath, Indexes
<1>6. ASSUME NEW h \in held PROVE EntryHasKey(entry(h), r)
  <2>1. PICK a \in r.imports : \E k \in a.keys : h = <<a.n, k>>
    OBVIOUS
  <2>2. PICK k \in a.keys : h = <<a.n, k>>
    BY <2>1
  <2>3. entry(h) = AddressEntry(AddressOf(k[1]), ImportPath(a.n, k[2]))
    BY <2>2
  <2>4. entry(h).path[1] = "~i" /\ entry(h).path[2] = a.n /\ entry(h).addr = AddressOf(k[1])
    BY <2>3 DEF AddressEntry, ImportPath
  <2> QED BY <2>4 DEF EntryHasKey
<1> QED BY <1>2, <1>3, <1>4, <1>5, <1>6 DEF HasKeys

\* The addresses of newly imported keys, all valid, are those of the account made of them.
LEMMA ImportedHaveKeys ==
    ASSUME NEW list \in Lists, NEW r, NEW places, places \subseteq 1..Len(list), NEW n,
           \A j \in places : list[j] \notin Invalid,
           [n |-> n, keys |-> ImportedKeys(list, places)] \in r.imports
    PROVE  HasKeys(ImportedAddresses(list, places, n), r)
<1> DEFINE same(j) == {i \in places : list[i] = list[j]}
           entry(j) == AddressEntry(list[j], ImportPath(n, Leaf(places, Min(same(j)))))
           account == [n |-> n, keys |-> ImportedKeys(list, places)]
<1>1. BagToSet(SetToBag(places)) = places
  BY SetDomain DEF BagToSet
<1>2. DOMAIN ImportedAddresses(list, places, n) = {entry(j) : j \in places}
  BY <1>1 DEF ImportedAddresses, BagOfAll
<1>3. ASSUME NEW j \in places PROVE EntryHasKey(entry(j), r)
  <2>1. entry(j).path[1] = "~i" /\ entry(j).path[2] = n /\ entry(j).addr = list[j]
    BY DEF AddressEntry, ImportPath
  <2>2. <<list[j], Leaf(places, j)>> \in account.keys
    BY DEF ImportedKeys
  <2>3. AddressOf(list[j]) = list[j]
    BY DEF AddressOf
  <2>4. \E k \in account.keys : account.n = entry(j).path[2] /\ AddressOf(k[1]) = entry(j).addr
    BY <2>1, <2>2, <2>3
  <2> QED BY <2>1, <2>4 DEF EntryHasKey
<1> QED BY <1>2, <1>3 DEF HasKeys

-----------------------------------------------------------------------------
(* The copies: no external key is in two import accounts, whichever copy   *)
(* the wallet is loaded from.                                              *)

\* A new wallet's asset.
LEMMA NewWellFormed == WellFormed(NewRaw)
BY DEF WellFormed, IsRecord, Disjoint, NewRaw

\* encryptPrunedAssets takes no key and moves none.
LEMMA PrunedWellFormed ==
    ASSUME NEW r, WellFormed(r)
    PROVE  WellFormed(Pruned(r)) /\ PrivKeys(Pruned(r)) = PrivKeys(r)
<1>1. Pruned(r) = [keys |-> r.keys, imports |-> r.imports, importCount |-> 0, nonStd |-> r.nonStd]
  BY DEF Pruned, WellFormed, IsRecord
<1>2. Pruned(r).keys = r.keys /\ Pruned(r).imports = r.imports
  BY <1>1
<1> QED BY <1>1, <1>2 DEF WellFormed, IsRecord, Disjoint, PrivKeys

\* Loading removes duplicates within an account and puts none into another.
LEMMA RegeneratedWellFormed ==
    ASSUME NEW r, WellFormed(r)
    PROVE  WellFormed(Regenerated(r))
<1> DEFINE new == Regenerated(r)
           unique(a) == [a EXCEPT !.keys = Unique(@)]
<1>1. new = [keys |-> RegeneratedDefault(r.keys), imports |-> {unique(a) : a \in r.imports},
             importCount |-> r.importCount, nonStd |-> r.nonStd]
  BY DEF Regenerated
<1>2. ASSUME NEW a \in r.imports
      PROVE  unique(a) = [n |-> a.n, keys |-> Unique(a.keys)]
  BY DEF WellFormed, IsRecord
<1>3. ASSUME NEW a \in r.imports PROVE ExternalOf(unique(a)) \subseteq ExternalOf(a)
  BY <1>2 DEF ExternalOf, Unique
<1>4. ASSUME NEW a \in new.imports, NEW b \in new.imports, a # b
      PROVE  ExternalOf(a) \cap ExternalOf(b) = {}
  <2>1. PICK a0 \in r.imports : a = unique(a0)
    BY <1>1
  <2>2. PICK b0 \in r.imports : b = unique(b0)
    BY <1>1
  <2>3. ExternalOf(a0) \cap ExternalOf(b0) = {}
    BY <1>4, <2>1, <2>2 DEF WellFormed, Disjoint
  <2> QED BY <1>3, <2>1, <2>2, <2>3
<1>5. ASSUME NEW a \in new.imports PROVE a = [n |-> a.n, keys |-> a.keys]
  <2>1. PICK a0 \in r.imports : a = unique(a0)
    BY <1>1
  <2> QED BY <1>2, <2>1
<1>6. new = [keys |-> new.keys, imports |-> new.imports,
             importCount |-> new.importCount, nonStd |-> new.nonStd]
  BY <1>1
<1> QED BY <1>4, <1>5, <1>6 DEF WellFormed, IsRecord, Disjoint

\* Importing keys that no account holds yet.
LEMMA ImportWellFormed ==
    ASSUME NEW r, WellFormed(r), NEW list
    PROVE  WellFormed(Imported(r, list, NotYetHeld(r, list)))
<1> DEFINE n == r.importCount + 1
           account == [n |-> n, keys |-> ImportedKeys(list, NotYetHeld(r, list))]
           new == Imported(r, list, NotYetHeld(r, list))
<1>1. new = [keys |-> r.keys, imports |-> r.imports \cup {account},
             importCount |-> n, nonStd |-> r.nonStd]
  BY DEF Imported
<1>2. ASSUME NEW x \in ExternalOf(account) PROVE x \notin PrivKeys(r)
  <2>1. PICK k \in ImportedKeys(list, NotYetHeld(r, list)) : x = k[1]
    BY DEF ExternalOf
  <2>2. PICK j \in NotYetHeld(r, list) : k = <<list[j], Leaf(NotYetHeld(r, list), j)>>
    BY DEF ImportedKeys
  <2> QED BY <2>1, <2>2 DEF NotYetHeld
<1>3. ASSUME NEW a \in r.imports PROVE ExternalOf(a) \subseteq PrivKeys(r)
  BY DEF ExternalOf, PrivKeys
<1>4. ASSUME NEW a \in new.imports, NEW b \in new.imports, a # b
      PROVE  ExternalOf(a) \cap ExternalOf(b) = {}
  BY <1>1, <1>2, <1>3, <1>4 DEF WellFormed, Disjoint
<1>5. ASSUME NEW a \in new.imports PROVE a = [n |-> a.n, keys |-> a.keys]
  BY <1>1 DEF WellFormed, IsRecord
<1> QED BY <1>1, <1>4, <1>5 DEF WellFormed, IsRecord, Disjoint

\* What is posted is pruned from what the operation made of the asset.
LEMMA PostWellFormed ==
    ASSUME WellFormed(posting.copy), WellFormed(raw)', NEW op, NEW addresses, Post(op, addresses)
    PROVE  WellFormed(posting.copy)'
<1>1. CASE env = "browser"
  <2>1. posting'.copy = Pruned(raw')
    BY <1>1 DEF Post
  <2>2. WellFormed(Pruned(raw'))
    BY PrunedWellFormed
  <2> QED BY <2>1, <2>2
<1>2. CASE env # "browser"
  BY <1>2 DEF Post
<1> QED BY <1>1, <1>2

\* Every operation, load and save keeps the asset and its copies well formed.
LEMMA WellFormedStep == CopiesWellFormed /\ [Next]_vars => CopiesWellFormed'
<1> SUFFICES ASSUME CopiesWellFormed, [Next]_vars PROVE CopiesWellFormed'
  OBVIOUS
<1> USE DEF CopiesWellFormed
<1>1. ASSUME NEW e \in Env, NEW place \in Source, Load(e, place) PROVE CopiesWellFormed'
  <2>1. WellFormed(Copy(place))
    BY <1>1, NewWellFormed DEF Load, Copy, Source
  <2>2. WellFormed(raw')
    BY <1>1, <2>1, RegeneratedWellFormed DEF Load
  <2>3. WellFormed(Pruned(raw'))
    BY <2>2, PrunedWellFormed
  <2>4. WellFormed(posting'.copy)
    BY <1>1, NewWellFormed DEF Load, NotPosting
  <2>5. saved' = [p \in Place |-> saved'[p]] /\ \A p \in Place : saved'[p] # NoCopy => WellFormed(saved'[p])
    BY <1>1, <2>3 DEF Load
  <2> QED BY <2>2, <2>4, <2>5
<1>2. CASE Generate
  <2>1. WellFormed(raw')
    BY <1>2 DEF Generate, WellFormed, IsRecord, Disjoint
  <2> QED BY <1>2, <2>1, PostWellFormed DEF Generate
<1>3. ASSUME NEW i \in Indexes(raw.keys), Delete(i) PROVE CopiesWellFormed'
  <2>1. WellFormed(raw')
    BY <1>3 DEF Delete, WellFormed, IsRecord, Disjoint
  <2> QED BY <1>3, <2>1, PostWellFormed DEF Delete
<1>4. ASSUME NEW list \in Lists, Import(list) PROVE CopiesWellFormed'
  <2>1. WellFormed(raw')
    BY <1>4, ImportWellFormed DEF Import
  <2>2. WellFormed(posting.copy)'
    BY <1>4, <2>1, PostWellFormed DEF Import
  <2> QED BY <1>4, <2>1, <2>2 DEF Import
<1>5. ASSUME NEW a \in raw.imports, Remove(a.n) PROVE CopiesWellFormed'
  <2>1. WellFormed(raw')
    BY <1>5 DEF Remove, WellFormed, IsRecord, Disjoint
  <2> QED BY <1>5, <2>1, PostWellFormed DEF Remove
<1>6. ASSUME NEW q \in Protected, AddNonStd(q) PROVE CopiesWellFormed'
  <2>1. WellFormed(raw')
    BY <1>6 DEF AddNonStd, WellFormed, IsRecord, Disjoint
  <2> QED BY <1>6, <2>1 DEF AddNonStd
<1>7. CASE Posted
  BY <1>7, NewWellFormed DEF Posted, NotPosting
<1>8. CASE PostFails
  BY <1>8, NewWellFormed DEF PostFails, NotPosting
<1>9. ASSUME NEW place \in Place, Save(place) PROVE CopiesWellFormed'
  <2>1. WellFormed(Pruned(raw))
    BY PrunedWellFormed
  <2> QED BY <1>9, <2>1 DEF Save
<1>10. CASE UNCHANGED vars
  BY <1>10 DEF vars
<1> QED BY <1>1, <1>2, <1>3, <1>4, <1>5, <1>6, <1>7, <1>8, <1>9, <1>10 DEF Next

-----------------------------------------------------------------------------
(* The addresses shown have their keys.                                    *)

\* The address of a new key.
LEMMA AddedHasKey ==
    ASSUME NEW bag, NEW i, NEW r, HasKeys(bag, r), i \in Indexes(r.keys)
    PROVE  HasKeys(Added(bag, AddressEntry(i, DefaultPath(i))), r)
<1> DEFINE new == AddressEntry(i, DefaultPath(i))
<1>1. EntryHasKey(new, r)
  BY DEF EntryHasKey, AddressEntry, DefaultPath
<1>2. DOMAIN Added(bag, new) = DOMAIN bag \cup {new}
  BY AddDomain
<1> QED BY <1>1, <1>2 DEF HasKeys

\* Every step keeps the keys of the addresses that are shown, or will be after the post.
LEMMA ShownStep ==
    CopiesWellFormed /\ ShownHasKey /\ PostingHasKeys /\ [Next]_vars
        => ShownHasKey' /\ PostingHasKeys'
<1> SUFFICES ASSUME CopiesWellFormed, HasKeys(shown, raw), PostingHasKeys, [Next]_vars
             PROVE  HasKeys(shown', raw') /\ PostingHasKeys'
  BY DEF ShownHasKey, HasKeys, EntryHasKey
<1>0. IsRecord(raw)
  BY DEF CopiesWellFormed, WellFormed
<1>1. ASSUME NEW e \in Env, NEW place \in Source, Load(e, place)
      PROVE  HasKeys(shown', raw') /\ PostingHasKeys'
  BY <1>1, LoadedHasKeys DEF Load, PostingHasKeys, NotPosting
<1>2. CASE Generate
  <2> DEFINE i == NextIndex(raw.keys)
             after == Added(shown, AddressEntry(i, DefaultPath(i)))
  <2>1. raw'.keys = raw.keys \cup {<<NextPosition(raw.keys), i>>} /\ raw'.imports = raw.imports
    BY <1>0, <1>2 DEF Generate, IsRecord
  <2>2. HasKeys(shown, raw')
    BY <2>1, MoreKeys
  <2>3. i \in Indexes(raw'.keys)
    BY <2>1 DEF Indexes
  <2>4. HasKeys(after, raw')
    BY <2>2, <2>3, AddedHasKey
  <2>5. shown' = shown \/ shown' = after
    BY <1>2 DEF Generate
  <2>6. posting'.of = "generate" => posting'.addresses = after
    BY <1>2 DEF Generate, Post, Ready, NotPosting
  <2> QED BY <2>2, <2>4, <2>5, <2>6 DEF PostingHasKeys
<1>3. ASSUME NEW i \in Indexes(raw.keys), Delete(i)
      PROVE  HasKeys(shown', raw') /\ PostingHasKeys'
  <2>1. posting'.of # "generate"
    BY <1>3 DEF Delete, Post, Ready, NotPosting
  <2>2. CASE UNCHANGED <<raw, shown>>
    BY <2>1, <2>2 DEF PostingHasKeys
  <2>3. CASE /\ raw' = [raw EXCEPT !.keys = {k \in @ : k[2] # i}]
             /\ shown' = Kept(shown, [e \in DOMAIN shown |-> e.addr # i])
    <3>1. raw'.keys = {k \in raw.keys : k[2] # i} /\ raw'.imports = raw.imports
      BY <1>0, <2>3 DEF IsRecord
    <3>2. ASSUME NEW e \in DOMAIN shown' PROVE e \in DOMAIN shown /\ e.addr # i
      BY <2>3 DEF Kept
    <3>3. ASSUME NEW e \in DOMAIN shown' PROVE EntryHasKey(e, raw')
      <4>1. EntryHasKey(e, raw)
        BY <3>2 DEF HasKeys
      <4>2. e.addr \in Indexes(raw.keys) => e.addr \in Indexes(raw'.keys)
        BY <3>1, <3>2 DEF Indexes
      <4> QED BY <3>1, <4>1, <4>2 DEF EntryHasKey
    <3> QED BY <2>1, <3>3 DEF HasKeys, PostingHasKeys
  <2> QED BY <1>3, <2>2, <2>3 DEF Delete
<1>4. ASSUME NEW list \in Lists, Import(list)
      PROVE  HasKeys(shown', raw') /\ PostingHasKeys'
  <2> DEFINE places == NotYetHeld(raw, list)
             n == raw.importCount + 1
  <2>1. /\ raw'.keys = raw.keys
        /\ raw'.imports = raw.imports \cup {[n |-> n, keys |-> ImportedKeys(list, places)]}
    BY <1>4 DEF Import, Imported
  <2>2. HasKeys(shown, raw')
    BY <2>1, MoreKeys
  <2>3. posting'.of # "generate"
    BY <1>4 DEF Import, Post, Ready, NotPosting
  <2>4. CASE \E j \in places : list[j] \in Invalid
    BY <1>4, <2>2, <2>3, <2>4 DEF Import, PostingHasKeys
  <2>5. CASE \A j \in places : list[j] \notin Invalid
    <3>1. HasKeys(ImportedAddresses(list, places, n), raw')
      BY <2>1, <2>5, ImportedHaveKeys DEF NotYetHeld
    <3>2. shown' = shown (+) ImportedAddresses(list, places, n)
      BY <1>4, <2>5 DEF Import
    <3> QED BY <2>2, <2>3, <3>1, <3>2, UnionDomain DEF HasKeys, PostingHasKeys
  <2> QED BY <2>4, <2>5
<1>5. ASSUME NEW a \in raw.imports, Remove(a.n)
      PROVE  HasKeys(shown', raw') /\ PostingHasKeys'
  <2>1. raw'.keys = raw.keys /\ raw'.imports = {b \in raw.imports : b.n # a.n}
    BY <1>0, <1>5 DEF Remove, IsRecord
  <2>2. ASSUME NEW e \in DOMAIN shown'
        PROVE  e \in DOMAIN shown /\ ~(e.path[1] = "~i" /\ e.path[2] = a.n)
    BY <1>5 DEF Remove, Kept
  <2>3. ASSUME NEW e \in DOMAIN shown' PROVE EntryHasKey(e, raw')
    BY <2>1, <2>2 DEF HasKeys, EntryHasKey
  <2>4. posting'.of # "generate"
    BY <1>5 DEF Remove, Post, Ready, NotPosting
  <2> QED BY <2>3, <2>4 DEF HasKeys, PostingHasKeys
<1>6. ASSUME NEW q \in Protected, AddNonStd(q)
      PROVE  HasKeys(shown', raw') /\ PostingHasKeys'
  <2>1. raw'.keys = raw.keys /\ raw'.imports = raw.imports
    BY <1>0, <1>6 DEF AddNonStd, IsRecord
  <2>2. HasKeys(shown, raw') /\ PostingHasKeys'
    BY <1>6, <2>1, MoreKeys DEF AddNonStd, PostingHasKeys
  <2>3. PICK m : \/ shown' = shown
                 \/ shown' = Added(shown, AddressEntry(q, ProtectedPath(m)))
    BY <1>6 DEF AddNonStd
  <2>4. EntryHasKey(AddressEntry(q, ProtectedPath(m)), raw')
    BY DEF EntryHasKey, AddressEntry, ProtectedPath
  <2>5. DOMAIN shown' \subseteq DOMAIN shown \cup {AddressEntry(q, ProtectedPath(m))}
    BY <2>3, AddDomain
  <2> QED BY <2>2, <2>4, <2>5 DEF HasKeys
<1>7. CASE Posted
  BY <1>7 DEF Posted, AfterPost, PostingHasKeys, NotPosting
<1>8. CASE PostFails
  BY <1>8 DEF PostFails, AfterPost, PostingHasKeys, NotPosting
<1>9. ASSUME NEW place \in Place, Save(place)
      PROVE  HasKeys(shown', raw') /\ PostingHasKeys'
  BY <1>9 DEF Save, PostingHasKeys
<1>10. CASE UNCHANGED vars
  BY <1>10 DEF vars, PostingHasKeys
<1> QED BY <1>1, <1>2, <1>3, <1>4, <1>5, <1>6, <1>7, <1>8, <1>9, <1>10 DEF Next

-----------------------------------------------------------------------------
(* What the user is told to be saved is on the server.                     *)

\* Every step keeps what the user is told to be saved on the server.
LEMMA ToldStep ==
    CopiesWellFormed /\ PostingIsRaw /\ ToldIsSaved /\ [Next]_vars
        => PostingIsRaw' /\ ToldIsSaved'
<1> SUFFICES ASSUME CopiesWellFormed, CopiesWellFormed', PostingIsRaw, ToldIsSaved, [Next]_vars
             PROVE  PostingIsRaw' /\ ToldIsSaved'
  BY WellFormedStep
<1>0. /\ WellFormed(raw) /\ WellFormed(raw)'
      /\ saved = [p \in Place |-> saved[p]] /\ "server" \in Place
  BY DEF CopiesWellFormed, Place
<1>1. ASSUME NEW e \in Env, NEW place \in Source, Load(e, place)
      PROVE  PostingIsRaw' /\ ToldIsSaved'
  <2>1. WellFormed(raw') /\ PrivKeys(Pruned(raw')) = PrivKeys(raw')
    BY <1>0, PrunedWellFormed
  <2>2. \/ told' = FALSE
        \/ saved' = [saved EXCEPT !["server"] = Pruned(raw')]
    BY <1>1 DEF Load
  <2>3. told' => saved'["server"] = Pruned(raw')
    BY <1>0, <2>2
  <2>4. posting' = NotPosting
    BY <1>1 DEF Load
  <2> QED BY <2>1, <2>3, <2>4 DEF PostingIsRaw, ToldIsSaved
<1>2. ASSUME NEW op, NEW addresses, Ready, UNCHANGED <<env, saved>>, Post(op, addresses)
      PROVE  PostingIsRaw' /\ ToldIsSaved'
  <2>1. PrivKeys(Pruned(raw')) = PrivKeys(raw')
    BY <1>0, PrunedWellFormed
  <2>2. CASE env = "browser"
    <3>1. posting'.copy = Pruned(raw') /\ told' = FALSE
      BY <1>2, <2>2 DEF Post
    <3> QED BY <1>2, <2>1, <2>2, <3>1 DEF PostingIsRaw, ToldIsSaved
  <2>3. CASE env # "browser"
    BY <1>2, <2>3 DEF Post, Ready, PostingIsRaw, ToldIsSaved
  <2> QED BY <2>2, <2>3
<1>3. CASE Generate
  BY <1>2, <1>3 DEF Generate
<1>4. ASSUME NEW i \in Indexes(raw.keys), Delete(i) PROVE PostingIsRaw' /\ ToldIsSaved'
  BY <1>2, <1>4 DEF Delete
<1>5. ASSUME NEW list \in Lists, Import(list) PROVE PostingIsRaw' /\ ToldIsSaved'
  <2>1. CASE told' = FALSE /\ UNCHANGED posting
    BY <1>5, <2>1 DEF Import, Ready, PostingIsRaw, ToldIsSaved
  <2>2. CASE Post("import", EmptyBag)
    BY <1>2, <1>5, <2>2 DEF Import
  <2> QED BY <1>5, <2>1, <2>2 DEF Import
<1>6. ASSUME NEW a \in raw.imports, Remove(a.n) PROVE PostingIsRaw' /\ ToldIsSaved'
  BY <1>2, <1>6 DEF Remove
<1>7. ASSUME NEW q \in Protected, AddNonStd(q) PROVE PostingIsRaw' /\ ToldIsSaved'
  <2>1. PrivKeys(raw') = PrivKeys(raw)
    BY <1>0, <1>7 DEF AddNonStd, WellFormed, IsRecord, PrivKeys
  <2> QED BY <1>7, <2>1 DEF AddNonStd, PostingIsRaw, ToldIsSaved
<1>8. CASE Posted
  <2>1. saved'["server"] = posting.copy
    BY <1>0, <1>8 DEF Posted
  <2> QED BY <1>8, <2>1 DEF Posted, PostingIsRaw, ToldIsSaved
<1>9. CASE PostFails
  BY <1>9 DEF PostFails, PostingIsRaw, ToldIsSaved
<1>10. ASSUME NEW place \in Place, Save(place) PROVE PostingIsRaw' /\ ToldIsSaved'
  <2>1. PrivKeys(Pruned(raw)) = PrivKeys(raw)
    BY <1>0, PrunedWellFormed
  <2>2. saved'["server"] = saved["server"] \/ saved'["server"] = Pruned(raw)
    BY <1>0, <1>10 DEF Save, Place
  <2> QED BY <1>10, <2>1, <2>2 DEF Save, PostingIsRaw, ToldIsSaved
<1>11. CASE UNCHANGED vars
  BY <1>11 DEF vars, PostingIsRaw, ToldIsSaved
<1> QED BY <1>1, <1>3, <1>4, <1>5, <1>6, <1>7, <1>8, <1>9, <1>10, <1>11 DEF Next

-----------------------------------------------------------------------------
\* The inductive invariant of the keys, the addresses and the copies.
Consistent ==
    /\ CopiesWellFormed
    /\ ShownHasKey
    /\ PostingHasKeys
    /\ PostingIsRaw
    /\ ToldIsSaved

\* The keys, the addresses shown and the copies of an asset are consistent, whatever is
\* generated, deleted, imported, removed, saved and loaded, and whichever posts fail.
THEOREM Consistency == Spec => []Consistent
<1>1. Init => Consistent
  <2> SUFFICES ASSUME Init PROVE Consistent
    OBVIOUS
  <2>1. CopiesWellFormed
    BY NewWellFormed DEF Init, CopiesWellFormed, NotPosting
  <2>2. ShownHasKey
    BY EmptyDomain DEF Init, ShownHasKey
  <2>3. PostingHasKeys /\ PostingIsRaw /\ ToldIsSaved
    BY DEF Init, PostingHasKeys, PostingIsRaw, ToldIsSaved, NotPosting
  <2> QED BY <2>1, <2>2, <2>3 DEF Consistent
<1>2. Consistent /\ [Next]_vars => Consistent'
  BY WellFormedStep, ShownStep, ToldStep DEF Consistent
<1> QED BY <1>1, <1>2, PTL DEF Spec

\* ShownHasKey: every address shown can be spent from, its key is in the account its path
\* names, also when a post ends after the addresses have changed.
THEOREM ShownCanBeSpent == Spec => []ShownHasKey
<1>1. Consistent => ShownHasKey
  BY DEF Consistent
<1> QED BY <1>1, Consistency, PTL

\* ImportedOnce: no external key is in two import accounts, however imports, removals,
\* saves and loads follow each other.
THEOREM ImportsAreDisjoint == Spec => []ImportedOnce
<1>1. Consistent => ImportedOnce
  BY DEF Consistent, CopiesWellFormed, WellFormed, Disjoint, ExternalOf, ImportedOnce
<1> QED BY <1>1, Consistency, PTL

\* ToldIsSaved: after "Saved Wallet" the server's copy holds the keys of the wallet.
THEOREM ReportedIsSaved == Spec => []ToldIsSaved
<1>1. Consistent => ToldIsSaved
  BY DEF Consistent
<1> QED BY <1>1, Consistency, PTL

-----------------------------------------------------------------------------
(* On the command line every key is shown.                                  *)

(* The keys and the addresses shown: KeyShown, about any bag and asset.    *)
EveryKeyShown(bag, r) ==
    /\ \A i \in Indexes(r.keys) : AddressEntry(i, DefaultPath(i)) \in DOMAIN bag
    /\ \A a \in r.imports : \A k \in a.keys :
           \/ \E l \in a.keys : l[1] \in Invalid
           \/ \E e \in DOMAIN bag : e.addr = k[1] /\ e.path[1] = "~i" /\ e.path[2] = a.n

\* On the command line nothing is posted by an operation, hence none is waiting for an
\* answer with its address still to be shown; and every key is shown.
CliShowsAll == env = "cli" => posting = NotPosting /\ EveryKeyShown(shown, raw)

\* The indexes of the keys after an addition.
LEMMA IndexesAdd ==
    ASSUME NEW keys, NEW p, NEW i
    PROVE  Indexes(keys \cup {<<p, i>>}) = Indexes(keys) \cup {i}
<1> DEFINE new == <<p, i>>
<1>1. new[2] = i
  OBVIOUS
<1> HIDE DEF new
<1>2. {k[2] : k \in keys \cup {new}} = {k[2] : k \in keys} \cup {new[2]}
  OBVIOUS
<1>3. Indexes(keys \cup {new}) = Indexes(keys) \cup {i}
  BY <1>1, <1>2 DEF Indexes
<1> QED BY <1>3 DEF new

\* Loading a wallet computes the address of every key.
LEMMA LoadedAreShown ==
    ASSUME NEW r
    PROVE  EveryKeyShown(AddressesOf(r), r)
<1> DEFINE held == UNION {{<<a.n, k>> : k \in a.keys} : a \in r.imports}
           entry(h) == AddressEntry(AddressOf(h[2][1]), ImportPath(h[1], h[2][2]))
           default == {AddressEntry(k[2], DefaultPath(k[2])) : k \in r.keys}
<1>1. DOMAIN AddressesOfImports(r) = {entry(h) : h \in held}
  BY SetDomain DEF AddressesOfImports, BagOfAll, BagToSet
<1>2. DOMAIN AddressesOfDefault(r) = default
  BY SetDomain DEF AddressesOfDefault
<1>3. DOMAIN AddressesOf(r) = DOMAIN AddressesOfDefault(r) \cup DOMAIN AddressesOfImports(r)
  BY UnionDomain DEF AddressesOf
<1>4. ASSUME NEW i \in Indexes(r.keys)
      PROVE  AddressEntry(i, DefaultPath(i)) \in DOMAIN AddressesOf(r)
  BY <1>2, <1>3 DEF Indexes
<1>5. ASSUME NEW a \in r.imports, NEW k \in a.keys, \A l \in a.keys : l[1] \notin Invalid
      PROVE  \E e \in DOMAIN AddressesOf(r) :
                 e.addr = k[1] /\ e.path[1] = "~i" /\ e.path[2] = a.n
  <2> DEFINE h == <<a.n, k>>
  <2>1. entry(h) \in DOMAIN AddressesOf(r)
    <3>1. h \in held
      OBVIOUS
    <3> QED BY <1>1, <1>3, <3>1
  <2>2. entry(h) = AddressEntry(k[1], ImportPath(a.n, k[2]))
    BY <1>5 DEF AddressOf
  <2>3. entry(h).addr = k[1] /\ entry(h).path[1] = "~i" /\ entry(h).path[2] = a.n
    BY <2>2 DEF AddressEntry, ImportPath
  <2> QED BY <2>1, <2>3
<1> QED BY <1>4, <1>5 DEF EveryKeyShown

\* The addresses of newly imported keys show every key of their account.
LEMMA ImportedAreShown ==
    ASSUME NEW list, NEW places, NEW n, NEW k \in ImportedKeys(list, places)
    PROVE  \E e \in DOMAIN ImportedAddresses(list, places, n) :
               e.addr = k[1] /\ e.path[1] = "~i" /\ e.path[2] = n
<1> DEFINE same(j) == {i \in places : list[i] = list[j]}
           entry(j) == AddressEntry(list[j], ImportPath(n, Leaf(places, Min(same(j)))))
<1>1. DOMAIN ImportedAddresses(list, places, n) = {entry(j) : j \in places}
  BY SetDomain DEF ImportedAddresses, BagOfAll, BagToSet
<1>2. PICK j \in places : k = <<list[j], Leaf(places, j)>>
  BY DEF ImportedKeys
<1>3. entry(j).addr = k[1] /\ entry(j).path[1] = "~i" /\ entry(j).path[2] = n
  BY <1>2 DEF AddressEntry, ImportPath
<1> QED BY <1>1, <1>3

\* Every step of the command line shows every key.
LEMMA CliStep == CopiesWellFormed /\ CliShowsAll /\ [Next]_vars => CliShowsAll'
<1> SUFFICES ASSUME CopiesWellFormed, CliShowsAll, [Next]_vars, env' = "cli"
             PROVE  posting' = NotPosting /\ EveryKeyShown(shown', raw')
  BY DEF CliShowsAll
<1>0. IsRecord(raw)
  BY DEF CopiesWellFormed, WellFormed
<1>1. ASSUME NEW e \in Env, NEW place \in Source, Load(e, place)
      PROVE  posting' = NotPosting /\ EveryKeyShown(shown', raw')
  BY <1>1, LoadedAreShown DEF Load
<1>2. CASE Generate
  <2> DEFINE i == NextIndex(raw.keys)
             new == AddressEntry(i, DefaultPath(i))
  <2>1. raw'.keys = raw.keys \cup {<<NextPosition(raw.keys), i>>} /\ raw'.imports = raw.imports
    BY <1>0, <1>2 DEF Generate, IsRecord
  <2>2. posting' = NotPosting /\ shown' = Added(shown, new)
    BY <1>2 DEF Generate, Post, CliShowsAll, Ready
  <2>3. DOMAIN shown' = DOMAIN shown \cup {new}
    BY <2>2, AddDomain
  <2>4. Indexes(raw'.keys) = Indexes(raw.keys) \cup {i}
    <3>1. Indexes(raw.keys \cup {<<NextPosition(raw.keys), i>>}) = Indexes(raw.keys) \cup {i}
      BY IndexesAdd
    <3> QED BY <2>1, <3>1
  <2>5. EveryKeyShown(shown, raw)
    BY <1>2 DEF CliShowsAll, Generate
  <2>6. ASSUME NEW j \in Indexes(raw'.keys)
        PROVE  AddressEntry(j, DefaultPath(j)) \in DOMAIN shown'
    BY <2>3, <2>4, <2>5 DEF EveryKeyShown
  <2>7. ASSUME NEW a \in raw'.imports, NEW k \in a.keys, \A l \in a.keys : l[1] \notin Invalid
        PROVE  \E e \in DOMAIN shown' : e.addr = k[1] /\ e.path[1] = "~i" /\ e.path[2] = a.n
    BY <2>1, <2>3, <2>5, <2>7 DEF EveryKeyShown
  <2> QED BY <2>2, <2>6, <2>7 DEF EveryKeyShown
<1>3. ASSUME NEW i \in Indexes(raw.keys), Delete(i)
      PROVE  posting' = NotPosting /\ EveryKeyShown(shown', raw')
  BY <1>3 DEF Delete
<1>4. ASSUME NEW list \in Lists, Import(list)
      PROVE  posting' = NotPosting /\ EveryKeyShown(shown', raw')
  <2> DEFINE places == NotYetHeld(raw, list)
             n == raw.importCount + 1
             new == [n |-> n, keys |-> ImportedKeys(list, places)]
  <2>0. posting' = NotPosting /\ EveryKeyShown(shown, raw)
    BY <1>4 DEF Import, Post, CliShowsAll, Ready
  <2>1. raw'.keys = raw.keys /\ raw'.imports = raw.imports \cup {new}
    BY <1>4 DEF Import, Imported
  <2>2. CASE \E j \in places : list[j] \in Invalid
    <3>1. \E l \in new.keys : l[1] \in Invalid
      <4>1. PICK j \in places : list[j] \in Invalid
        BY <2>2
      <4>2. <<list[j], Leaf(places, j)>> \in new.keys
        BY DEF ImportedKeys
      <4> QED BY <4>1, <4>2
    <3>2. shown' = shown
      BY <1>4, <2>2 DEF Import
    <3> QED BY <2>0, <2>1, <3>1, <3>2 DEF EveryKeyShown
  <2>3. CASE \A j \in places : list[j] \notin Invalid
    <3>1. shown' = shown (+) ImportedAddresses(list, places, n)
      BY <1>4, <2>3 DEF Import
    <3>2. DOMAIN shown' = DOMAIN shown \cup DOMAIN ImportedAddresses(list, places, n)
      BY <3>1, UnionDomain
    <3>3. \A k \in new.keys : \E e \in DOMAIN shown' :
              e.addr = k[1] /\ e.path[1] = "~i" /\ e.path[2] = new.n
      BY <3>2, ImportedAreShown
    <3> HIDE DEF new
    <3>4. ASSUME NEW a \in raw'.imports, NEW k \in a.keys
          PROVE  \/ \E l \in a.keys : l[1] \in Invalid
                 \/ \E e \in DOMAIN shown' : e.addr = k[1] /\ e.path[1] = "~i" /\ e.path[2] = a.n
      <4>1. CASE a = new
        BY <3>3, <4>1, Zenon
      <4>2. CASE a \in raw.imports
        <5>1. \/ \E l \in a.keys : l[1] \in Invalid
              \/ \E e \in DOMAIN shown : e.addr = k[1] /\ e.path[1] = "~i" /\ e.path[2] = a.n
          BY <2>0, <4>2, Zenon DEF EveryKeyShown
        <5>2. \A e \in DOMAIN shown : e \in DOMAIN shown'
          BY <3>2, Zenon
        <5> QED BY <5>1, <5>2, Zenon
      <4>3. a = new \/ a \in raw.imports
        BY <2>1, Zenon
      <4> QED BY <4>1, <4>2, <4>3, Zenon
    <3> QED BY <2>0, <2>1, <3>2, <3>4 DEF EveryKeyShown
  <2> QED BY <2>2, <2>3
<1>5. ASSUME NEW a \in raw.imports, Remove(a.n)
      PROVE  posting' = NotPosting /\ EveryKeyShown(shown', raw')
  <2>0. posting' = NotPosting /\ EveryKeyShown(shown, raw)
    BY <1>5 DEF Remove, Post, CliShowsAll, Ready
  <2>1. raw'.keys = raw.keys /\ raw'.imports = {b \in raw.imports : b.n # a.n}
    BY <1>0, <1>5 DEF Remove, IsRecord
  <2>2. \A e \in DOMAIN shown :
            ~(e.path[1] = "~i" /\ e.path[2] = a.n) => e \in DOMAIN shown'
    BY <1>5 DEF Remove, Kept
  <2>3. \A i : AddressEntry(i, DefaultPath(i)).path[1] = "m"
    BY DEF AddressEntry, DefaultPath
  <2>4. \A i \in Indexes(raw'.keys) : AddressEntry(i, DefaultPath(i)) \in DOMAIN shown'
    BY <2>0, <2>1, <2>2, <2>3 DEF EveryKeyShown
  <2>5. ASSUME NEW b \in raw'.imports, NEW k \in b.keys, \A l \in b.keys : l[1] \notin Invalid
        PROVE  \E e \in DOMAIN shown' : e.addr = k[1] /\ e.path[1] = "~i" /\ e.path[2] = b.n
    BY <2>0, <2>1, <2>2, <2>5 DEF EveryKeyShown
  <2> QED BY <2>0, <2>4, <2>5 DEF EveryKeyShown
<1>6. ASSUME NEW q \in Protected, AddNonStd(q)
      PROVE  posting' = NotPosting /\ EveryKeyShown(shown', raw')
  <2>1. raw'.keys = raw.keys /\ raw'.imports = raw.imports
    BY <1>0, <1>6 DEF AddNonStd, IsRecord
  <2>2. PICK m : \/ shown' = shown
                 \/ shown' = Added(shown, AddressEntry(q, ProtectedPath(m)))
    BY <1>6 DEF AddNonStd
  <2> DEFINE new == AddressEntry(q, ProtectedPath(m))
  <2>3. DOMAIN shown \subseteq DOMAIN shown'
    <3>1. DOMAIN Added(shown, new) = DOMAIN shown \cup {new}
      BY AddDomain
    <3> QED BY <2>2, <3>1
  <2> QED BY <1>6, <2>1, <2>3 DEF AddNonStd, CliShowsAll, EveryKeyShown
<1>7. CASE Posted \/ PostFails
  BY <1>7 DEF Posted, PostFails, CliShowsAll
<1>8. ASSUME NEW place \in Place, Save(place)
      PROVE  posting' = NotPosting /\ EveryKeyShown(shown', raw')
  BY <1>8 DEF Save, CliShowsAll
<1>9. CASE UNCHANGED vars
  BY <1>9 DEF vars, CliShowsAll
<1> QED BY <1>1, <1>2, <1>3, <1>4, <1>5, <1>6, <1>7, <1>8, <1>9 DEF Next

\* KeyShown: on the command line every key is shown, but for the accounts whose import has
\* failed on an invalid key.
THEOREM KeysAreShown == Spec => []KeyShown
<1>1. Init => CliShowsAll
  BY DEF Init, CliShowsAll, EveryKeyShown, NewRaw, Indexes
<1>2. Consistent /\ CliShowsAll /\ [Next]_vars => CliShowsAll'
  BY CliStep DEF Consistent
<1>3. CliShowsAll => KeyShown
  BY DEF CliShowsAll, EveryKeyShown, KeyShown
<1> QED BY <1>1, <1>2, <1>3, Consistency, PTL DEF Spec

-----------------------------------------------------------------------------
(* The numbers of the keys: least and greatest elements, finite sets.       *)

\* The least element of a set of natural numbers.
LEMMA MinExists ==
    ASSUME NEW S, S \subseteq Nat, S # {}
    PROVE  Min(S) \in S /\ \A y \in S : Min(S) <= y
<1> DEFINE R == StrictSubsetOrdering(Nat)
           T == {0..k : k \in S}
<1>1. IsWellFoundedOn(R, FiniteSubsetsOf(Nat))
  BY FS_StrictSubsetOrderingWellFounded
<1>2. ASSUME NEW k \in S PROVE 0..k \in FiniteSubsetsOf(Nat)
  BY FS_Interval DEF FiniteSubsetsOf
<1>3. T \subseteq FiniteSubsetsOf(Nat) /\ T # {}
  BY <1>2
<1> HIDE DEF R
<1>4. \E t \in T : \A u \in T : <<u, t>> \notin R
  BY <1>1, <1>3, WFMin
<1>5. PICK m \in S : \A k \in S : <<0..k, 0..m>> \notin R
  BY <1>4
<1>6. ASSUME NEW y \in S PROVE m <= y
  <2>1. m \in Nat /\ y \in Nat
    OBVIOUS
  <2> SUFFICES ASSUME y < m PROVE FALSE
    BY <2>1
  <2>2. 0..y \subseteq 0..m /\ m \in 0..m /\ m \notin 0..y
    BY <2>1
  <2>3. 0..y \in SUBSET Nat /\ 0..m \in SUBSET Nat
    OBVIOUS
  <2>4. <<0..y, 0..m>> \in R
    BY <2>2, <2>3 DEF R, StrictSubsetOrdering
  <2> QED BY <1>5, <2>4
<1> QED BY <1>6 DEF Min

\* The greatest element of a finite set of natural numbers.
LEMMA MaxExists ==
    ASSUME NEW S, S \subseteq Nat, S # {}, IsFiniteSet(S)
    PROVE  Max(S) \in S /\ \A y \in S : Max(S) >= y
<1> DEFINE R == StrictSubsetOrdering(S)
           Above(k) == {x \in S : x > k}
           T == {Above(k) : k \in S}
<1>1. IsWellFoundedOn(R, FiniteSubsetsOf(S))
  BY FS_StrictSubsetOrderingWellFounded
<1>2. ASSUME NEW k \in S PROVE Above(k) \in FiniteSubsetsOf(S)
  BY FS_Subset DEF FiniteSubsetsOf
<1>3. T \subseteq FiniteSubsetsOf(S) /\ T # {}
  BY <1>2
<1> HIDE DEF R
<1>4. \E t \in T : \A u \in T : <<u, t>> \notin R
  BY <1>1, <1>3, WFMin
<1>5. PICK m \in S : \A k \in S : <<Above(k), Above(m)>> \notin R
  BY <1>4
<1>6. ASSUME NEW y \in S PROVE m >= y
  <2>1. m \in Nat /\ y \in Nat
    OBVIOUS
  <2> SUFFICES ASSUME y > m PROVE FALSE
    BY <2>1
  <2>2. ASSUME NEW x \in Above(y) PROVE x \in Above(m)
    <3>1. x \in Nat /\ x > y
      OBVIOUS
    <3> QED BY <2>1, <3>1
  <2>6. y \in Above(m)
    BY <2>1
  <2>5. y \notin Above(y)
    BY <2>1
  <2>3. Above(y) \in SUBSET S /\ Above(m) \in SUBSET S
    OBVIOUS
  <2>4. <<Above(y), Above(m)>> \in R
    BY <2>2, <2>5, <2>6, <2>3 DEF R, StrictSubsetOrdering
  <2> QED BY <1>5, <2>4
<1> QED BY <1>6 DEF Max

\* The indexes of finitely many keys are finitely many, and as many if no two are equal.
LEMMA IndexesFinite ==
    ASSUME NEW keys, IsFiniteSet(keys)
    PROVE  /\ IsFiniteSet(Indexes(keys))
           /\ Cardinality(Indexes(keys)) <= Cardinality(keys)
           /\ (\A k, l \in keys : k[2] = l[2] => k = l)
                 => Cardinality(Indexes(keys)) = Cardinality(keys)
<1> DEFINE f == [k \in keys |-> k[2]]
<1>1. f \in Surjection(keys, Indexes(keys))
  BY DEF Surjection, Indexes
<1>2. (\A k, l \in keys : k[2] = l[2] => k = l) => f \in Injection(keys, Indexes(keys))
  BY DEF Injection, IsInjective, Indexes
<1> HIDE DEF f
<1> QED BY <1>1, <1>2, FS_Surjection

\* A set of indexes sorted.
LEMMA SortedFinite ==
    ASSUME NEW S, IsFiniteSet(S)
    PROVE  IsFiniteSet(Sorted(S))
<1> DEFINE f == [i \in S |-> <<i, i>>]
<1>1. f \in Surjection(S, Sorted(S))
  BY DEF Surjection, Sorted
<1> HIDE DEF f
<1> QED BY <1>1, FS_Surjection

\* The positions of finitely many keys are finitely many.
LEMMA PositionsFinite ==
    ASSUME NEW keys, IsFiniteSet(keys)
    PROVE  IsFiniteSet({k[1] : k \in keys})
<1> DEFINE f == [k \in keys |-> k[1]]
           P == {k[1] : k \in keys}
<1>1. f \in Surjection(keys, P)
  BY DEF Surjection
<1> HIDE DEF f, P
<1>2. IsFiniteSet(P)
  BY <1>1, FS_Surjection
<1> QED BY <1>2 DEF P

\* The lowest free index is free: there is one up to the number of keys.
LEMMA NextIsFree ==
    ASSUME NEW keys \in SUBSET (Nat \X Nat), IsFiniteSet(keys), ~Eth
    PROVE  NextIndex(keys) \in Nat \ Indexes(keys)
<1> DEFINE C == Cardinality(keys)
           free == 0..C \ Indexes(keys)
<1>1. C \in Nat /\ IsFiniteSet(Indexes(keys)) /\ Cardinality(Indexes(keys)) <= C
  BY IndexesFinite, FS_CardinalityType
<1>2. Cardinality(0..C) = C + 1
  BY <1>1, FS_Interval
<1>3. free # {}
  <2> SUFFICES ASSUME 0..C \subseteq Indexes(keys) PROVE FALSE
    OBVIOUS
  <2>1. Cardinality(0..C) <= Cardinality(Indexes(keys)) /\ Cardinality(Indexes(keys)) \in Nat
    BY <1>1, FS_Subset, FS_CardinalityType
  <2> QED BY <1>1, <1>2, <2>1
<1>4. free \subseteq Nat
  BY <1>1
<1>5. Min(free) \in free
  BY <1>3, <1>4, MinExists
<1>6. NextIndex(keys) = Min(free)
  BY DEF NextIndex
<1> QED BY <1>1, <1>5, <1>6

\* The position of a new key is after all others; its index, for ETH, is 0 only if there
\* are none.
LEMMA NextIsLast ==
    ASSUME NEW keys \in SUBSET (Nat \X Nat), IsFiniteSet(keys)
    PROVE  /\ NextPosition(keys) \in Nat
           /\ \A k \in keys : k[1] < NextPosition(keys)
           /\ NextIndex(keys) \in Nat
           /\ Eth /\ NextIndex(keys) = 0 => NextPosition(keys) = 0
<1> DEFINE P == {k[1] : k \in keys}
<1>1. CASE keys = {}
  <2>1. NextPosition(keys) = 0
    BY <1>1 DEF NextPosition
  <2>2. NextIndex(keys) \in Nat
    <3>1. CASE Eth
      BY <1>1, <3>1, FS_EmptySet DEF NextIndex
    <3> QED BY <3>1, NextIsFree
  <2> QED BY <1>1, <2>1, <2>2
<1>2. CASE keys # {}
  <2>1. P \subseteq Nat /\ P # {} /\ IsFiniteSet(P)
    BY <1>2, PositionsFinite
  <2> HIDE DEF P
  <2>2. Max(P) \in P /\ \A y \in P : Max(P) >= y
    BY <2>1, MaxExists
  <2>3. NextPosition(keys) = Max(P) + 1
    BY <1>2 DEF NextPosition, P
  <2>4. \A k \in keys : k[1] \in P
    BY DEF P
  <2>5. NextPosition(keys) \in Nat /\ \A k \in keys : k[1] < NextPosition(keys)
    <3>1. Max(P) \in Nat
      BY <2>1, <2>2
    <3>2. ASSUME NEW k \in keys PROVE k[1] \in Nat /\ Max(P) >= k[1]
      BY <2>1, <2>2, <2>4
    <3> QED BY <2>3, <3>1, <3>2
  <2>6. Cardinality(keys) \in Nat /\ Cardinality(keys) # 0
    BY <1>2, FS_CardinalityType, FS_EmptySet
  <2>7. NextIndex(keys) \in Nat /\ (Eth => NextIndex(keys) # 0)
    <3>1. CASE Eth
      BY <2>6, <3>1 DEF NextIndex
    <3> QED BY <3>1, NextIsFree
  <2> QED BY <2>5, <2>7
<1> QED BY <1>1, <1>2

(* What generating and loading count on, in an asset and in every copy of  *)
(* it: no two keys of the default account have a position in common, nor,  *)
(* but for ETH, an index; for ETH the key of index 0 is the first.         *)
Numbered(r) ==
    /\ r.keys \in SUBSET (Nat \X Nat) /\ IsFiniteSet(r.keys)
    /\ \A k, l \in r.keys : k[1] = l[1] => k = l
    /\ ~Eth => \A k, l \in r.keys : k[2] = l[2] => k = l
    /\ Eth => \A k \in r.keys : k[2] = 0 => k[1] = 0
    /\ \A a \in r.imports : \A k \in a.keys : k[2] \in Nat

CopiesNumbered ==
    /\ Numbered(raw)
    /\ Numbered(posting.copy)
    /\ \A p \in Place : saved[p] # NoCopy => Numbered(saved[p])

\* A new wallet's asset has no keys.
LEMMA NewNumbered == Numbered(NewRaw)
BY FS_EmptySet DEF Numbered, NewRaw

\* encryptPrunedAssets keeps the keys as they are.
LEMMA PrunedNumbered ==
    ASSUME NEW r, IsRecord(r), Numbered(r)
    PROVE  Numbered(Pruned(r))
<1>1. Pruned(r).keys = r.keys /\ Pruned(r).imports = r.imports
  BY DEF Pruned, IsRecord
<1> QED BY <1>1 DEF Numbered

\* Taking keys or accounts away.
LEMMA FewerNumbered ==
    ASSUME NEW r, NEW s, Numbered(r), s.keys \subseteq r.keys, s.imports \subseteq r.imports
    PROVE  Numbered(s)
<1>1. IsFiniteSet(s.keys)
  BY FS_Subset DEF Numbered
<1> QED BY <1>1 DEF Numbered

\* Loading numbers the default account's keys anew.
LEMMA RegeneratedNumbered ==
    ASSUME NEW r, IsRecord(r), Numbered(r)
    PROVE  Numbered(Regenerated(r))
<1> DEFINE new == Regenerated(r)
           unique(a) == [a EXCEPT !.keys = Unique(@)]
<1>1. new.keys = RegeneratedDefault(r.keys) /\ new.imports = {unique(a) : a \in r.imports}
  BY DEF Regenerated
<1>2. PICK first \in SUBSET r.keys : new.keys = Sorted(Indexes(r.keys \ first) \cup {0})
  <2> DEFINE f == IF Eth THEN {k \in r.keys : \A l \in r.keys : k[1] <= l[1]}
                  ELSE {k \in r.keys : \A l \in r.keys : k[2] <= l[2]}
  <2>1. f \in SUBSET r.keys
    OBVIOUS
  <2>2. new.keys = Sorted(Indexes(r.keys \ f) \cup {0})
    BY <1>1 DEF RegeneratedDefault
  <2> QED BY <2>1, <2>2
<1> DEFINE I == Indexes(r.keys \ first) \cup {0}
<1>3. I \subseteq Nat
  BY DEF Indexes, Numbered
<1>4. IsFiniteSet(I)
  <2>1. IsFiniteSet(r.keys \ first)
    BY FS_Subset DEF Numbered
  <2>2. IsFiniteSet(Indexes(r.keys \ first))
    BY <2>1, IndexesFinite
  <2> QED BY <2>2, FS_AddElement
<1>5. new.keys = Sorted(I) /\ IsFiniteSet(new.keys)
  BY <1>2, <1>4, SortedFinite
<1> HIDE DEF I, new, unique
<1>6. \A k \in new.keys : \E i \in Nat : k = <<i, i>>
  BY <1>3, <1>5 DEF Sorted
<1>7. ASSUME NEW a \in new.imports, NEW k \in a.keys PROVE k[2] \in Nat
  <2>1. PICK b \in r.imports : a = unique(b)
    BY <1>1
  <2>2. a.keys = Unique(b.keys)
    BY <2>1 DEF unique, IsRecord
  <2> QED BY <2>2 DEF Unique, Numbered
<1>8. new.keys \in SUBSET (Nat \X Nat) /\ \A k \in new.keys : k[1] = k[2]
  BY <1>6
<1>9. \A k, l \in new.keys : k[1] = l[1] \/ k[2] = l[2] => k = l
  BY <1>6
<1> HIDE DEF Numbered
<1>10. Numbered(new)
  BY <1>5, <1>7, <1>8, <1>9 DEF Numbered
<1> QED BY <1>10 DEF new

\* A newly generated key is not among those there are.
LEMMA GeneratedNumbered ==
    ASSUME NEW r, NEW s, Numbered(r), s.imports = r.imports,
           s.keys = r.keys \cup {<<NextPosition(r.keys), NextIndex(r.keys)>>}
    PROVE  Numbered(s)
<1> DEFINE p == NextPosition(r.keys)
           i == NextIndex(r.keys)
           new == <<p, i>>
<1>1. r.keys \in SUBSET (Nat \X Nat) /\ IsFiniteSet(r.keys)
  BY DEF Numbered
<1>2. p \in Nat /\ i \in Nat /\ (\A k \in r.keys : k[1] < p) /\ (Eth /\ i = 0 => p = 0)
  BY <1>1, NextIsLast
<1>3. ~Eth => \A k \in r.keys : k[2] # i
  BY <1>1, NextIsFree DEF Indexes
<1> HIDE DEF p, i
<1>5. s.keys = r.keys \cup {new}
  BY DEF p, i
<1>4. IsFiniteSet(s.keys)
  <2>1. IsFiniteSet(r.keys \cup {new})
    BY <1>1, FS_AddElement
  <2> QED BY <1>5, <2>1
<1>6. new \in Nat \X Nat /\ new[1] = p /\ new[2] = i
  BY <1>2
<1> HIDE DEF new
<1>7. s.keys \in SUBSET (Nat \X Nat)
  BY <1>1, <1>5, <1>6
<1>8. ASSUME NEW k \in s.keys, NEW l \in s.keys, k[1] = l[1] PROVE k = l
  <2>1. \A j \in r.keys : j[1] \in Nat /\ j[1] # p
    BY <1>1, <1>2
  <2> QED BY <1>5, <1>6, <1>8, <2>1 DEF Numbered
<1>9. ASSUME ~Eth, NEW k \in s.keys, NEW l \in s.keys, k[2] = l[2] PROVE k = l
  BY <1>3, <1>5, <1>6, <1>9 DEF Numbered
<1>10. ASSUME Eth, NEW k \in s.keys, k[2] = 0 PROVE k[1] = 0
  BY <1>2, <1>5, <1>6, <1>10 DEF Numbered
<1>11. \A a \in s.imports : \A k \in a.keys : k[2] \in Nat
  BY DEF Numbered
<1> QED BY <1>4, <1>7, <1>8, <1>9, <1>10, <1>11 DEF Numbered

\* The keys of an import account have their places for leaves.
LEMMA ImportedNumbered ==
    ASSUME NEW r, Numbered(r), NEW list \in Lists
    PROVE  Numbered(Imported(r, list, NotYetHeld(r, list)))
<1> DEFINE places == NotYetHeld(r, list)
           account == [n |-> r.importCount + 1, keys |-> ImportedKeys(list, places)]
           new == Imported(r, list, places)
<1>1. new.keys = r.keys /\ new.imports = r.imports \cup {account}
  BY DEF Imported
<1>2. IsFiniteSet(places)
  <2>1. Len(list) \in Nat
    BY ListsAssumption
  <2>2. IsFiniteSet(1..Len(list))
    BY <2>1, FS_Interval
  <2> QED BY <2>2, FS_Subset DEF NotYetHeld
<1>3. ASSUME NEW j PROVE Leaf(places, j) \in Nat
  <2>1. IsFiniteSet({i \in places : i < j})
    BY <1>2, FS_Subset
  <2> QED BY <2>1, FS_CardinalityType DEF Leaf
<1>4. ASSUME NEW k \in account.keys PROVE k[2] \in Nat
  <2>1. PICK j \in places : k = <<list[j], Leaf(places, j)>>
    BY DEF ImportedKeys
  <2> QED BY <1>3, <2>1
<1> QED BY <1>1, <1>4 DEF Numbered

\* Every operation, load and save keeps the numbers.
LEMMA NumberedStep == CopiesWellFormed /\ CopiesNumbered /\ [Next]_vars => CopiesNumbered'
<1> SUFFICES ASSUME CopiesWellFormed, CopiesWellFormed', CopiesNumbered, [Next]_vars
             PROVE  CopiesNumbered'
  BY WellFormedStep
<1>0. /\ IsRecord(raw) /\ IsRecord(raw')
      /\ saved = [p \in Place |-> saved[p]]
      /\ \A p \in Place : saved[p] # NoCopy => IsRecord(saved[p])
      /\ Numbered(raw) /\ Numbered(posting.copy)
      /\ \A p \in Place : saved[p] # NoCopy => Numbered(saved[p])
  BY DEF CopiesWellFormed, WellFormed, CopiesNumbered
<1>1. ASSUME NEW e \in Env, NEW place \in Source, Load(e, place) PROVE CopiesNumbered'
  <2>0. IsRecord(NewRaw)
    BY DEF IsRecord, NewRaw
  <2>1. IsRecord(Copy(place)) /\ Numbered(Copy(place))
    BY <1>0, <1>1, <2>0, NewNumbered DEF Load, Copy, Source
  <2>2. Numbered(raw')
    BY <1>1, <2>1, RegeneratedNumbered DEF Load
  <2>3. Numbered(Pruned(raw'))
    BY <1>0, <2>2, PrunedNumbered
  <2>4. Numbered(posting'.copy)
    BY <1>1, NewNumbered DEF Load, NotPosting
  <2>5. saved' = saved \/ saved' = [saved EXCEPT !["server"] = Pruned(raw')]
    BY <1>1 DEF Load
  <2>6. \A p \in Place : saved'[p] # NoCopy => Numbered(saved'[p])
    BY <1>0, <2>3, <2>5
  <2> QED BY <2>2, <2>4, <2>6 DEF CopiesNumbered
<1>2. ASSUME NEW op, NEW addresses, Post(op, addresses) \/ UNCHANGED posting,
             UNCHANGED saved, Numbered(raw')
      PROVE  CopiesNumbered'
  <2>1. Numbered(Pruned(raw'))
    BY <1>0, <1>2, PrunedNumbered
  <2>2. posting' = posting \/ posting'.copy = Pruned(raw')
    BY <1>2 DEF Post
  <2> QED BY <1>0, <1>2, <2>1, <2>2 DEF CopiesNumbered
<1>3. CASE Generate
  <2>1. /\ raw'.keys = raw.keys \cup {<<NextPosition(raw.keys), NextIndex(raw.keys)>>}
        /\ raw'.imports = raw.imports
    BY <1>0, <1>3 DEF Generate, IsRecord
  <2>2. Numbered(raw')
    BY <1>0, <2>1, GeneratedNumbered
  <2> QED BY <1>2, <1>3, <2>2 DEF Generate
<1>4. ASSUME NEW i \in Indexes(raw.keys), Delete(i) PROVE CopiesNumbered'
  <2>1. raw'.keys \subseteq raw.keys /\ raw'.imports = raw.imports
    BY <1>0, <1>4 DEF Delete, IsRecord
  <2>2. Numbered(raw')
    BY <1>0, <2>1, FewerNumbered
  <2> QED BY <1>2, <1>4, <2>2 DEF Delete
<1>5. ASSUME NEW list \in Lists, Import(list) PROVE CopiesNumbered'
  <2>1. Numbered(raw')
    BY <1>0, <1>5, ImportedNumbered DEF Import
  <2>2. UNCHANGED saved /\ (UNCHANGED posting \/ Post("import", EmptyBag))
    BY <1>5 DEF Import
  <2> QED BY <1>2, <2>1, <2>2
<1>6. ASSUME NEW a \in raw.imports, Remove(a.n) PROVE CopiesNumbered'
  <2>1. raw'.keys = raw.keys /\ raw'.imports \subseteq raw.imports
    BY <1>0, <1>6 DEF Remove, IsRecord
  <2>2. Numbered(raw')
    BY <1>0, <2>1, FewerNumbered
  <2> QED BY <1>2, <1>6, <2>2 DEF Remove
<1>7. ASSUME NEW q \in Protected, AddNonStd(q) PROVE CopiesNumbered'
  <2>1. raw'.keys = raw.keys /\ raw'.imports = raw.imports
    BY <1>0, <1>7 DEF AddNonStd, IsRecord
  <2>2. Numbered(raw')
    BY <1>0, <2>1, FewerNumbered
  <2> QED BY <1>2, <1>7, <2>2 DEF AddNonStd
<1>8. CASE Posted \/ PostFails
  <2>1. raw' = raw /\ Numbered(posting'.copy)
    BY <1>8, NewNumbered DEF Posted, PostFails, NotPosting
  <2>2. saved' = saved \/ saved' = [saved EXCEPT !["server"] = posting.copy]
    BY <1>8 DEF Posted, PostFails
  <2>3. \A p \in Place : saved'[p] # NoCopy => Numbered(saved'[p])
    BY <1>0, <2>2
  <2> QED BY <1>0, <2>1, <2>3 DEF CopiesNumbered
<1>9. ASSUME NEW place \in Place, Save(place) PROVE CopiesNumbered'
  <2>1. Numbered(Pruned(raw))
    BY <1>0, PrunedNumbered
  <2>2. /\ raw' = raw /\ posting' = posting
        /\ \A p \in Place : saved'[p] \in {saved[p], raw, Pruned(raw)}
    BY <1>0, <1>9 DEF Save
  <2>3. \A p \in Place : saved'[p] # NoCopy => Numbered(saved'[p])
    BY <1>0, <2>1, <2>2
  <2> QED BY <1>0, <2>2, <2>3 DEF CopiesNumbered
<1>10. CASE UNCHANGED vars
  BY <1>10 DEF vars, CopiesNumbered
<1> QED BY <1>1, <1>3, <1>4, <1>5, <1>6, <1>7, <1>8, <1>9, <1>10 DEF Next

-----------------------------------------------------------------------------
(* What generating shows, and what loading keeps.                           *)

\* No address of the default account is in a bag twice: GeneratedOnce, about any bag.
Once(bag) == \A e \in DOMAIN bag : e.path[1] = "m" => bag[e] = 1

\* The same of the addresses an operation will show when its post is over.
PostingOnce == posting.of = "generate" => Once(posting.addresses)

\* The addresses of import accounts are not those of the default account.
LEMMA UnionOnce ==
    ASSUME NEW b1, NEW b2, Once(b1), \A e \in DOMAIN b2 : e.path[1] # "m"
    PROVE  Once(b1 (+) b2)
BY UnionDomain DEF Once, (+)

\* An address that is not among those there are, or not of the default account.
LEMMA AddedOnce ==
    ASSUME NEW bag, NEW e, Once(bag), e \notin DOMAIN bag \/ e.path[1] # "m"
    PROVE  Once(Added(bag, e))
BY AddDomain, SetDomain DEF Once, Added, (+), SetToBag

\* The addresses that are kept are kept as often as they are.
LEMMA KeptOnce ==
    ASSUME NEW bag, NEW keep, Once(bag)
    PROVE  Once(Kept(bag, keep))
BY DEF Once, Kept

\* The addresses of newly imported keys.
LEMMA ImportedPaths ==
    ASSUME NEW list, NEW places, NEW n, NEW e \in DOMAIN ImportedAddresses(list, places, n)
    PROVE  e.path[1] = "~i"
<1> DEFINE same(j) == {i \in places : list[i] = list[j]}
           entry(j) == AddressEntry(list[j], ImportPath(n, Leaf(places, Min(same(j)))))
<1>1. DOMAIN ImportedAddresses(list, places, n) = {entry(j) : j \in places}
  BY SetDomain DEF ImportedAddresses, BagOfAll, BagToSet
<1>2. \A j \in places : entry(j).path[1] = "~i"
  BY DEF AddressEntry, ImportPath
<1> QED BY <1>1, <1>2

\* Loading a wallet computes every address once.
LEMMA LoadedOnce ==
    ASSUME NEW r
    PROVE  Once(AddressesOf(r))
<1> DEFINE held == UNION {{<<a.n, k>> : k \in a.keys} : a \in r.imports}
           entry(h) == AddressEntry(AddressOf(h[2][1]), ImportPath(h[1], h[2][2]))
<1>1. DOMAIN AddressesOfImports(r) = {entry(h) : h \in held}
  BY SetDomain DEF AddressesOfImports, BagOfAll, BagToSet
<1>2. \A e \in DOMAIN AddressesOfImports(r) : e.path[1] # "m"
  BY <1>1 DEF AddressEntry, ImportPath
<1>3. Once(AddressesOfDefault(r))
  BY SetDomain DEF AddressesOfDefault, Once, SetToBag
<1> QED BY <1>2, <1>3, UnionOnce DEF AddressesOf

\* A freshly generated address is not shown yet: its index is free.
LEMMA GeneratedIsNew ==
    ASSUME ~Eth, Numbered(raw), ShownHasKey
    PROVE  AddressEntry(NextIndex(raw.keys), DefaultPath(NextIndex(raw.keys))) \notin DOMAIN shown
<1> DEFINE i == NextIndex(raw.keys)
           e == AddressEntry(i, DefaultPath(i))
<1>1. i \notin Indexes(raw.keys)
  BY NextIsFree DEF Numbered
<1> HIDE DEF i
<1>2. e.addr = i /\ e.path[1] = "m"
  BY DEF AddressEntry, DefaultPath
<1>3. e \notin DOMAIN shown
  BY <1>1, <1>2 DEF ShownHasKey
<1> QED BY <1>3 DEF i

\* Every step shows the addresses of the default account once.
LEMMA OnceStep ==
    ASSUME ~Eth
    PROVE  Numbered(raw) /\ ShownHasKey /\ Once(shown) /\ PostingOnce /\ [Next]_vars
               => Once(shown') /\ PostingOnce'
<1> SUFFICES ASSUME Numbered(raw), ShownHasKey, Once(shown), PostingOnce, [Next]_vars
             PROVE  Once(shown') /\ PostingOnce'
  OBVIOUS
<1>1. ASSUME NEW e \in Env, NEW place \in Source, Load(e, place)
      PROVE  Once(shown') /\ PostingOnce'
  BY <1>1, LoadedOnce DEF Load, PostingOnce, NotPosting
<1>2. CASE Generate
  <2> DEFINE i == NextIndex(raw.keys)
             after == Added(shown, AddressEntry(i, DefaultPath(i)))
  <2>1. Once(after)
    BY GeneratedIsNew, AddedOnce
  <2>2. shown' = shown \/ shown' = after
    BY <1>2 DEF Generate
  <2>3. posting'.of = "generate" => posting'.addresses = after
    BY <1>2 DEF Generate, Post, Ready, NotPosting
  <2> QED BY <2>1, <2>2, <2>3 DEF PostingOnce
<1>3. ASSUME NEW op, NEW addresses, op # "generate", Ready, Post(op, addresses) \/ UNCHANGED posting
      PROVE  PostingOnce'
  BY <1>3 DEF PostingOnce, Post, Ready, NotPosting
<1>4. ASSUME NEW i \in Indexes(raw.keys), Delete(i) PROVE Once(shown') /\ PostingOnce'
  BY <1>3, <1>4, KeptOnce DEF Delete
<1>5. ASSUME NEW list \in Lists, Import(list) PROVE Once(shown') /\ PostingOnce'
  <2>1. PICK places, n : shown' \in {shown, shown (+) ImportedAddresses(list, places, n)}
    BY <1>5 DEF Import
  <2>2. Once(shown (+) ImportedAddresses(list, places, n))
    BY ImportedPaths, UnionOnce
  <2>3. PostingOnce'
    BY <1>3, <1>5 DEF Import
  <2> QED BY <2>1, <2>2, <2>3
<1>6. ASSUME NEW a \in raw.imports, Remove(a.n) PROVE Once(shown') /\ PostingOnce'
  BY <1>3, <1>6, KeptOnce DEF Remove
<1>7. ASSUME NEW q \in Protected, AddNonStd(q) PROVE Once(shown') /\ PostingOnce'
  <2>1. PICK m : shown' \in {shown, Added(shown, AddressEntry(q, ProtectedPath(m)))}
    BY <1>7 DEF AddNonStd
  <2>2. AddressEntry(q, ProtectedPath(m)).path[1] # "m"
    BY DEF AddressEntry, ProtectedPath
  <2>3. Once(Added(shown, AddressEntry(q, ProtectedPath(m))))
    BY <2>2, AddedOnce
  <2> QED BY <1>7, <2>1, <2>3 DEF AddNonStd, PostingOnce
<1>8. CASE Posted \/ PostFails
  BY <1>8 DEF Posted, PostFails, AfterPost, PostingOnce, NotPosting
<1>9. ASSUME NEW place \in Place, Save(place) PROVE Once(shown') /\ PostingOnce'
  BY <1>9 DEF Save, PostingOnce
<1>10. CASE UNCHANGED vars
  BY <1>10 DEF vars, PostingOnce
<1> QED BY <1>1, <1>2, <1>4, <1>5, <1>6, <1>7, <1>8, <1>9, <1>10 DEF Next

\* The keys and their copies are numbered as generating and loading expect, always.
THEOREM Numbering == Spec => []CopiesNumbered
<1>1. Init => CopiesNumbered
  BY NewNumbered DEF Init, CopiesNumbered, NotPosting
<1>2. Consistent /\ CopiesNumbered /\ [Next]_vars => CopiesNumbered'
  BY NumberedStep DEF Consistent
<1> QED BY <1>1, <1>2, Consistency, PTL DEF Spec

\* GeneratedOnce, but for ETH (of which the run "twice" shows that it does not hold): no key
\* is generated twice and no address of the default account is shown twice.
THEOREM KeysAreGeneratedOnce ==
    ASSUME ~Eth
    PROVE  Spec => []GeneratedOnce
<1>1. Init => Once(shown) /\ PostingOnce
  BY EmptyDomain DEF Init, Once, PostingOnce, NotPosting
<1>2. /\ Consistent /\ CopiesNumbered
      /\ Once(shown) /\ PostingOnce
      /\ [Next]_vars
      => Once(shown)' /\ PostingOnce'
  BY OnceStep DEF Consistent, CopiesNumbered
<1>3. CopiesNumbered /\ Once(shown) => GeneratedOnce
  <2> SUFFICES ASSUME Numbered(raw), Once(shown) PROVE GeneratedOnce
    BY DEF CopiesNumbered
  <2>1. Cardinality(Indexes(raw.keys)) = Cardinality(raw.keys)
    BY IndexesFinite DEF Numbered
  <2> QED BY <2>1 DEF GeneratedOnce, Once
<1> QED BY <1>1, <1>2, <1>3, Consistency, Numbering, PTL DEF Spec

\* No import account loses a key to the removal of duplicates.
LEMMA UniqueKeeps ==
    ASSUME NEW keys, \A k \in keys : k[2] \in Nat, NEW k \in keys
    PROVE  \E u \in Unique(keys) : u[1] = k[1]
<1> DEFINE same == {l \in keys : l[1] = k[1]}
           leaves == {l[2] : l \in same}
<1>1. leaves \subseteq Nat /\ leaves # {}
  OBVIOUS
<1>2. Min(leaves) \in leaves /\ \A y \in leaves : Min(leaves) <= y
  BY <1>1, MinExists
<1>3. PICK u \in same : u[2] = Min(leaves)
  BY <1>2
<1>4. \A l \in keys : l[1] = u[1] => u[2] <= l[2]
  BY <1>2, <1>3
<1> QED BY <1>3, <1>4 DEF Unique

\* The key of index 0 is the one that is overwritten, so none is lost.
LEMMA DefaultKeeps ==
    ASSUME NEW r, Numbered(r), 0 \in Indexes(r.keys)
    PROVE  Indexes(r.keys) \subseteq Indexes(RegeneratedDefault(r.keys))
<1> DEFINE first == IF Eth THEN {k \in r.keys : \A l \in r.keys : k[1] <= l[1]}
                    ELSE {k \in r.keys : \A l \in r.keys : k[2] <= l[2]}
<1>1. PICK z \in r.keys : z[2] = 0
  BY DEF Indexes
<1>2. \A k \in r.keys : k[1] \in Nat /\ k[2] \in Nat
  BY DEF Numbered
<1>3. ASSUME NEW k \in first PROVE k[2] = 0
  <2>1. CASE Eth
    <3>1. z[1] = 0
      BY <1>1, <2>1 DEF Numbered
    <3>2. k \in r.keys /\ k[1] <= z[1]
      BY <1>1, <1>3, <2>1
    <3>3. k[1] = z[1]
      BY <1>2, <3>1, <3>2
    <3> QED BY <1>1, <3>2, <3>3 DEF Numbered
  <2>2. CASE ~Eth
    <3>1. k \in r.keys /\ k[2] <= z[2]
      BY <1>1, <1>3, <2>2
    <3> QED BY <1>1, <1>2, <3>1
  <2> QED BY <2>1, <2>2
<1>4. RegeneratedDefault(r.keys) = Sorted(Indexes(r.keys \ first) \cup {0})
  BY DEF RegeneratedDefault
<1> HIDE DEF first
<1>5. Indexes(r.keys) \subseteq Indexes(r.keys \ first) \cup {0}
  BY <1>3 DEF Indexes
<1>6. ASSUME NEW S PROVE S \subseteq Indexes(Sorted(S))
  <2>1. \A i \in S : <<i, i>> \in Sorted(S) /\ <<i, i>>[2] = i
    BY DEF Sorted
  <2> QED BY <2>1 DEF Indexes
<1> QED BY <1>4, <1>5, <1>6

\* A wallet generated from a copy whose default address has not been deleted has its keys.
LEMMA RegeneratedKeeps ==
    ASSUME NEW r, IsRecord(r), Numbered(r), 0 \in Indexes(r.keys)
    PROVE  PrivKeys(r) \subseteq PrivKeys(Regenerated(r))
<1> DEFINE new == Regenerated(r)
           unique(a) == [a EXCEPT !.keys = Unique(@)]
<1>1. new.keys = RegeneratedDefault(r.keys) /\ new.imports = {unique(a) : a \in r.imports}
  BY DEF Regenerated
<1>2. Indexes(r.keys) \subseteq Indexes(new.keys)
  BY <1>1, DefaultKeeps
<1>3. ASSUME NEW a \in r.imports, NEW k \in a.keys
      PROVE  \E b \in new.imports : \E l \in b.keys : l[1] = k[1]
  <2>1. unique(a).keys = Unique(a.keys)
    BY DEF IsRecord
  <2>2. \E l \in Unique(a.keys) : l[1] = k[1]
    BY UniqueKeeps DEF Numbered
  <2> QED BY <1>1, <2>1, <2>2
<1> HIDE DEF new
<1>4. ASSUME NEW x \in {k[1] : k \in UNION {a.keys : a \in r.imports}}
      PROVE  x \in {k[1] : k \in UNION {a.keys : a \in new.imports}}
  BY <1>3
<1>5. PrivKeys(r) \subseteq PrivKeys(new)
  BY <1>2, <1>4 DEF PrivKeys
<1> QED BY <1>5 DEF new

\* LoadKeeps: loading a copy whose default address has not been deleted gives all its keys
\* back, wherever it was saved and whatever the kind of asset.
THEOREM LoadingKeepsKeys == Spec => LoadKeeps
<1>1. Consistent /\ CopiesNumbered
      => \A e \in Env, place \in Source :
             Load(e, place) /\ 0 \in Indexes(Copy(place).keys)
                 => PrivKeys(Copy(place)) \subseteq PrivKeys(raw')
  <2> SUFFICES ASSUME CopiesWellFormed, CopiesNumbered, NEW e \in Env, NEW place \in Source,
                      Load(e, place), 0 \in Indexes(Copy(place).keys)
               PROVE  PrivKeys(Copy(place)) \subseteq PrivKeys(raw')
    BY DEF Consistent
  <2>1. IsRecord(NewRaw) /\ Numbered(NewRaw)
    BY NewNumbered DEF IsRecord, NewRaw
  <2>2. IsRecord(Copy(place)) /\ Numbered(Copy(place))
    BY <2>1 DEF Load, Copy, Source, CopiesWellFormed, WellFormed, CopiesNumbered
  <2>3. raw' = Regenerated(Copy(place))
    BY DEF Load
  <2> QED BY <2>2, <2>3, RegeneratedKeeps
<1> QED BY <1>1, Consistency, Numbering, PTL DEF LoadKeeps
=============================================================================
