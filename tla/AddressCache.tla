----------------------------- MODULE AddressCache -----------------------------
(***************************************************************************)
(* TtlAddressCache and the services that fill it: get_pnl and get_account  *)
(* look the address up, fetch two answers concurrently when it is missing, *)
(* and put the pair.  Requests for one address are not combined.  The age  *)
(* of a value counts from the beginning of its fetch, which lasts at most  *)
(* MaxFetch.  An entry is kept in least-recently-used order.               *)
(***************************************************************************)
EXTENDS Naturals, Sequences, Functions, Filters

CONSTANTS
    Wallet, Render,   \* Render: the requests
    Ttl,              \* _CACHE_TTL_S
    MaxEntries,       \* _CACHE_MAX_ENTRIES
    MaxFetch

ASSUME CacheAssumption == {Ttl, MaxEntries, MaxFetch} \subseteq Nat \ {0}

VARIABLES
    entries,   \* _cache, oldest use first: [wallet, left, age]
    render     \* per request: [at, wallet, age, waiting]

cacheVars == <<entries, render>>

Parts == {"first", "second"}
Resting == [at |-> "idle", wallet |-> CHOOSE w \in Wallet : TRUE, age |-> 0, waiting |-> {}]

CacheInit ==
    /\ entries = <<>>
    /\ render = [r \in Render |-> Resting]

Others(w) == Filter(entries, {e \in Range(entries) : e.wallet # w})
Valid(w) == {i \in DOMAIN entries : entries[i].wallet = w /\ entries[i].left > 0}

\* Mutant of Hit: a hit renews the time to live as well.
HitRenews(i) == Append(Others(entries[i].wallet), [entries[i] EXCEPT !.left = Ttl])

(* A hit makes the entry the most recently used one. *)
Hit(i) == Append(Others(entries[i].wallet), entries[i])

Look(r, w) ==
    /\ render[r].at = "idle"
    /\ IF Valid(w) = {}
       THEN /\ render' = [render EXCEPT ![r] = [at |-> "fetch", wallet |-> w, age |-> 0,
                                                waiting |-> Parts]]
            /\ UNCHANGED entries
       ELSE \E i \in Valid(w) :
              /\ render' = [render EXCEPT ![r] = [at |-> "served", wallet |-> w,
                                                  age |-> entries[i].age, waiting |-> {}]]
              /\ entries' = Hit(i)

(* The expired entries leave, then the least recently used ones. *)
Evicted(es) ==
    LET valid == Filter(es, {e \in Range(es) : e.left > 0})
        excess == IF Len(valid) > MaxEntries THEN Len(valid) - MaxEntries ELSE 0
    IN  SubSeq(valid, excess + 1, Len(valid))

Arrives(r, part) ==
    LET j == render[r]
    IN  /\ part \in j.waiting
        /\ IF j.waiting = {part}
           THEN /\ entries' = Evicted(Append(Others(j.wallet),
                                [wallet |-> j.wallet, left |-> Ttl, age |-> j.age]))
                /\ render' = [render EXCEPT ![r].at = "served", ![r].waiting = {}]
           ELSE /\ render' = [render EXCEPT ![r].waiting = {part2 \in Parts : part2 # part}]
                /\ UNCHANGED entries

(* gather() raises the first failure: nothing is cached. *)
FetchFails(r) ==
    /\ render[r].waiting # {}
    /\ render' = [render EXCEPT ![r] = Resting]
    /\ UNCHANGED entries

Rendered(r) ==
    /\ render[r].at = "served"
    /\ render' = [render EXCEPT ![r] = Resting]
    /\ UNCHANGED entries

CacheAges ==
    /\ \A r \in Render : render[r].at = "fetch" => render[r].age < MaxFetch
    /\ entries' = [i \in DOMAIN entries |->
                     [entries[i] EXCEPT !.left = IF @ > 0 THEN @ - 1 ELSE 0,
                                        !.age = IF entries[i].left > 0 THEN @ + 1 ELSE @]]
    /\ render' = [r \in Render |-> IF render[r].at = "fetch"
                                   THEN [render[r] EXCEPT !.age = @ + 1] ELSE render[r]]

CacheNext ==
    \/ \E r \in Render :
         \/ \E w \in Wallet : Look(r, w)
         \/ \E part \in Parts : Arrives(r, part)
         \/ FetchFails(r) \/ Rendered(r)
    \/ CacheAges

CacheSpec == CacheInit /\ [][CacheNext]_cacheVars

(* What is served was true of the exchange at most one time to live and one
   fetch ago, though hits move entries and concurrent fetches of one wallet
   overwrite each other out of order (_address_cache.py:45-97).            *)
ServedFresh ==
    \A r \in Render : render[r].at = "served" => render[r].age < Ttl + MaxFetch
=============================================================================
