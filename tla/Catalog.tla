------------------------------ MODULE Catalog ------------------------------
(***************************************************************************)
(* The list of models (src/src/models.rs) and the requests for it          *)
(* (serve_catalog in src/src/proxy.rs), which hold a slot (Admission)      *)
(* while they walk through the providers.                                  *)
(*                                                                         *)
(* Providers answer with any of Lists.  The slots their answers cost are   *)
(* UpstreamView's subject; learned ceilings are left out.                  *)
(***************************************************************************)
EXTENDS Admission, SequencesExt

CONSTANTS
  Orders,      \* the sequences of providers that may be configured
  Lists,       \* what a provider may list: sequences of model names
  Aliases,     \* names of the configured aliases, a sequence
  Ttls,        \* what models_ttl_secs may be set to
  MaxAge,      \* ages are told apart up to here
  MaxWalks,    \* bound on the walks under way at once
  NONE         \* no list

ASSUME CatalogAssumption ==
  /\ \A s \in Orders \cup Lists \cup {Aliases} : s \in Seq(ToSet(s))
  /\ Ttls \subseteq 0..MaxAge
  /\ MaxAge \in Nat
  /\ NONE \notin Lists

VARIABLES
  order,       \* names of the configured providers
  ttl,         \* Catalog.ttl_secs
  entries,     \* Catalog.entries, never dropped: [provider -> its list and its age]
  walk         \* [Requests -> how far a request for the list has come]

catalogVars == <<vars, order, ttl, entries, walk>>

Providers == UNION {ToSet(o) : o \in Orders}

Unknown == [models |-> NONE, age |-> MaxAge]

\* todo: the providers left; at: what is done about the first of them; got: the
\* lists so far, each with its provider.  known is history: those providers
\* whose list was there when the walk began.
NoWalk == [at |-> "none", todo |-> <<>>, got |-> <<>>, known |-> {}]

CatalogTypeOK ==
  /\ TypeOK
  /\ order \in Orders
  /\ ttl \in Ttls
  /\ entries \in [Providers -> [models : Lists \cup {NONE}, age : 0..MaxAge]]
  /\ \A r \in Requests :
       /\ walk[r].at \in {"none", "next", "waiting", "sent"}
       /\ walk[r].at # "none" => pc[r] = "held"
       /\ \E o \in Orders : IsSuffix(walk[r].todo, o)
       /\ \A i \in DOMAIN walk[r].got :
            walk[r].got[i] \in [from : Providers, models : Lists]
       /\ walk[r].known \subseteq Providers

CatalogInit ==
  /\ Init
  /\ order \in Orders
  /\ ttl \in Ttls
  /\ entries = [p \in Providers |-> Unknown]
  /\ walk = [r \in Requests |-> NoWalk]

-----------------------------------------------------------------------------
(***************************************************************************)
(* The cache                                                               *)
(***************************************************************************)
Fresh(p) == entries[p].models # NONE /\ entries[p].age < ttl

\* Mutant of Stale: a list out of date is not given.
StaleIfFresh(p) == IF Fresh(p) THEN entries[p].models ELSE NONE

\* The list at any age.
Stale(p) == entries[p].models

Put(p, models) == entries' = [entries EXCEPT ![p] = [models |-> models, age |-> 0]]

-----------------------------------------------------------------------------
(***************************************************************************)
(* merge: aliases first, then the lists in their order, each name once.    *)
(***************************************************************************)
Own == "alias"

\* Mutant of Add: a name that is there takes the later provider's entry.
AddLatest(data, new) ==
  Append(SelectSeq(data, LAMBDA entry : entry.id # new.id), new)

Add(data, new) ==
  IF \E i \in DOMAIN data : data[i].id = new.id THEN data ELSE Append(data, new)

Merge(got) ==
  LET Named(from, names) == [i \in DOMAIN names |-> [id |-> names[i], from |-> from]]
      all == Named(Own, Aliases)
             \o FlattenSeq([i \in DOMAIN got |-> Named(got[i].from, got[i].models)])
  IN FoldLeft(Add, <<>>, all)

-----------------------------------------------------------------------------
(***************************************************************************)
(* A request for the list                                                  *)
(***************************************************************************)
Listing(r, at) == walk[r].at = at
Here(r) == Head(walk[r].todo)

\* The providers are read once.
Begin(r) ==
  /\ pc[r] = "held" /\ Listing(r, "none")
  /\ Cardinality({q \in Requests : ~Listing(q, "none")}) < MaxWalks
  /\ walk' = [walk EXCEPT ![r] =
       [at |-> "next", todo |-> order, got |-> <<>>,
        known |-> {p \in ToSet(order) : entries[p].models # NONE}]]
  /\ UNCHANGED <<vars, order, ttl, entries>>

\* The walk goes on with this provider's list, or without one.
GoesOn(r, models) ==
  walk' = [walk EXCEPT ![r].at = "next", ![r].todo = Tail(@),
                       ![r].got = IF models = NONE THEN @
                                  ELSE Append(@, [from |-> Here(r), models |-> models])]

Look(r) ==
  /\ Listing(r, "next") /\ walk[r].todo # <<>>
  /\ IF Fresh(Here(r)) THEN GoesOn(r, entries[Here(r)].models)
     ELSE walk' = [walk EXCEPT ![r].at = "waiting"]
  /\ UNCHANGED <<vars, order, ttl, entries>>

\* fetch_catalog has a permit: from here on no deadline is looked at.
Send(r) ==
  /\ Listing(r, "waiting")
  /\ walk' = [walk EXCEPT ![r].at = "sent"]
  /\ UNCHANGED <<vars, order, ttl, entries>>

Fetched(r) ==
  /\ Listing(r, "sent")
  /\ \E models \in Lists : Put(Here(r), models) /\ GoesOn(r, models)
  /\ UNCHANGED <<vars, order, ttl>>

\* No lane or the deadline while it waits; no answer or a bad one when it is sent.
NotFetched(r) ==
  /\ Listing(r, "waiting") \/ Listing(r, "sent")
  /\ GoesOn(r, Stale(Here(r)))
  /\ UNCHANGED <<vars, order, ttl, entries>>

Done(r) == Listing(r, "next") /\ walk[r].todo = <<>>

\* The list is answered and the guard dropped; or the client has gone, anywhere.
Ends(r) ==
  /\ End(r)
  /\ walk' = [walk EXCEPT ![r] = NoWalk]
  /\ UNCHANGED <<order, ttl, entries>>

-----------------------------------------------------------------------------
Admits ==
  /\ SetMax \/ \E r \in Requests : ReadCap(r) \/ Claim(r) \/ GiveBack(r)
  /\ UNCHANGED <<order, ttl, entries, walk>>

SetTtl ==
  /\ ttl' \in Ttls \ {ttl}
  /\ UNCHANGED <<vars, order, entries, walk>>

SetProviders ==
  /\ order' \in Orders \ {order}
  /\ UNCHANGED <<vars, ttl, entries, walk>>

Tick ==
  /\ entries' = [p \in Providers |-> [entries[p] EXCEPT !.age = IF @ < MaxAge THEN @ + 1 ELSE @]]
  /\ entries' # entries
  /\ UNCHANGED <<vars, order, ttl, walk>>

CatalogNext ==
  \/ Admits \/ SetTtl \/ SetProviders \/ Tick
  \/ \E r \in Requests :
       Begin(r) \/ Look(r) \/ Send(r) \/ Fetched(r) \/ NotFetched(r) \/ Ends(r)

CatalogSpec == CatalogInit /\ [][CatalogNext]_catalogVars

-----------------------------------------------------------------------------
(***************************************************************************)
(* Properties                                                              *)
(***************************************************************************)

\* "One provider being unreachable must not blank the whole catalog: fall back to
\* what we last saw" (serve_catalog): an answer has a list of every provider whose
\* list was there when the walk began, whatever failed on the way.
NeverBlank ==
  \A r \in Requests : Listing(r, "next") =>
    walk[r].known \subseteq
      ToSet(walk[r].todo) \cup {walk[r].got[i].from : i \in DOMAIN walk[r].got}

\* "Ids are deduped ... First occurrence wins, so provider order in config decides
\* which metadata is shown" (merge): the answer has exactly the names there are,
\* once each, and each from the first who has it.
MergeIsUnion ==
  \A r \in Requests : Done(r) =>
    LET got == walk[r].got
        data == Merge(got)
        Has(i, id) == id \in ToSet(got[i].models)
        ids == ToSet(Aliases) \cup UNION {ToSet(got[i].models) : i \in DOMAIN got}
    IN /\ {data[k].id : k \in DOMAIN data} = ids
       /\ Len(data) = Cardinality(ids)
       /\ \A k \in DOMAIN data :
            LET id == data[k].id IN
            IF id \in ToSet(Aliases) THEN data[k].from = Own
            ELSE \E i \in DOMAIN got :
                   /\ Has(i, id) /\ data[k].from = got[i].from
                   /\ \A j \in 1..(i - 1) : ~Has(j, id)

-----------------------------------------------------------------------------
(***************************************************************************)
(* A promise the code does not keep; no run checks it.                     *)
(***************************************************************************)

\* "served from cache so a harness polling its catalog costs no rate budget" (head
\* of src/src/models.rs): a list is fetched only when the copy is out of date.  Two
\* requests that find it so both fetch it.
FetchedOnlyWhenOld ==
  [][\A r \in Requests : Send(r) => ~Fresh(Here(r))]_catalogVars

=============================================================================
