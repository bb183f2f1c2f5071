----------------------------- MODULE JwksCache -----------------------------
(***************************************************************************)
(* The JWT middleware and its cache of the provider's keys                 *)
(* (internal/middleware/jwt.go).                                           *)
(*                                                                         *)
(* Every request is a goroutine.  It reads the cache under one lock,       *)
(* fetches the key set without one, replaces the cache under another, and  *)
(* reads it once more under a third; several do so at once.  The provider  *)
(* rotates its keys meanwhile.  A kid names one key: what a token's kid    *)
(* stands for does not change.                                             *)
(***************************************************************************)
EXTENDS Integers

CONSTANTS
    Calls,      \* requests; each is made once, which bounds a run
    Kids,       \* key ids, the empty one of a token without kid included
    Usable,     \* those of RSA keys that parse
    Requests,   \* what a request carries
    TTL,        \* five minutes
    Latency,    \* ten seconds: the longest a keyFunc that refreshes takes
    MaxTime,    \* bound of the clock
    None        \* not there yet

ASSUME KidsAssumption == Usable \subseteq Kids
ASSUME RequestsAssumption ==
    Requests \subseteq [bearer : BOOLEAN,   \* has a bearer token
                       rs256 : BOOLEAN,    \* names RS256 as its method
                       kid : Kids,
                       valid : BOOLEAN]    \* verifies with that key; claims hold
ASSUME TimesAssumption ==
    /\ TTL \in Nat /\ Latency \in Nat /\ MaxTime \in Nat
    /\ Latency < TTL
ASSUME NoneAssumption == None \notin Requests /\ None \notin {"next", "401"}

VARIABLES
    enabled,    \* of the configuration
    now,        \* time
    published,  \* kids of the key set the provider publishes
    gone,       \* history: usable kid -> when it was taken out of the key set
    keys,       \* f.keys, by kid
    last,       \* f.last
    pc,         \* call -> where its goroutine stands
    req,        \* call -> what it carries
    refresh,    \* call -> its refresh, while it lasts
    answer      \* call -> "next", "401" or None

vars == <<enabled, now, published, gone, keys, last, pc, req, refresh, answer>>

\* began: when it began; body: the key set the provider has answered with.
\* History: the kid has been published since it began (steady); the calls
\* whose answer was on the way when it began (older); one of these has
\* replaced the cache after it did (overtaken).
Refreshes == [began : Nat, body : SUBSET Kids, steady : BOOLEAN,
              older : SUBSET Calls, overtaken : BOOLEAN]

\* So long ago that it matters no more: the zero time of f.last, and the time
\* of a kid that is published or never was.
LongAgo == -(TTL + Latency)

Init ==
    /\ enabled \in BOOLEAN
    /\ now = 0
    /\ published \in SUBSET Kids
    /\ gone = [k \in Usable |-> LongAgo]
    /\ keys = {}
    /\ last = LongAgo
    /\ pc = [c \in Calls |-> "new"]
    /\ req = [c \in Calls |-> None]
    /\ refresh = [c \in Calls |-> None]
    /\ answer = [c \in Calls |-> None]

-----------------------------------------------------------------------------
(* The provider and the time.                                              *)

Refreshing(c) == pc[c] \in {"fetch", "reply", "lookup"}

Rotate ==
    /\ \E set \in SUBSET Kids \ {published} :
        /\ published' = set
        /\ gone' = [k \in Usable |->
              CASE k \in set -> LongAgo [] k \in published \ set -> now [] OTHER -> gone[k]]
        /\ refresh' = [c \in Calls |->
              IF Refreshing(c) /\ req[c].kid \notin set
              THEN [refresh[c] EXCEPT !.steady = FALSE] ELSE refresh[c]]
    /\ UNCHANGED <<enabled, now, keys, last, pc, req, answer>>

\* The http.Client gives up after ten seconds; what the goroutine does besides
\* is counted in.
Tick ==
    /\ now < MaxTime
    /\ \A c \in Calls : Refreshing(c) => now < refresh[c].began + Latency
    /\ now' = now + 1
    /\ UNCHANGED <<enabled, published, gone, keys, last, pc, req, refresh, answer>>

-----------------------------------------------------------------------------
(* A request.                                                              *)

Answer(c, a) ==
    /\ pc' = [pc EXCEPT ![c] = "done"]
    /\ answer' = [answer EXCEPT ![c] = a]
    /\ refresh' = [refresh EXCEPT ![c] = None]

\* With its key the library checks the token.
Verify(c, r) == Answer(c, IF r.valid THEN "next" ELSE "401")

\* Mutant: the key set is used for one tick more.
FreshOrJustNot == now - last <= TTL
Fresh == now - last < TTL

BeginRefresh(c, r) ==
    /\ pc' = [pc EXCEPT ![c] = "fetch"]
    /\ refresh' = [refresh EXCEPT ![c] =
                      [began |-> now, body |-> {}, steady |-> r.kid \in published,
                       older |-> {d \in Calls : pc[d] = "reply"}, overtaken |-> FALSE]]
    /\ UNCHANGED answer

\* The handler up to the first unlock in keyFunc.
Receive(c) ==
    /\ pc[c] = "new"
    /\ \E r \in Requests :
        /\ req' = [req EXCEPT ![c] = r]
        /\ \/ ~enabled /\ Answer(c, "next")
           \/ enabled /\ ~(r.bearer /\ r.rs256) /\ Answer(c, "401")
           \/ /\ enabled /\ r.bearer /\ r.rs256
              /\ IF Fresh /\ r.kid \in keys THEN Verify(c, r) ELSE BeginRefresh(c, r)
    /\ UNCHANGED <<enabled, now, published, gone, keys, last>>

\* The provider answers; its answer is on the way, or is being parsed.
ProviderAnswers(c) ==
    /\ pc[c] = "fetch"
    /\ refresh' = [refresh EXCEPT ![c].body = published]
    /\ pc' = [pc EXCEPT ![c] = "reply"]
    /\ UNCHANGED <<enabled, now, published, gone, keys, last, req, answer>>

\* Mutants: keys of other types are not passed over; the keys are added to
\* those in the cache; the cache is left alone when another call has just
\* replaced it.
CacheAll(set) == keys' = set /\ last' = now
CacheKept(set) == keys' = keys \cup (set \cap Usable) /\ last' = now
CacheOnce(set) == IF Fresh THEN UNCHANGED <<keys, last>>
                  ELSE keys' = set \cap Usable /\ last' = now
\* What is cached of a key set.
Cache(set) == keys' = set \cap Usable /\ last' = now

StoreKeys(c) ==
    /\ pc[c] = "reply"
    /\ Cache(refresh[c].body)
    /\ pc' = [pc EXCEPT ![c] = "lookup"]
    /\ refresh' = [d \in Calls |->
          IF pc[d] = "lookup" /\ c \in refresh[d].older
          THEN [refresh[d] EXCEPT !.overtaken = TRUE] ELSE refresh[d]]
    /\ UNCHANGED <<enabled, now, published, gone, req, answer>>

\* The fetch fails, times out or has another status, or its body does not
\* parse: the cache stays.
FailRefresh(c) ==
    /\ pc[c] \in {"fetch", "reply"}
    /\ Answer(c, "401")
    /\ UNCHANGED <<enabled, now, published, gone, keys, last, req>>

\* Mutant: a kid that is not found is waited for.
LookUpAgain(c) ==
    /\ pc[c] = "lookup"
    /\ req[c].kid \in keys
    /\ Verify(c, req[c])
    /\ UNCHANGED <<enabled, now, published, gone, keys, last, req>>
\* The second lookup does not ask how old the cache is.
LookUp(c) ==
    /\ pc[c] = "lookup"
    /\ IF req[c].kid \in keys THEN Verify(c, req[c]) ELSE Answer(c, "401")
    /\ UNCHANGED <<enabled, now, published, gone, keys, last, req>>

Step(c) == StoreKeys(c) \/ LookUp(c)
Next ==
    \/ Rotate \/ Tick
    \/ \E c \in Calls : Receive(c) \/ ProviderAnswers(c) \/ Step(c) \/ FailRefresh(c)

Spec == Init /\ [][Next]_vars

\* The goroutine runs, and its fetch ends one way or the other, since the
\* client has a timeout.
Fairness == \A c \in Calls : WF_vars(Step(c) \/ FailRefresh(c))
FairSpec == Spec /\ Fairness

-----------------------------------------------------------------------------
(* Properties.                                                             *)

TypeOK ==
    /\ enabled \in BOOLEAN
    /\ now \in Nat
    /\ published \in SUBSET Kids
    /\ gone \in [Usable -> Int]
    /\ keys \in SUBSET Usable
    /\ last \in Int
    /\ pc \in [Calls -> {"new", "fetch", "reply", "lookup", "done"}]
    /\ req \in [Calls -> Requests \cup {None}]
    /\ refresh \in [Calls -> Refreshes \cup {None}]
    /\ answer \in [Calls -> {None, "next", "401"}]

\* Published now, or until less than d ago.
PublishedWithin(k, d) == k \in published \/ now - gone[k] < d

\* A request is let through only with a key the provider published at most the
\* time to live and one fetch ago (API.md: "keys loaded from configured JWKS
\* URL (cached 5 minutes)"): however refreshes overlap, a withdrawn key does
\* not live on by being cached again.
WithdrawnKeysExpire ==
    [][\A c \in Calls :
        enabled /\ answer[c] = None /\ answer'[c] = "next" =>
            PublishedWithin(req'[c].kid, TTL + Latency)]_vars

\* A call that has refreshed the cache finds the key of its token there if the
\* provider has published it since the refresh began, unless an answer given
\* before that was stored over its own: what another refresh that began later
\* does never turns a token down.
RefreshFindsKey ==
    \A c \in Calls :
        pc[c] = "lookup" /\ refresh[c].steady /\ req[c].kid \in Usable =>
            req[c].kid \in keys \/ refresh[c].overtaken

-----------------------------------------------------------------------------
(* Why these hold: an inductive invariant.                                 *)

\* A call keeps its refresh as long as it lasts, and that is not long.
RefreshesLast ==
    \A c \in Calls :
        /\ Refreshing(c) => /\ req[c] \in Requests
                            /\ refresh[c] \in Refreshes
                            /\ refresh[c].began <= now
                            /\ now <= refresh[c].began + Latency
                            /\ c \notin refresh[c].older
        /\ pc[c] = "lookup" => refresh[c].began <= last

\* What the provider answered was published after the call had asked, and what
\* is cached at most one fetch before it was cached.
KeySetsRecent ==
    /\ last <= now
    /\ \A c \in Calls : pc[c] = "reply" =>
          \A k \in refresh[c].body \cap Usable : k \in published \/ refresh[c].began <= gone[k]
    /\ \A k \in keys : k \in published \/ last - Latency <= gone[k]

\* A kid that has been published since a refresh began is in all answers but
\* those that are older.
AnswersHaveKid ==
    \A c \in Calls : Refreshing(c) /\ refresh[c].steady =>
        /\ req[c].kid \in published
        /\ \A d \in Calls \ refresh[c].older :
              pc[d] = "reply" => req[c].kid \in refresh[d].body

\* The inductive invariant.
IInv == TypeOK /\ RefreshesLast /\ KeySetsRecent /\ AnswersHaveKid /\ RefreshFindsKey

-----------------------------------------------------------------------------
(* Progress.                                                               *)

\* Every request is let through or refused, even if the provider never answers.
EveryRequestAnswered ==
    \A c \in Calls : pc[c] # "new" ~> answer[c] # None
=============================================================================
