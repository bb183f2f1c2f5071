-------------------------- MODULE JwksCacheProofs --------------------------
(***************************************************************************)
(* Proofs about JwksCache, for any number of requests, any key sets the    *)
(* provider publishes and any times with Latency < TTL.                    *)
(***************************************************************************)
EXTENDS JwksCache, TLAPS

\* The inductive invariant holds in the initial states.
LEMMA InitInv == Init => IInv
<1> SUFFICES ASSUME Init PROVE IInv
    OBVIOUS
<1> USE DEF Init
<1>1. TypeOK
    BY TimesAssumption DEF TypeOK, LongAgo
<1>2. RefreshesLast /\ AnswersHaveKid /\ RefreshFindsKey
    BY DEF RefreshesLast, AnswersHaveKid, RefreshFindsKey, Refreshing
<1>3. KeySetsRecent
    BY TimesAssumption DEF KeySetsRecent, LongAgo
<1> QED
    BY <1>1, <1>2, <1>3 DEF IInv

\* A call that is answered takes part in nothing any more.
LEMMA AnswerInv ==
    ASSUME IInv, NEW c \in Calls, NEW a \in {"next", "401"},
           NEW r \in Requests, req' = [req EXCEPT ![c] = r], Answer(c, a),
           UNCHANGED <<enabled, now, published, gone, keys, last>>
    PROVE  IInv'
<1> USE DEF IInv, Answer
<1>1. TypeOK'
    BY DEF TypeOK
<1>2. \A d \in Calls \ {c} : /\ pc'[d] = pc[d] /\ req'[d] = req[d]
                             /\ refresh'[d] = refresh[d]
    BY DEF TypeOK
<1>3. pc'[c] = "done"
    BY DEF TypeOK
<1>4. RefreshesLast'
    BY <1>2, <1>3 DEF RefreshesLast, Refreshing
<1>5. KeySetsRecent'
    BY <1>2, <1>3 DEF KeySetsRecent
<1>6. AnswersHaveKid'
    BY <1>2, <1>3 DEF AnswersHaveKid, Refreshing
<1>7. RefreshFindsKey'
    BY <1>2, <1>3 DEF RefreshFindsKey
<1> QED
    BY <1>1, <1>4, <1>5, <1>6, <1>7

\* Rotation only takes kids away from refreshes that are steady.
LEMMA RotateInv == ASSUME IInv, Rotate PROVE IInv'
<1> USE DEF IInv
<1> PICK set \in SUBSET Kids \ {published} :
        /\ published' = set
        /\ gone' = [k \in Usable |->
              CASE k \in set -> LongAgo [] k \in published \ set -> now [] OTHER -> gone[k]]
        /\ refresh' = [c \in Calls |->
              IF Refreshing(c) /\ req[c].kid \notin set
              THEN [refresh[c] EXCEPT !.steady = FALSE] ELSE refresh[c]]
    BY DEF Rotate
<1>1. UNCHANGED <<enabled, now, keys, last, pc, req, answer>>
    BY DEF Rotate
<1>2. \A c \in Calls : Refreshing(c) =>
        /\ refresh[c] \in Refreshes /\ refresh'[c] \in Refreshes
        /\ refresh'[c].began = refresh[c].began /\ refresh'[c].body = refresh[c].body
        /\ refresh'[c].older = refresh[c].older
        /\ refresh'[c].overtaken = refresh[c].overtaken
        /\ refresh'[c].steady => refresh[c].steady /\ req[c].kid \in set
    <2> SUFFICES ASSUME NEW c \in Calls, Refreshing(c)
                 PROVE  /\ refresh[c] \in Refreshes /\ refresh'[c] \in Refreshes
                        /\ refresh'[c].began = refresh[c].began
                        /\ refresh'[c].body = refresh[c].body
                        /\ refresh'[c].older = refresh[c].older
                        /\ refresh'[c].overtaken = refresh[c].overtaken
                        /\ refresh'[c].steady => refresh[c].steady /\ req[c].kid \in set
        OBVIOUS
    <2>1. refresh[c] \in Refreshes
        BY DEF RefreshesLast
    <2>2. CASE req[c].kid \in set
        BY <2>1, <2>2
    <2>3. CASE req[c].kid \notin set
        BY <2>1, <2>3 DEF Refreshes
    <2> QED
        BY <2>2, <2>3
<1>3. \A c \in Calls : ~Refreshing(c) => refresh'[c] = refresh[c]
    OBVIOUS
<1>4. \A k \in Usable : \/ k \in published'
                        \/ k \in published /\ gone'[k] = now
                        \/ k \notin published /\ gone'[k] = gone[k]
    OBVIOUS
<1>5. TypeOK'
    <2>1. gone' \in [Usable -> Int]
        BY TimesAssumption DEF TypeOK, LongAgo
    <2>2. refresh' \in [Calls -> Refreshes \cup {None}]
        BY <1>2, <1>3 DEF TypeOK
    <2> QED
        BY <1>1, <2>1, <2>2 DEF TypeOK
<1>6. RefreshesLast'
    BY <1>1, <1>2 DEF RefreshesLast, Refreshing
<1>7. KeySetsRecent'
    <2>1. ASSUME NEW c \in Calls, pc[c] = "reply", NEW k \in refresh'[c].body \cap Usable
          PROVE  k \in published' \/ refresh'[c].began <= gone'[k]
        <3>1. Refreshing(c)
            BY <2>1 DEF Refreshing
        <3>2. /\ refresh'[c].began = refresh[c].began /\ refresh'[c].body = refresh[c].body
              /\ refresh[c].began <= now
            BY <1>2, <3>1 DEF RefreshesLast
        <3>3. k \in published \/ refresh[c].began <= gone[k]
            BY <2>1, <3>2 DEF KeySetsRecent
        <3> QED
            BY <1>4, <3>2, <3>3
    <2>2. ASSUME NEW k \in keys
          PROVE  k \in published' \/ last - Latency <= gone'[k]
        <3>1. k \in Usable /\ now \in Nat /\ last \in Int /\ last <= now
            BY DEF TypeOK, KeySetsRecent
        <3>2. k \in published \/ last - Latency <= gone[k]
            BY DEF KeySetsRecent
        <3> QED
            BY <1>4, <3>1, <3>2, TimesAssumption
    <2> QED
        BY <1>1, <2>1, <2>2 DEF KeySetsRecent
<1>8. AnswersHaveKid'
    BY <1>1, <1>2 DEF AnswersHaveKid, Refreshing
<1>9. RefreshFindsKey'
    BY <1>1, <1>2 DEF RefreshFindsKey, Refreshing
<1> QED
    BY <1>5, <1>6, <1>7, <1>8, <1>9

\* Time passes no refresh by.
LEMMA TickInv == ASSUME IInv, Tick PROVE IInv'
<1> USE DEF IInv, Tick
<1>1. TypeOK'
    BY DEF TypeOK
<1>2. RefreshesLast'
    <2> SUFFICES ASSUME NEW c \in Calls, Refreshing(c)
                 PROVE  refresh[c].began <= now' /\ now' <= refresh[c].began + Latency
        BY DEF RefreshesLast, Refreshing
    <2>1. refresh[c].began \in Nat /\ refresh[c].began <= now /\ now < refresh[c].began + Latency
        BY DEF RefreshesLast, Refreshes
    <2> QED
        BY <2>1, TimesAssumption DEF TypeOK
<1>3. KeySetsRecent'
    BY DEF KeySetsRecent, TypeOK
<1>4. AnswersHaveKid' /\ RefreshFindsKey'
    BY DEF AnswersHaveKid, RefreshFindsKey, Refreshing
<1> QED
    BY <1>1, <1>2, <1>3, <1>4

\* A refresh that begins has nothing to show, and knows whose answers are on
\* the way.
LEMMA BeginInv ==
    ASSUME IInv, NEW c \in Calls, NEW r \in Requests, pc[c] = "new",
           req' = [req EXCEPT ![c] = r], BeginRefresh(c, r),
           UNCHANGED <<enabled, now, published, gone, keys, last>>
    PROVE  IInv'
<1> USE DEF IInv, BeginRefresh
<1>1. \A d \in Calls \ {c} : /\ pc'[d] = pc[d] /\ req'[d] = req[d]
                             /\ refresh'[d] = refresh[d]
    BY DEF TypeOK
<1>2. /\ pc'[c] = "fetch" /\ req'[c] = r
      /\ refresh'[c] = [began |-> now, body |-> {}, steady |-> r.kid \in published,
                        older |-> {d \in Calls : pc[d] = "reply"}, overtaken |-> FALSE]
    BY DEF TypeOK
<1>3. refresh'[c] \in Refreshes
    BY <1>2 DEF Refreshes, TypeOK
<1>4. TypeOK'
    BY <1>3 DEF TypeOK
<1>5. RefreshesLast'
    BY <1>1, <1>2, <1>3, TimesAssumption DEF RefreshesLast, Refreshing, TypeOK
<1>6. KeySetsRecent'
    BY <1>1, <1>2 DEF KeySetsRecent
<1>7. AnswersHaveKid'
    <2> SUFFICES ASSUME NEW b \in Calls, Refreshing(b)', refresh'[b].steady
                 PROVE  /\ req'[b].kid \in published
                        /\ \A d \in Calls \ refresh'[b].older :
                              pc'[d] = "reply" => req'[b].kid \in refresh'[d].body
        BY DEF AnswersHaveKid
    <2>1. \A d \in Calls : pc'[d] = "reply" =>
              d # c /\ pc[d] = "reply" /\ refresh'[d] = refresh[d]
        BY <1>1, <1>2
    <2>2. CASE b = c
        <3>1. r.kid \in published
            <4>1. [began |-> now, body |-> {}, steady |-> r.kid \in published,
                   older |-> {d \in Calls : pc[d] = "reply"}, overtaken |-> FALSE].steady
                      = (r.kid \in published)
                BY Zenon
            <4> QED
                BY <4>1, <1>2, <2>2, Zenon
        <3>2. \A d \in Calls : pc'[d] = "reply" => d \in refresh'[b].older
            BY <2>1, <2>2, <1>2
        <3> QED
            BY <1>2, <2>2, <3>1, <3>2
    <2>3. CASE b # c
        BY <2>1, <2>3, <1>1 DEF AnswersHaveKid, Refreshing
    <2> QED
        BY <2>2, <2>3
<1>8. RefreshFindsKey'
    BY <1>1, <1>2 DEF RefreshFindsKey
<1> QED
    BY <1>4, <1>5, <1>6, <1>7, <1>8

\* What a request begins with preserves the invariant.
LEMMA ReceiveInv == ASSUME IInv, NEW c \in Calls, Receive(c) PROVE IInv'
<1> PICK r \in Requests :
        /\ req' = [req EXCEPT ![c] = r]
        /\ \/ ~enabled /\ Answer(c, "next")
           \/ enabled /\ ~(r.bearer /\ r.rs256) /\ Answer(c, "401")
           \/ /\ enabled /\ r.bearer /\ r.rs256
              /\ IF Fresh /\ r.kid \in keys THEN Verify(c, r) ELSE BeginRefresh(c, r)
    BY DEF Receive
<1>1. UNCHANGED <<enabled, now, published, gone, keys, last>> /\ pc[c] = "new"
    BY DEF Receive
<1>2. CASE BeginRefresh(c, r)
    BY <1>1, <1>2, BeginInv
<1>3. CASE \E a \in {"next", "401"} : Answer(c, a)
    BY <1>1, <1>3, AnswerInv
<1>4. Verify(c, r) => \E a \in {"next", "401"} : Answer(c, a)
    BY DEF Verify
<1> QED
    BY <1>2, <1>3, <1>4

\* The provider's answer is what it publishes.
LEMMA ProviderAnswersInv == ASSUME IInv, NEW c \in Calls, ProviderAnswers(c) PROVE IInv'
<1> USE DEF IInv
<1>1. /\ refresh[c] \in Refreshes /\ pc[c] = "fetch"
      /\ refresh' = [refresh EXCEPT ![c].body = published]
      /\ pc' = [pc EXCEPT ![c] = "reply"]
      /\ UNCHANGED <<enabled, now, published, gone, keys, last, req, answer>>
    BY DEF ProviderAnswers, RefreshesLast, Refreshing
<1>2. \A d \in Calls \ {c} : pc'[d] = pc[d] /\ refresh'[d] = refresh[d]
    BY <1>1 DEF TypeOK
<1>3. /\ pc'[c] = "reply" /\ refresh'[c].body = published
      /\ refresh'[c] \in Refreshes
      /\ refresh'[c].began = refresh[c].began /\ refresh'[c].steady = refresh[c].steady
      /\ refresh'[c].older = refresh[c].older
    BY <1>1 DEF TypeOK, Refreshes
<1>4. TypeOK'
    BY <1>1, <1>2, <1>3 DEF TypeOK
<1>5. RefreshesLast'
    BY <1>1, <1>2, <1>3 DEF RefreshesLast, Refreshing
<1>6. KeySetsRecent'
    BY <1>1, <1>2, <1>3 DEF KeySetsRecent
<1>7. AnswersHaveKid'
    BY <1>1, <1>2, <1>3 DEF AnswersHaveKid, Refreshing
<1>8. RefreshFindsKey'
    BY <1>1, <1>2, <1>3 DEF RefreshFindsKey
<1> QED
    BY <1>4, <1>5, <1>6, <1>7, <1>8

\* A cache that is replaced holds every kid that was published throughout the
\* refreshes under way, but for what an older answer takes away.
LEMMA StoreKeysInv == ASSUME IInv, NEW c \in Calls, StoreKeys(c) PROVE IInv'
<1> USE DEF IInv
<1>1. /\ refresh[c] \in Refreshes /\ pc[c] = "reply"
      /\ refresh[c].began <= now /\ now <= refresh[c].began + Latency
      /\ keys' = refresh[c].body \cap Usable /\ last' = now
      /\ pc' = [pc EXCEPT ![c] = "lookup"]
      /\ UNCHANGED <<enabled, now, published, gone, req, answer>>
    BY DEF StoreKeys, Cache, RefreshesLast, Refreshing
<1>2. \A d \in Calls :
        refresh'[d] = IF pc[d] = "lookup" /\ c \in refresh[d].older
                      THEN [refresh[d] EXCEPT !.overtaken = TRUE] ELSE refresh[d]
    BY DEF StoreKeys
<1>3. \A d \in Calls : pc'[d] = IF d = c THEN "lookup" ELSE pc[d]
    BY <1>1 DEF TypeOK
<1>4. \A d \in Calls : Refreshing(d) =>
        /\ refresh[d] \in Refreshes /\ refresh'[d] \in Refreshes
        /\ refresh'[d].began = refresh[d].began /\ refresh'[d].body = refresh[d].body
        /\ refresh'[d].steady = refresh[d].steady /\ refresh'[d].older = refresh[d].older
        /\ pc[d] = "lookup" /\ c \in refresh[d].older => refresh'[d].overtaken
    <2> SUFFICES ASSUME NEW d \in Calls, Refreshing(d)
                 PROVE  /\ refresh[d] \in Refreshes /\ refresh'[d] \in Refreshes
                        /\ refresh'[d].began = refresh[d].began
                        /\ refresh'[d].body = refresh[d].body
                        /\ refresh'[d].steady = refresh[d].steady
                        /\ refresh'[d].older = refresh[d].older
                        /\ pc[d] = "lookup" /\ c \in refresh[d].older
                              => refresh'[d].overtaken
        OBVIOUS
    <2>1. refresh[d] \in Refreshes
        BY DEF RefreshesLast
    <2>2. CASE pc[d] = "lookup" /\ c \in refresh[d].older
        <3>1. refresh'[d] = [refresh[d] EXCEPT !.overtaken = TRUE]
            BY <1>2, <2>2
        <3> QED
            BY <2>1, <3>1 DEF Refreshes
    <2>3. CASE ~(pc[d] = "lookup" /\ c \in refresh[d].older)
        BY <1>2, <2>1, <2>3
    <2> QED
        BY <2>2, <2>3
<1>5. \A d \in Calls : ~Refreshing(d) => refresh'[d] = refresh[d]
    BY <1>2 DEF Refreshing
<1>6. Refreshing(c) /\ \A d \in Calls : Refreshing(d)' = Refreshing(d)
    BY <1>1, <1>3 DEF Refreshing
<1>7. TypeOK'
    <2>1. refresh' \in [Calls -> Refreshes \cup {None}]
        BY <1>4, <1>5 DEF TypeOK, StoreKeys
    <2>2. keys' \in SUBSET Usable /\ last' \in Int
        BY <1>1 DEF TypeOK
    <2>3. pc' \in [Calls -> {"new", "fetch", "reply", "lookup", "done"}]
        BY <1>1 DEF TypeOK
    <2> QED
        BY <1>1, <2>1, <2>2, <2>3 DEF TypeOK
<1>8. RefreshesLast'
    <2> SUFFICES ASSUME NEW d \in Calls, Refreshing(d)
                 PROVE  /\ req[d] \in Requests /\ refresh'[d] \in Refreshes
                        /\ refresh'[d].began <= now
                        /\ now <= refresh'[d].began + Latency
                        /\ d \notin refresh'[d].older
        BY <1>1, <1>6 DEF RefreshesLast, Refreshing
    <2> QED
        BY <1>4 DEF RefreshesLast
<1>9. KeySetsRecent'
    <2>1. \A d \in Calls : pc'[d] = "reply" => d # c /\ pc[d] = "reply" /\ Refreshing(d)
        BY <1>3 DEF Refreshing
    <2>2. ASSUME NEW k \in keys'
          PROVE  k \in published \/ now - Latency <= gone[k]
        <3>1. k \in Usable /\ (k \in published \/ refresh[c].began <= gone[k])
            BY <1>1, <2>2 DEF KeySetsRecent
        <3>2. gone[k] \in Int /\ refresh[c].began \in Nat /\ now \in Nat
            BY <1>1, <3>1 DEF TypeOK, Refreshes
        <3> QED
            BY <1>1, <3>1, <3>2, TimesAssumption
    <2> QED
        BY <1>1, <1>4, <2>1, <2>2 DEF KeySetsRecent, TypeOK
<1>10. AnswersHaveKid'
    BY <1>1, <1>3, <1>4, <1>6 DEF AnswersHaveKid, Refreshing
<1>11. RefreshFindsKey'
    <2> SUFFICES ASSUME NEW d \in Calls, pc'[d] = "lookup", refresh'[d].steady,
                        req[d].kid \in Usable
                 PROVE  req[d].kid \in keys' \/ refresh'[d].overtaken
        BY <1>1 DEF RefreshFindsKey
    <2>1. Refreshing(d) /\ refresh[d].steady
        BY <1>4, <1>6 DEF Refreshing
    <2>2. CASE c \notin refresh[d].older
        BY <1>1, <2>1, <2>2 DEF AnswersHaveKid
    <2>3. CASE c \in refresh[d].older /\ d # c
        BY <1>3, <1>4, <2>1, <2>3
    <2>4. CASE c \in refresh[d].older /\ d = c
        BY <2>1, <2>4 DEF RefreshesLast
    <2> QED
        BY <2>2, <2>3, <2>4
<1> QED
    BY <1>7, <1>8, <1>9, <1>10, <1>11

\* The steps that end a call.
LEMMA EndInv ==
    ASSUME IInv, NEW c \in Calls, FailRefresh(c) \/ LookUp(c)
    PROVE  IInv'
<1>1. req[c] \in Requests
    BY DEF IInv, FailRefresh, LookUp, RefreshesLast, Refreshing
<1>2. req' = [req EXCEPT ![c] = req[c]]
    BY DEF IInv, TypeOK, FailRefresh, LookUp
<1>3. UNCHANGED <<enabled, now, published, gone, keys, last>>
    BY DEF FailRefresh, LookUp
<1>4. \E a \in {"next", "401"} : Answer(c, a)
    BY DEF FailRefresh, LookUp, Verify
<1> QED
    BY <1>1, <1>2, <1>3, <1>4, AnswerInv

\* Every step preserves the invariant.
LEMMA StepInv == IInv /\ [Next]_vars => IInv'
<1> SUFFICES ASSUME IInv, [Next]_vars PROVE IInv'
    OBVIOUS
<1>1. CASE Rotate
    BY <1>1, RotateInv
<1>2. CASE Tick
    BY <1>2, TickInv
<1>3. ASSUME NEW c \in Calls, Receive(c) PROVE IInv'
    BY <1>3, ReceiveInv
<1>4. ASSUME NEW c \in Calls, ProviderAnswers(c) PROVE IInv'
    BY <1>4, ProviderAnswersInv
<1>5. ASSUME NEW c \in Calls, StoreKeys(c) PROVE IInv'
    BY <1>5, StoreKeysInv
<1>6. ASSUME NEW c \in Calls, FailRefresh(c) \/ LookUp(c) PROVE IInv'
    BY <1>6, EndInv
<1>7. CASE UNCHANGED vars
    BY <1>7 DEF vars, IInv, TypeOK, RefreshesLast, KeySetsRecent, AnswersHaveKid,
                RefreshFindsKey, Refreshing
<1> QED
    BY <1>1, <1>2, <1>3, <1>4, <1>5, <1>6, <1>7 DEF Next, Step

\* The inductive invariant holds throughout.
THEOREM Invariance == Spec => []IInv
BY InitInv, StepInv, PTL DEF Spec

\* The variables keep their types: in particular only usable keys are cached
\* (jwt.go:210).
THEOREM TypeCorrect == Spec => []TypeOK
BY Invariance, PTL DEF IInv

\* A refresh that others overlap finds the key of a token it was made for, if
\* no older answer overtakes it (keyFunc, jwt.go:161).
THEOREM RefreshesFind == Spec => []RefreshFindsKey
BY Invariance, PTL DEF IInv

\* A kid that is cached was published less than the time to live and a fetch
\* ago when it lets a request through.
LEMMA LetThrough ==
    ASSUME IInv, NEW c \in Calls, Next, enabled, answer[c] = None, answer'[c] = "next"
    PROVE  PublishedWithin(req'[c].kid, TTL + Latency)
<1> USE DEF IInv
<1>1. "next" # None
    BY NoneAssumption
<1>2. CASE \E d \in Calls : Receive(d)
    <2> PICK d \in Calls : Receive(d)
        BY <1>2
    <2> PICK r \in Requests :
            /\ req' = [req EXCEPT ![d] = r]
            /\ \/ Answer(d, "401")
               \/ Fresh /\ r.kid \in keys /\ Verify(d, r)
               \/ BeginRefresh(d, r)
        BY DEF Receive
    <2>1. answer' = answer \/ \E a \in {"next", "401"} : answer' = [answer EXCEPT ![d] = a]
        BY DEF Answer, Verify, BeginRefresh
    <2>2. d = c
        BY <1>1, <2>1 DEF TypeOK
    <2>3. answer' # answer /\ ~Answer(d, "401")
        BY <1>1, <2>2 DEF Answer, TypeOK
    <2>4. Fresh /\ r.kid \in keys
        BY <2>3 DEF BeginRefresh
    <2>5. UNCHANGED <<now, published, gone>> /\ req'[c].kid = r.kid
        BY <2>2 DEF Receive, TypeOK
    <2>6. r.kid \in published \/ last - Latency <= gone[r.kid]
        BY <2>4 DEF KeySetsRecent
    <2>7. gone[r.kid] \in Int /\ last \in Int /\ now \in Nat /\ now - last < TTL
        BY <2>4, KidsAssumption DEF TypeOK, Fresh
    <2>8. r.kid \in published \/ now - gone[r.kid] < TTL + Latency
        BY <2>6, <2>7, TimesAssumption
    <2> QED
        BY <2>5, <2>8 DEF PublishedWithin
<1>3. CASE \E d \in Calls : LookUp(d)
    <2> PICK d \in Calls : LookUp(d)
        BY <1>3
    <2>1. \E a \in {"next", "401"} : answer' = [answer EXCEPT ![d] = a]
        BY DEF LookUp, Answer, Verify
    <2>2. d = c
        BY <1>1, <2>1 DEF TypeOK
    <2>3. ~Answer(c, "401")
        BY <2>2 DEF Answer, TypeOK
    <2> DEFINE kid == req[c].kid
    <2>4. kid \in keys /\ pc[c] = "lookup"
        BY <2>2, <2>3 DEF LookUp
    <2>5. /\ refresh[c] \in Refreshes /\ refresh[c].began <= last
          /\ now <= refresh[c].began + Latency
        BY <2>4 DEF RefreshesLast, Refreshing
    <2>6. UNCHANGED <<now, published, gone, req>>
        BY DEF LookUp
    <2>7. kid \in published \/ last - Latency <= gone[kid]
        BY <2>4 DEF KeySetsRecent
    <2>8. gone[kid] \in Int /\ last \in Int /\ now \in Nat /\ refresh[c].began \in Nat
        BY <2>4, <2>5 DEF TypeOK, Refreshes
    <2>9. kid \in published \/ now - gone[kid] < TTL + Latency
        BY <2>5, <2>7, <2>8, TimesAssumption
    <2> QED
        BY <2>6, <2>9 DEF PublishedWithin
<1>4. CASE \E d \in Calls : FailRefresh(d)
    BY <1>1, <1>4 DEF FailRefresh, Answer, TypeOK
<1>5. CASE UNCHANGED answer
    BY <1>1, <1>5
<1> QED
    BY <1>2, <1>3, <1>4, <1>5 DEF Next, Step, Rotate, Tick, ProviderAnswers, StoreKeys

\* A withdrawn key lets no request through once the time to live and one fetch
\* have passed (jwt.go:152).
THEOREM WithdrawnKeysGone == Spec => WithdrawnKeysExpire
<1>1. IInv /\ [Next]_vars =>
        [\A c \in Calls :
            enabled /\ answer[c] = None /\ answer'[c] = "next" =>
                PublishedWithin(req'[c].kid, TTL + Latency)]_vars
    <2> SUFFICES ASSUME IInv, [Next]_vars, NEW c \in Calls,
                        enabled, answer[c] = None, answer'[c] = "next", vars' # vars
                 PROVE  PublishedWithin(req'[c].kid, TTL + Latency)
        OBVIOUS
    <2> QED
        BY LetThrough
<1> QED
    BY <1>1, Invariance, PTL DEF Spec, WithdrawnKeysExpire
=============================================================================
