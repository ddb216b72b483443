------------------------------ MODULE CacheProofs ------------------------------
(***************************************************************************)
(* The two caches of the exchanges that many requests share: the trade     *)
(* flow of Bitget and the access token of Toss.                            *)
(***************************************************************************)
EXTENDS TradeFlow, TossToken, TLAPS

-----------------------------------------------------------------------------
(***************************************************************************)
(* TradeFlow, for every set of callers and length of the window: fetches   *)
(* only ever reach further back, and the fetch state never hides a hole    *)
(* that neither the page limit nor the retention has made.                 *)
(***************************************************************************)

(* Whoever has passed the wait holds the lock of the key.                  *)
HolderWorks ==
  \A c \in Callers : /\ caller[c] \in {"looking", "fetching", "storing"} => flowLock = c
                     /\ caller[c] # "away" => from[c] \in Hours

NobodyFetches == \A c \in Callers : caller[c] \notin {"fetching", "storing"}

(* Every fetch begins before the hour that is covered, or is the first:    *)
(* what it has cost already is bounded by how far back it reaches.         *)
FetchesDescend ==
  /\ \A c \in Callers :
       caller[c] \in {"fetching", "storing"} => fetched + from[c] <= LastHour + 1
  /\ fresh => covered # 0
  /\ NobodyFetches /\ fresh => fetched + covered <= LastHour + 1
  /\ NobodyFetches /\ ~fresh => fetched = 0
  /\ fetched <= LastHour

(* What a caller has yet to store is all that its window still lacks.      *)
HolesKnown ==
  /\ \A c \in Callers :
       caller[c] = "storing" => (from[c]..LastHour) \ (rows \cup got[c]) \subseteq missed
  /\ NoSilentHole

FlowInv == FlowTypeOK /\ HolderWorks /\ FetchesDescend /\ HolesKnown

-----------------------------------------------------------------------------
LEMMA FlowInvInit == FlowInit => FlowInv
<1> SUFFICES ASSUME FlowInit PROVE FlowInv
  OBVIOUS
<1>1. FlowTypeOK
  <2>1. fresh \in BOOLEAN
    BY DEF FlowInit
  <2>2. fetched \in Nat /\ covered \in 0..LastHour
    BY FlowAssumption DEF FlowInit
  <2>3. from \in [Callers -> 0..LastHour]
    BY FlowAssumption DEF FlowInit
  <2> QED
    BY <2>1, <2>2, <2>3 DEF FlowInit, FlowTypeOK
<1>2. HolderWorks /\ FetchesDescend
  BY FlowAssumption DEF FlowInit, HolderWorks, NobodyFetches, FetchesDescend
<1>3. HolesKnown
  BY DEF FlowInit, HolesKnown, NoSilentHole
<1> QED
  BY <1>1, <1>2, <1>3 DEF FlowInv

(* A caller that leaves releases the lock: nobody works afterwards.        *)
LEMMA LeaveFrees ==
  ASSUME FlowTypeOK, HolderWorks, NEW c \in Callers, flowLock = c, Leave(c)
  PROVE  /\ caller' \in [Callers -> {"away", "waiting", "looking", "fetching", "storing"}]
         /\ from' \in [Callers -> 0..LastHour] /\ got' \in [Callers -> SUBSET Hours]
         /\ flowLock' \in Callers \cup {"free"}
         /\ \A d \in Callers : caller'[d] \notin {"looking", "fetching", "storing"}
         /\ HolderWorks'
<1>1. \A d \in Callers \ {c} : caller[d] \notin {"looking", "fetching", "storing"}
  BY FlowAssumption DEF HolderWorks
<1>2. \A d \in Callers : caller'[d] \notin {"looking", "fetching", "storing"}
  BY <1>1 DEF Leave, FlowTypeOK
<1>3. HolderWorks'
  BY <1>2 DEF Leave, FlowTypeOK, HolderWorks
<1> QED
  BY <1>2, <1>3, FlowAssumption DEF Leave, FlowTypeOK

LEMMA FlowInvNext == FlowInv /\ [FlowNext]_flowVars => FlowInv'
<1> SUFFICES ASSUME FlowInv, [FlowNext]_flowVars PROVE FlowInv'
  OBVIOUS
<1> USE FlowAssumption DEF FlowInv
<1>1. ASSUME NEW c \in Callers, AskFlow(c) PROVE FlowInv'
  <2>1. FlowTypeOK' /\ HolderWorks'
    BY <1>1 DEF AskFlow, FlowTypeOK, HolderWorks, Hours
  <2>2. FetchesDescend'
    BY <1>1 DEF AskFlow, FlowTypeOK, NobodyFetches, FetchesDescend, Hours
  <2>3. HolesKnown'
    BY <1>1 DEF AskFlow, FlowTypeOK, HolesKnown, NoSilentHole
  <2> QED
    BY <2>1, <2>2, <2>3
<1>2. ASSUME NEW c \in Callers, AcquireFlow(c) PROVE FlowInv'
  <2>1. FlowTypeOK' /\ HolderWorks'
    BY <1>2 DEF AcquireFlow, FlowTypeOK, HolderWorks
  <2>2. FetchesDescend'
    BY <1>2 DEF AcquireFlow, FlowTypeOK, NobodyFetches, FetchesDescend
  <2>3. HolesKnown'
    BY <1>2 DEF AcquireFlow, FlowTypeOK, HolesKnown, NoSilentHole
  <2> QED
    BY <2>1, <2>2, <2>3
<1>3. ASSUME NEW c \in Callers, FilledMeanwhile(c) PROVE FlowInv'
  <2>1. Leave(c) /\ flowLock = c
    BY <1>3 DEF FilledMeanwhile, HolderWorks
  <2>2. FlowTypeOK' /\ HolderWorks'
    BY <1>3, <2>1, LeaveFrees DEF FilledMeanwhile, FlowTypeOK
  <2>3. FetchesDescend'
    <3>1. NobodyFetches /\ NobodyFetches'
      BY <1>3, <2>1, LeaveFrees DEF FilledMeanwhile, HolderWorks, NobodyFetches
    <3> QED
      BY <1>3, <3>1 DEF FilledMeanwhile, NobodyFetches, FetchesDescend
  <2>4. HolesKnown'
    BY <1>3, <2>1, LeaveFrees DEF FilledMeanwhile, HolesKnown, NoSilentHole
  <2> QED
    BY <2>2, <2>3, <2>4
<1>4. ASSUME NEW c \in Callers, BeginFetch(c) PROVE FlowInv'
  <2>1. \A d \in Callers : caller[d] \notin {"fetching", "storing"}
    \* Nobody else works, for c has the lock.
    BY <1>4 DEF BeginFetch, HolderWorks
  <2>2. fetched + 1 + from[c] <= LastHour + 1
    <3>1. from[c] \in Nat /\ from[c] <= LastHour /\ covered \in Nat /\ fetched \in Nat
      BY <1>4 DEF BeginFetch, HolderWorks, FlowTypeOK, Hours
    <3>2. CASE fresh
      <4>1. from[c] < covered /\ fetched + covered <= LastHour + 1
        BY <1>4, <2>1, <3>1, <3>2 DEF BeginFetch, Covered, NobodyFetches, FetchesDescend
      <4> QED
        BY <3>1, <4>1
    <3>3. CASE ~fresh
      BY <2>1, <3>1, <3>3 DEF NobodyFetches, FetchesDescend
    <3> QED
      BY <3>2, <3>3
  <2>3. FlowTypeOK' /\ HolderWorks'
    BY <1>4 DEF BeginFetch, FlowTypeOK, HolderWorks
  <2>4. FetchesDescend'
    BY <1>4, <2>1, <2>2 DEF BeginFetch, FlowTypeOK, HolderWorks, NobodyFetches,
                            FetchesDescend, Hours
  <2>5. HolesKnown'
    BY <1>4 DEF BeginFetch, FlowTypeOK, HolesKnown, NoSilentHole
  <2> QED
    BY <2>3, <2>4, <2>5
<1>5. ASSUME NEW c \in Callers, FetchBlindly(c) PROVE FlowInv'
  <2>1. \A d \in Callers : caller[d] \notin {"fetching", "storing"}
    BY <1>5 DEF FetchBlindly, HolderWorks
  <2>2. FlowTypeOK' /\ HolderWorks'
    BY <1>5 DEF FetchBlindly, FlowTypeOK, HolderWorks
  <2>3. FetchesDescend'
    BY <1>5, <2>1 DEF FetchBlindly, FlowTypeOK, HolderWorks, NobodyFetches, FetchesDescend, Hours
  <2>4. HolesKnown'
    BY <1>5 DEF FetchBlindly, FlowTypeOK, HolesKnown, NoSilentHole
  <2> QED
    BY <2>2, <2>3, <2>4
<1>6. ASSUME NEW c \in Callers, FetchAnswers(c) PROVE FlowInv'
  <2>1. PICK reach \in from[c]..LastHour :
          /\ got' = [got EXCEPT ![c] = reach..LastHour]
          /\ missed' = missed \cup (from[c]..(reach - 1))
    BY <1>6 DEF FetchAnswers
  <2>2. from[c] \in Hours /\ reach \in Hours
    BY <1>6, <2>1 DEF FetchAnswers, HolderWorks, Hours, FlowTypeOK
  <2>3. FlowTypeOK' /\ HolderWorks'
    <3>1. reach..LastHour \in SUBSET Hours /\ from[c]..(reach - 1) \in SUBSET Hours
      BY <2>2 DEF Hours
    <3>2. got' \in [Callers -> SUBSET Hours] /\ missed' \in SUBSET Hours
      BY <2>1, <3>1 DEF FlowTypeOK
    <3> QED
      BY <1>6, <3>2 DEF FetchAnswers, FlowTypeOK, HolderWorks
  <2>4. FetchesDescend'
    BY <1>6 DEF FetchAnswers, FlowTypeOK, NobodyFetches, FetchesDescend
  <2>5. (from[c]..LastHour) \ (rows \cup got'[c]) \subseteq missed'
    BY <2>1, <2>2 DEF FlowTypeOK, Hours
  <2>6. HolesKnown'
    BY <1>6, <2>1, <2>5 DEF FetchAnswers, FlowTypeOK, HolesKnown, NoSilentHole
  <2> QED
    BY <2>3, <2>4, <2>6
<1>7. ASSUME NEW c \in Callers, StoreChunk(c) PROVE FlowInv'
  <2>1. PICK h \in got[c] :
          /\ got' = [got EXCEPT ![c] = @ \ {h}]
          /\ rows' = rows \cup {h} /\ missed' = missed \ {h}
    BY <1>7 DEF StoreChunk
  <2>2. FlowTypeOK' /\ HolderWorks'
    BY <1>7, <2>1 DEF StoreChunk, FlowTypeOK, HolderWorks
  <2>3. FetchesDescend'
    BY <1>7 DEF StoreChunk, FlowTypeOK, NobodyFetches, FetchesDescend
  <2>4. HolesKnown'
    BY <1>7, <2>1 DEF StoreChunk, FlowTypeOK, HolesKnown, NoSilentHole
  <2> QED
    BY <2>2, <2>3, <2>4
<1>8. ASSUME NEW c \in Callers, StoreState(c) PROVE FlowInv'
  <2>1. Leave(c) /\ flowLock = c /\ from[c] \in Hours /\ got[c] = {}
    BY <1>8 DEF StoreState, MayMark, HolderWorks
  <2>2. FlowTypeOK' /\ HolderWorks'
    BY <1>8, <2>1, LeaveFrees DEF StoreState, FlowTypeOK, Hours
  <2>3. FetchesDescend'
    BY <1>8, <2>1, LeaveFrees DEF StoreState, NobodyFetches, FetchesDescend, Hours
  <2>4. HolesKnown'
    BY <1>8, <2>1, LeaveFrees DEF StoreState, HolesKnown, NoSilentHole
  <2> QED
    BY <2>2, <2>3, <2>4
<1>9. ASSUME NEW c \in Callers, FlowFails(c) PROVE FlowInv'
  <2>1. Leave(c) /\ flowLock = c
    BY <1>9 DEF FlowFails, HolderWorks
  <2>2. FlowTypeOK' /\ HolderWorks'
    BY <1>9, <2>1, LeaveFrees DEF FlowFails, FlowTypeOK
  <2>3. FetchesDescend'
    BY <1>9, <2>1, LeaveFrees DEF FlowFails, FlowTypeOK, NobodyFetches, FetchesDescend
  <2>4. HolesKnown'
    BY <1>9, <2>1, LeaveFrees DEF FlowFails, HolesKnown, NoSilentHole
  <2> QED
    BY <2>2, <2>3, <2>4
<1>10. CASE FlowExpires
  <2>1. FlowTypeOK' /\ HolderWorks' /\ HolesKnown'
    BY <1>10 DEF FlowExpires, FlowTypeOK, HolderWorks, HolesKnown, NoSilentHole
  <2>2. FetchesDescend'
    BY <1>10 DEF FlowExpires, FlowTypeOK, HolderWorks, NobodyFetches, FetchesDescend, Hours
  <2> QED
    BY <2>1, <2>2
<1>11. CASE PruneFills
  <2>1. PICK h \in Hours : rows' = rows \ (1..h) /\ missed' = missed \cup (rows \cap 1..h)
    BY <1>11 DEF PruneFills
  <2>2. FlowTypeOK' /\ HolderWorks'
    BY <1>11, <2>1 DEF PruneFills, FlowTypeOK, HolderWorks
  <2>3. FetchesDescend'
    BY <1>11 DEF PruneFills, FlowTypeOK, NobodyFetches, FetchesDescend
  <2>4. HolesKnown'
    BY <1>11, <2>1 DEF PruneFills, FlowTypeOK, HolesKnown, NoSilentHole
  <2> QED
    BY <2>2, <2>3, <2>4
<1>12. CASE FlowDies
  <2>1. FlowTypeOK' /\ HolderWorks'
    BY <1>12 DEF FlowDies, FlowTypeOK, HolderWorks
  <2>2. FetchesDescend'
    BY <1>12 DEF FlowDies, FlowTypeOK, NobodyFetches, FetchesDescend
  <2>3. HolesKnown'
    BY <1>12 DEF FlowDies, HolesKnown, NoSilentHole
  <2> QED
    BY <2>1, <2>2, <2>3
<1>13. CASE UNCHANGED flowVars
  BY <1>13 DEF flowVars, FlowTypeOK, HolderWorks, NobodyFetches, FetchesDescend,
               HolesKnown, NoSilentHole
<1> QED
  BY <1>1, <1>2, <1>3, <1>4, <1>5, <1>6, <1>7, <1>8, <1>9, <1>10, <1>11, <1>12, <1>13
  DEF FlowNext

LEMMA FlowInvariant == FlowSpec => []FlowInv
BY FlowInvInit, FlowInvNext, PTL DEF FlowSpec

-----------------------------------------------------------------------------
(* The types of the cache and its callers.                                 *)
THEOREM FlowTypesCorrect == FlowSpec => []FlowTypeOK
<1>1. FlowInv => FlowTypeOK
  BY DEF FlowInv
<1> QED
  BY <1>1, FlowInvariant, PTL

(* However many callers ask, a fetch that follows another before the cache *)
(* expires reaches further back (the second look in get_trade_flow).       *)
THEOREM FlowFetchesReachBack == FlowSpec => []FetchesReachBack
<1>1. FlowInv => FetchesReachBack
  BY DEF FlowInv, NobodyFetches, FetchesDescend, FetchesReachBack
<1> QED
  BY <1>1, FlowInvariant, PTL

(* Whatever fails, dies or is pruned in between, the only holes the fetch  *)
(* state hides are those of the page limit and the retention (the order of *)
(* the transactions of store_fills).                                       *)
THEOREM FlowHidesNoHole == FlowSpec => []NoSilentHole
<1>1. FlowInv => NoSilentHole
  BY DEF FlowInv, HolesKnown
<1> QED
  BY <1>1, FlowInvariant, PTL

-----------------------------------------------------------------------------
(***************************************************************************)
(* TossToken, for every set of requests and number of disturbances: the    *)
(* requests of one event loop never end each other's token.                *)
(*                                                                         *)
(* The argument counts.  A token that Toss has revoked or the cache has    *)
(* given up is a debt of one token; tokens and debt together never exceed  *)
(* the disturbances by more than one, and a token is issued only while the *)
(* debt stands.                                                            *)
(***************************************************************************)

Owed == IF cached = 0 \/ revoked THEN 1 ELSE 0

Paid == issued + Owed <= disturbances + 1

(* The cache has the last token or none.                                   *)
CacheIsLast == cached = 0 \/ cached = issued

LockIsExclusive ==
  \A q \in Requests : request[q] \in {"locked", "issuing"} <=> tokenLock = q

(* Who rejects the token of the cache has seen it revoked, and who issues  *)
(* has found a debt.                                                       *)
ForcedSawRevoked ==
  \A q \in Requests :
    /\ forced[q] /\ cached # 0 /\ using[q] = cached => revoked
    /\ request[q] = "issuing" => cached = 0 \/ revoked

(* A second token is the second one issued, or a later one.                *)
SecondTokenIsNewer ==
  \A q \in Requests :
    /\ forced[q] => retried[q] /\ using[q] >= 1 /\ request[q] \notin {"new", "send"}
    /\ request[q] = "rejected" => forced[q]
    /\ request[q] = "send" => using[q] >= 1
    /\ request[q] = "send" /\ retried[q] => using[q] >= 2
    /\ request[q] \in {"new", "locked", "issuing"} /\ retried[q] /\ ~forced[q] => issued >= 2
    /\ request[q] = "stopped" => disturbances >= 2

TokenInv == /\ TokenTypeOK /\ Paid /\ CacheIsLast
            /\ LockIsExclusive /\ ForcedSawRevoked /\ SecondTokenIsNewer

-----------------------------------------------------------------------------
LEMMA TokenInvInit == TokenInit => TokenInv
<1> SUFFICES ASSUME TokenInit PROVE TokenInv
  OBVIOUS
<1>1. TokenTypeOK
  <2>1. /\ revoked \in BOOLEAN
        /\ retried \in [Requests -> BOOLEAN] /\ forced \in [Requests -> BOOLEAN]
    BY DEF TokenInit
  <2>2. issued \in Nat /\ cached \in 0..issued /\ disturbances \in 0..MaxDisturbances
    BY TokenAssumption DEF TokenInit
  <2>3. using \in [Requests -> 0..issued]
    BY DEF TokenInit
  <2> QED
    BY <2>1, <2>2, <2>3 DEF TokenInit, TokenTypeOK
<1>2. Paid /\ CacheIsLast
  BY DEF TokenInit, Paid, Owed, CacheIsLast
<1>3. LockIsExclusive
  BY TokenAssumption DEF TokenInit, LockIsExclusive
<1>4. ForcedSawRevoked /\ SecondTokenIsNewer
  BY DEF TokenInit, ForcedSawRevoked, SecondTokenIsNewer
<1> QED
  BY <1>1, <1>2, <1>3, <1>4 DEF TokenInv

LEMMA TokenInvNext == TokenInv /\ [TokenNext]_tokenVars => TokenInv'
<1> SUFFICES ASSUME TokenInv, [TokenNext]_tokenVars PROVE TokenInv'
  OBVIOUS
<1> USE TokenAssumption DEF TokenInv
<1>1. ASSUME NEW q \in Requests, TakeCached(q) PROVE TokenInv'
  <2>1. TokenTypeOK'
    BY <1>1 DEF TakeCached, TokenTypeOK, CacheIsLast
  <2>2. Paid' /\ CacheIsLast'
    BY <1>1 DEF TakeCached, TokenTypeOK, Paid, Owed, CacheIsLast, ForcedSawRevoked
  <2>3. LockIsExclusive'
    BY <1>1 DEF TakeCached, TokenTypeOK, LockIsExclusive
  <2>4. ForcedSawRevoked'
    BY <1>1 DEF TakeCached, TokenTypeOK, CacheIsLast, LockIsExclusive, ForcedSawRevoked,
                SecondTokenIsNewer
  <2>5. SecondTokenIsNewer'
    BY <1>1 DEF TakeCached, TokenTypeOK, Paid, Owed, CacheIsLast, LockIsExclusive,
                SecondTokenIsNewer
  <2> QED
    BY <2>1, <2>2, <2>3, <2>4, <2>5
<1>2. ASSUME NEW q \in Requests, LockToken(q) PROVE TokenInv'
  <2>1. TokenTypeOK'
    BY <1>2 DEF LockToken, TokenTypeOK, CacheIsLast
  <2>2. Paid' /\ CacheIsLast'
    BY <1>2 DEF LockToken, TokenTypeOK, Paid, Owed, CacheIsLast, ForcedSawRevoked
  <2>3. LockIsExclusive'
    BY <1>2 DEF LockToken, TokenTypeOK, LockIsExclusive
  <2>4. ForcedSawRevoked'
    BY <1>2 DEF LockToken, TokenTypeOK, CacheIsLast, LockIsExclusive, ForcedSawRevoked,
                SecondTokenIsNewer
  <2>5. SecondTokenIsNewer'
    BY <1>2 DEF LockToken, TokenTypeOK, Paid, Owed, CacheIsLast, LockIsExclusive, SecondTokenIsNewer
  <2> QED
    BY <2>1, <2>2, <2>3, <2>4, <2>5
<1>3. ASSUME NEW q \in Requests, ReuseToken(q) PROVE TokenInv'
  <2>1. TokenTypeOK'
    BY <1>3 DEF ReuseToken, MayReuse, AfterRefresh, TokenTypeOK, CacheIsLast
  <2>2. Paid' /\ CacheIsLast'
    BY <1>3 DEF ReuseToken, MayReuse, AfterRefresh, TokenTypeOK, Paid, Owed, CacheIsLast,
                ForcedSawRevoked
  <2>3. LockIsExclusive'
    BY <1>3 DEF ReuseToken, MayReuse, AfterRefresh, TokenTypeOK, LockIsExclusive
  <2>4. ForcedSawRevoked'
    BY <1>3 DEF ReuseToken, MayReuse, AfterRefresh, TokenTypeOK, CacheIsLast,
                LockIsExclusive, ForcedSawRevoked, SecondTokenIsNewer
  <2>5. SecondTokenIsNewer'
    BY <1>3 DEF ReuseToken, MayReuse, AfterRefresh, TokenTypeOK, Paid, Owed, CacheIsLast,
                LockIsExclusive, SecondTokenIsNewer
  <2> QED
    BY <2>1, <2>2, <2>3, <2>4, <2>5
<1>4. ASSUME NEW q \in Requests, IssueToken(q) PROVE TokenInv'
  <2>1. TokenTypeOK'
    BY <1>4 DEF IssueToken, MayReuse, TokenTypeOK, CacheIsLast
  <2>2. Paid' /\ CacheIsLast'
    BY <1>4 DEF IssueToken, MayReuse, TokenTypeOK, Paid, Owed, CacheIsLast, ForcedSawRevoked
  <2>3. LockIsExclusive'
    BY <1>4 DEF IssueToken, MayReuse, TokenTypeOK, LockIsExclusive
  <2>4. ForcedSawRevoked'
    BY <1>4 DEF IssueToken, MayReuse, TokenTypeOK, CacheIsLast, LockIsExclusive,
                ForcedSawRevoked, SecondTokenIsNewer
  <2>5. SecondTokenIsNewer'
    BY <1>4 DEF IssueToken, MayReuse, TokenTypeOK, Paid, Owed, CacheIsLast,
                LockIsExclusive, SecondTokenIsNewer
  <2> QED
    BY <2>1, <2>2, <2>3, <2>4, <2>5
<1>5. ASSUME NEW q \in Requests, TokenIssued(q) PROVE TokenInv'
  <2>1. TokenTypeOK'
    <3>1. issued' \in Nat /\ cached' \in 0..issued' /\ using' \in [Requests -> 0..issued']
      BY <1>5 DEF TokenIssued, TokenTypeOK
    <3>2. /\ revoked' \in BOOLEAN
          /\ retried' \in [Requests -> BOOLEAN] /\ forced' \in [Requests -> BOOLEAN]
      BY <1>5 DEF TokenIssued, AfterRefresh, TokenTypeOK
    <3> QED
      BY <1>5, <3>1, <3>2 DEF TokenIssued, AfterRefresh, TokenTypeOK
  <2>2. Paid' /\ CacheIsLast'
    BY <1>5 DEF TokenIssued, AfterRefresh, TokenTypeOK, Paid, Owed, CacheIsLast, ForcedSawRevoked
  <2>3. LockIsExclusive'
    BY <1>5 DEF TokenIssued, AfterRefresh, TokenTypeOK, LockIsExclusive
  <2>4. ForcedSawRevoked'
    BY <1>5 DEF TokenIssued, AfterRefresh, TokenTypeOK, CacheIsLast, LockIsExclusive,
                ForcedSawRevoked, SecondTokenIsNewer
  <2>5. SecondTokenIsNewer'
    BY <1>5 DEF TokenIssued, AfterRefresh, TokenTypeOK, Paid, Owed, CacheIsLast,
                LockIsExclusive, SecondTokenIsNewer
  <2> QED
    BY <2>1, <2>2, <2>3, <2>4, <2>5
<1>6. ASSUME NEW q \in Requests, IssueFails(q) PROVE TokenInv'
  <2>1. TokenTypeOK'
    BY <1>6 DEF IssueFails, TokenTypeOK, CacheIsLast
  <2>2. Paid' /\ CacheIsLast'
    BY <1>6 DEF IssueFails, TokenTypeOK, Paid, Owed, CacheIsLast, ForcedSawRevoked
  <2>3. LockIsExclusive'
    BY <1>6 DEF IssueFails, TokenTypeOK, LockIsExclusive
  <2>4. ForcedSawRevoked'
    BY <1>6 DEF IssueFails, TokenTypeOK, CacheIsLast, LockIsExclusive, ForcedSawRevoked,
                SecondTokenIsNewer
  <2>5. SecondTokenIsNewer'
    BY <1>6 DEF IssueFails, TokenTypeOK, Paid, Owed, CacheIsLast, LockIsExclusive,
                SecondTokenIsNewer
  <2> QED
    BY <2>1, <2>2, <2>3, <2>4, <2>5
<1>7. ASSUME NEW q \in Requests, Answered(q) PROVE TokenInv'
  <2>1. TokenTypeOK'
    BY <1>7 DEF Answered, Valid, TokenTypeOK, CacheIsLast
  <2>2. Paid' /\ CacheIsLast'
    BY <1>7 DEF Answered, Valid, TokenTypeOK, Paid, Owed, CacheIsLast, ForcedSawRevoked
  <2>3. LockIsExclusive'
    BY <1>7 DEF Answered, Valid, TokenTypeOK, LockIsExclusive
  <2>4. ForcedSawRevoked'
    BY <1>7 DEF Answered, Valid, TokenTypeOK, CacheIsLast, LockIsExclusive,
                ForcedSawRevoked, SecondTokenIsNewer
  <2>5. SecondTokenIsNewer'
    BY <1>7 DEF Answered, Valid, TokenTypeOK, Paid, Owed, CacheIsLast, LockIsExclusive,
                SecondTokenIsNewer
  <2> QED
    BY <2>1, <2>2, <2>3, <2>4, <2>5
<1>8. ASSUME NEW q \in Requests, Throttled(q) PROVE TokenInv'
  <2>1. TokenTypeOK'
    BY <1>8 DEF Throttled, TokenTypeOK, CacheIsLast
  <2>2. Paid' /\ CacheIsLast'
    BY <1>8 DEF Throttled, TokenTypeOK, Paid, Owed, CacheIsLast, ForcedSawRevoked
  <2>3. LockIsExclusive'
    BY <1>8 DEF Throttled, TokenTypeOK, LockIsExclusive
  <2>4. ForcedSawRevoked'
    BY <1>8 DEF Throttled, TokenTypeOK, CacheIsLast, LockIsExclusive, ForcedSawRevoked,
                SecondTokenIsNewer
  <2>5. SecondTokenIsNewer'
    BY <1>8 DEF Throttled, TokenTypeOK, Paid, Owed, CacheIsLast, LockIsExclusive, SecondTokenIsNewer
  <2> QED
    BY <2>1, <2>2, <2>3, <2>4, <2>5
<1>9. ASSUME NEW q \in Requests, Rejected(q) PROVE TokenInv'
  <2>1. TokenTypeOK'
    BY <1>9 DEF Rejected, Valid, TokenTypeOK, CacheIsLast
  <2>2. Paid' /\ CacheIsLast'
    BY <1>9 DEF Rejected, Valid, TokenTypeOK, Paid, Owed, CacheIsLast, ForcedSawRevoked
  <2>3. LockIsExclusive'
    BY <1>9 DEF Rejected, Valid, TokenTypeOK, LockIsExclusive
  <2>4. ForcedSawRevoked'
    BY <1>9 DEF Rejected, Valid, TokenTypeOK, CacheIsLast, LockIsExclusive,
                ForcedSawRevoked, SecondTokenIsNewer
  <2>5. SecondTokenIsNewer'
    <3>1. retried[q] => disturbances >= 2
      <4>1. CASE using[q] # issued
        BY <1>9, <4>1 DEF Rejected, TokenTypeOK, Paid, Owed, SecondTokenIsNewer
      <4>2. CASE using[q] = issued
        <5>1. retried[q] => revoked /\ issued >= 2
          BY <1>9, <4>2 DEF Rejected, Valid, TokenTypeOK, SecondTokenIsNewer
        <5> QED
          BY <5>1 DEF Paid, Owed, TokenTypeOK
      <4> QED
        BY <4>1, <4>2
    <3>2. CASE retried[q]
      BY <1>9, <3>1, <3>2 DEF Rejected, TokenTypeOK, SecondTokenIsNewer
    <3>3. CASE ~retried[q]
      BY <1>9, <3>3 DEF Rejected, TokenTypeOK, SecondTokenIsNewer
    <3> QED
      BY <3>2, <3>3
  <2> QED
    BY <2>1, <2>2, <2>3, <2>4, <2>5
<1>10. ASSUME NEW q \in Requests, NextRequest(q) PROVE TokenInv'
  <2>1. TokenTypeOK'
    BY <1>10 DEF NextRequest, TokenTypeOK, CacheIsLast
  <2>2. Paid' /\ CacheIsLast'
    BY <1>10 DEF NextRequest, TokenTypeOK, Paid, Owed, CacheIsLast, ForcedSawRevoked
  <2>3. LockIsExclusive'
    BY <1>10 DEF NextRequest, TokenTypeOK, LockIsExclusive
  <2>4. ForcedSawRevoked'
    BY <1>10 DEF NextRequest, TokenTypeOK, CacheIsLast, LockIsExclusive, ForcedSawRevoked,
                 SecondTokenIsNewer
  <2>5. SecondTokenIsNewer'
    BY <1>10 DEF NextRequest, TokenTypeOK, Paid, Owed, CacheIsLast, LockIsExclusive,
                 SecondTokenIsNewer
  <2> QED
    BY <2>1, <2>2, <2>3, <2>4, <2>5
<1>11. CASE Disturb
  <2>1. TokenTypeOK'
    <3>1. disturbances' \in 0..MaxDisturbances /\ cached' \in 0..issued'
      BY <1>11 DEF Disturb, TokenTypeOK
    <3>2. revoked' \in BOOLEAN
      BY <1>11 DEF Disturb, TokenTypeOK
    <3> QED
      BY <1>11, <3>1, <3>2 DEF Disturb, TokenTypeOK
  <2>2. Paid' /\ CacheIsLast'
    BY <1>11 DEF Disturb, TokenTypeOK, Paid, Owed, CacheIsLast
  <2>3. LockIsExclusive' /\ ForcedSawRevoked' /\ SecondTokenIsNewer'
    BY <1>11 DEF Disturb, TokenTypeOK, LockIsExclusive, ForcedSawRevoked, SecondTokenIsNewer
  <2> QED
    BY <2>1, <2>2, <2>3
<1>12. CASE UNCHANGED tokenVars
  BY <1>12 DEF tokenVars, TokenTypeOK, Paid, Owed, CacheIsLast, LockIsExclusive,
               ForcedSawRevoked, SecondTokenIsNewer
<1> QED
  BY <1>1, <1>2, <1>3, <1>4, <1>5, <1>6, <1>7, <1>8, <1>9, <1>10, <1>11, <1>12 DEF TokenNext

LEMMA TokenInvariant == TokenSpec => []TokenInv
BY TokenInvInit, TokenInvNext, PTL DEF TokenSpec

-----------------------------------------------------------------------------
(* The types of the token and its requests.                                *)
THEOREM TokenTypesCorrect == TokenSpec => []TokenTypeOK
<1>1. TokenInv => TokenTypeOK
  BY DEF TokenInv
<1> QED
  BY <1>1, TokenInvariant, PTL

(* However many requests share the token, each token but the first is the  *)
(* answer to one revocation, invalidation or expiry, and no request is     *)
(* stopped by its second 401 before the token was disturbed twice          *)
(* (_access_token, _request).                                              *)
THEOREM TokensArePaidFor == TokenSpec => []OneTokenPerDisturbance
<1>1. TokenInv => OneTokenPerDisturbance
  BY DEF TokenInv, TokenTypeOK, Paid, Owed, SecondTokenIsNewer, OneTokenPerDisturbance
<1> QED
  BY <1>1, TokenInvariant, PTL
=============================================================================
