------------------------------- MODULE TossToken -------------------------------
(***************************************************************************)
(* The access token of the Toss API, shared by all requests of one         *)
(* credential and event loop (_access_token, _request).  Toss knows one    *)
(* valid token: issuing a new one ends the old one.  A request that gets   *)
(* a 401 asks for another token and is sent once more; a second 401 stops  *)
(* the collection.                                                         *)
(*                                                                         *)
(* What disturbs the token: Toss revokes it, or the cache gives it up, by  *)
(* invalidate_cached_token or because it is about to expire.               *)
(***************************************************************************)
EXTENDS Naturals

CONSTANTS
  Requests,       \* requests under way on one event loop
  MaxDisturbances \* bound: revocations, invalidations, expiries

(* A request is somebody.                                                  *)
ASSUME TokenAssumption == "nobody" \notin Requests /\ MaxDisturbances \in Nat

VARIABLES
  issued,       \* tokens issued so far; the last one is the one Toss knows
  revoked,      \* whether Toss has revoked that one
  cached,       \* _SHARED_TOKENS: the token in the cache, 0 for none
  tokenLock,    \* who holds the asyncio lock
  request,      \* where each request stands
  using,        \* the token a request is sent with
  retried,      \* whether the request has had its 401
  forced,       \* whether it asks for another token than the one it used
  disturbances  \* what has disturbed the token so far

tokenVars == <<issued, revoked, cached, tokenLock, request, using, retried,
               forced, disturbances>>

TokenInit ==
  /\ issued = 0
  /\ revoked = FALSE
  /\ cached = 0
  /\ tokenLock = "nobody"
  /\ request = [q \in Requests |-> "new"]
  /\ using = [q \in Requests |-> 0]
  /\ retried = [q \in Requests |-> FALSE]
  /\ forced = [q \in Requests |-> FALSE]
  /\ disturbances = 0

Valid(t) == t # 0 /\ t = issued /\ ~revoked

-----------------------------------------------------------------------------
(* _access_token: a cached token is taken without the lock ...             *)
TakeCached(q) ==
  /\ request[q] = "new" /\ cached # 0
  /\ using' = [using EXCEPT ![q] = cached]
  /\ request' = [request EXCEPT ![q] = "send"]
  /\ UNCHANGED <<issued, revoked, cached, tokenLock, retried, forced, disturbances>>

(* ... a missing or a rejected one is asked for under the lock.            *)
LockToken(q) ==
  /\ \/ request[q] = "new" /\ cached = 0
     \/ request[q] = "rejected"
  /\ tokenLock = "nobody"
  /\ tokenLock' = q
  /\ request' = [request EXCEPT ![q] = "locked"]
  /\ UNCHANGED <<issued, revoked, cached, using, retried, forced, disturbances>>

(* Mutant: a forced refresh never reuses the token of another request.     *)
ReuseUnforced(q) == cached # 0 /\ ~forced[q]

(* Another request may have refreshed while this one was in flight or      *)
(* waited.                                                                 *)
MayReuse(q) == cached # 0 /\ (forced[q] => cached # using[q])

(* What a forced refresh returns is not used: the request is built anew    *)
(* and takes what the cache holds when it gets there.                      *)
AfterRefresh(q) ==
  /\ request' = [request EXCEPT ![q] = IF forced[q] THEN "new" ELSE "send"]
  /\ forced' = [forced EXCEPT ![q] = FALSE]

ReuseToken(q) ==
  /\ request[q] = "locked" /\ MayReuse(q)
  /\ using' = [using EXCEPT ![q] = cached]
  /\ tokenLock' = "nobody"
  /\ AfterRefresh(q)
  /\ UNCHANGED <<issued, revoked, cached, retried, disturbances>>

IssueToken(q) ==
  /\ request[q] = "locked" /\ ~MayReuse(q)
  /\ request' = [request EXCEPT ![q] = "issuing"]
  /\ UNCHANGED <<issued, revoked, cached, tokenLock, using, retried, forced, disturbances>>

(* Toss issues a token and the answer arrives.                             *)
TokenIssued(q) ==
  /\ request[q] = "issuing"
  /\ issued' = issued + 1 /\ revoked' = FALSE
  /\ cached' = issued + 1
  /\ using' = [using EXCEPT ![q] = issued + 1]
  /\ tokenLock' = "nobody"
  /\ AfterRefresh(q)
  /\ UNCHANGED <<retried, disturbances>>

(* Toss refuses or cannot be reached: the request fails.                   *)
IssueFails(q) ==
  /\ request[q] = "issuing"
  /\ tokenLock' = "nobody"
  /\ request' = [request EXCEPT ![q] = "failed"]
  /\ UNCHANGED <<issued, revoked, cached, using, retried, forced, disturbances>>

-----------------------------------------------------------------------------
(* The answer to a request.                                                *)
Answered(q) ==
  /\ request[q] = "send" /\ Valid(using[q])
  /\ request' = [request EXCEPT ![q] = "done"]
  /\ UNCHANGED <<issued, revoked, cached, tokenLock, using, retried, forced, disturbances>>

(* A 429 is waited out and the request built anew.                         *)
Throttled(q) ==
  /\ request[q] = "send"
  /\ request' = [request EXCEPT ![q] = "new"]
  /\ UNCHANGED <<issued, revoked, cached, tokenLock, using, retried, forced, disturbances>>

Rejected(q) ==
  /\ request[q] = "send" /\ ~Valid(using[q])
  /\ request' = [request EXCEPT ![q] = IF retried[q] THEN "stopped" ELSE "rejected"]
  /\ forced' = [forced EXCEPT ![q] = ~retried[q]]
  /\ retried' = [retried EXCEPT ![q] = TRUE]
  /\ UNCHANGED <<issued, revoked, cached, tokenLock, using, disturbances>>

(* The caller comes again with a new request.                              *)
NextRequest(q) ==
  /\ request[q] \in {"done", "failed", "stopped"}
  /\ request' = [request EXCEPT ![q] = "new"]
  /\ using' = [using EXCEPT ![q] = 0]
  /\ retried' = [retried EXCEPT ![q] = FALSE]
  /\ forced' = [forced EXCEPT ![q] = FALSE]
  /\ UNCHANGED <<issued, revoked, cached, tokenLock, disturbances>>

(* The token is revoked or given up.  A token that Toss issues to an       *)
(* answer that is lost ends the last one too: a revocation.                *)
Disturb ==
  /\ disturbances < MaxDisturbances
  /\ disturbances' = disturbances + 1
  /\ \/ issued > 0 /\ revoked' = TRUE /\ UNCHANGED cached
     \/ cached # 0 /\ cached' = 0 /\ UNCHANGED revoked
  /\ UNCHANGED <<issued, tokenLock, request, using, retried, forced>>

TokenNext ==
  \/ \E q \in Requests :
       \/ TakeCached(q) \/ LockToken(q) \/ ReuseToken(q) \/ IssueToken(q)
       \/ TokenIssued(q) \/ IssueFails(q) \/ Answered(q) \/ Throttled(q)
       \/ Rejected(q) \/ NextRequest(q)
  \/ Disturb

TokenSpec == TokenInit /\ [][TokenNext]_tokenVars

-----------------------------------------------------------------------------
(* The types of the token and its requests.                                *)
TokenTypeOK ==
  /\ issued \in Nat /\ cached \in 0..issued
  /\ revoked \in BOOLEAN
  /\ tokenLock \in Requests \cup {"nobody"}
  /\ request \in [Requests -> {"new", "send", "locked", "issuing", "rejected",
                               "done", "failed", "stopped"}]
  /\ using \in [Requests -> 0..issued]
  /\ retried \in [Requests -> BOOLEAN] /\ forced \in [Requests -> BOOLEAN]
  /\ disturbances \in 0..MaxDisturbances

(* Requests never end each other's token: each token but the first is the  *)
(* answer to one disturbance, so a request that is stopped by a second 401 *)
(* has been disturbed twice (the reuse of a newer token in _access_token). *)
OneTokenPerDisturbance ==
  /\ issued <= disturbances + 1
  /\ (\E q \in Requests : request[q] = "stopped") => disturbances >= 2
=============================================================================
