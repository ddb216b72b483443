------------------------------- MODULE TradeFlow -------------------------------
(***************************************************************************)
(* The trade flow of one symbol and timeframe (get_trade_flow) and the     *)
(* table it is cached in (BitgetTradeFillCache).  A caller that finds the  *)
(* cache stale, too short or unreadable waits for the lock of the key,     *)
(* looks again, and fetches.  What it fetched is stored in chunks, each a  *)
(* transaction of its own, and at the end a row that says since when the   *)
(* table is complete.  A fetch reads from the newest fill backwards and    *)
(* stops at its page limit; the retention deletes old fills whatever that  *)
(* row says.                                                               *)
(*                                                                         *)
(* Time is a fixed span of hours, 1 the oldest: within its TTL the cache   *)
(* answers without the youngest fills, and other timeframes only add rows. *)
(***************************************************************************)
EXTENDS Naturals

CONSTANTS
  Callers, \* threads that ask for this key, each on an event loop of its own
  LastHour \* bound: the hours of the longest window

ASSUME FlowAssumption ==
  /\ "free" \notin Callers
  /\ LastHour \in Nat \ {0}

Hours == 1..LastHour

VARIABLES
  caller,   \* where each caller stands
  from,     \* the hour its window begins with, 0 for no window
  got,      \* fetched hours it has yet to store
  flowLock, \* who holds the lock of the key
  rows,     \* bitget_trade_fills: the hours whose fills are stored
  covered,  \* ..._fetch_state: the first hour said to be complete, 0 for no row
  fresh,    \* the fetch state is within its TTL
  fetched,  \* history: fetches begun since the cache was last spoilt
  missed    \* history: hours cut off by the page limit or deleted by retention

flowVars == <<caller, from, got, flowLock, rows, covered, fresh, fetched, missed>>

FlowInit ==
  /\ caller = [c \in Callers |-> "away"]
  /\ from = [c \in Callers |-> 0]
  /\ got = [c \in Callers |-> {}]
  /\ flowLock = "free"
  /\ rows = {} /\ covered = 0 /\ fresh = FALSE
  /\ fetched = 0 /\ missed = {}

(* A window that the cache does not answer at the first look.  A cache     *)
(* that cannot be read answers nothing.                                    *)
AskFlow(c) ==
  /\ caller[c] = "away"
  /\ \E h \in Hours : from' = [from EXCEPT ![c] = h]
  /\ caller' = [caller EXCEPT ![c] = "waiting"]
  /\ UNCHANGED <<got, flowLock, rows, covered, fresh, fetched, missed>>

AcquireFlow(c) ==
  /\ caller[c] = "waiting" /\ flowLock = "free"
  /\ flowLock' = c
  /\ caller' = [caller EXCEPT ![c] = "looking"]
  /\ UNCHANGED <<from, got, rows, covered, fresh, fetched, missed>>

(* Mutant: the cache is not looked at again under the lock.                *)
CoveredUnseen(c) == FALSE

(* fresh_fills: the age of the fetch and the start of what it covers.      *)
Covered(c) == fresh /\ covered # 0 /\ covered <= from[c]

Leave(c) ==
  /\ caller' = [caller EXCEPT ![c] = "away"]
  /\ from' = [from EXCEPT ![c] = 0]
  /\ got' = [got EXCEPT ![c] = {}]
  /\ flowLock' = "free"

(* Another caller has filled the cache meanwhile.                          *)
FilledMeanwhile(c) ==
  /\ caller[c] = "looking" /\ Covered(c)
  /\ Leave(c)
  /\ UNCHANGED <<rows, covered, fresh, fetched, missed>>

BeginFetch(c) ==
  /\ caller[c] = "looking" /\ ~Covered(c)
  /\ fetched' = fetched + 1
  /\ caller' = [caller EXCEPT ![c] = "fetching"]
  /\ UNCHANGED <<from, got, flowLock, rows, covered, fresh, missed>>

(* The cache cannot be read at the second look either.                     *)
FetchBlindly(c) ==
  /\ caller[c] = "looking"
  /\ fetched' = 1
  /\ caller' = [caller EXCEPT ![c] = "fetching"]
  /\ UNCHANGED <<from, got, flowLock, rows, covered, fresh, missed>>

(* get_trade_fills: the pages reach back to the start of the window or to  *)
(* wherever the page limit ends them.                                      *)
FetchAnswers(c) ==
  /\ caller[c] = "fetching"
  /\ \E reach \in from[c]..LastHour :
       /\ got' = [got EXCEPT ![c] = reach..LastHour]
       /\ missed' = missed \cup (from[c]..(reach - 1))
  /\ caller' = [caller EXCEPT ![c] = "storing"]
  /\ UNCHANGED <<from, flowLock, rows, covered, fresh, fetched>>

(* store_fills: one chunk, the oldest fills first.                         *)
StoreChunk(c) ==
  /\ caller[c] = "storing"
  /\ \E h \in got[c] :
       /\ \A g \in got[c] : h <= g
       /\ got' = [got EXCEPT ![c] = @ \ {h}]
       /\ rows' = rows \cup {h}
       /\ missed' = missed \ {h}
  /\ UNCHANGED <<caller, from, flowLock, covered, fresh, fetched>>

(* Mutant: the fetch state is written before the fills.                    *)
MarkAtOnce(c) == TRUE

MayMark(c) == got[c] = {}

StoreState(c) ==
  /\ caller[c] = "storing" /\ MayMark(c)
  /\ covered' = from[c]
  /\ fresh' = TRUE
  /\ Leave(c)
  /\ UNCHANGED <<rows, fetched, missed>>

(* The API or the database fails: an error of the API is answered from     *)
(* what is stored, any other one is raised.  The finally releases.         *)
FlowFails(c) ==
  /\ caller[c] \in {"fetching", "storing"}
  /\ Leave(c)
  /\ fetched' = 0
  /\ UNCHANGED <<rows, covered, fresh, missed>>

FlowExpires ==
  /\ fresh
  /\ fresh' = FALSE
  /\ fetched' = 0
  /\ UNCHANGED <<caller, from, got, flowLock, rows, covered, missed>>

(* _apply_sqlite_retention: fills go by their own age, the fetch state by  *)
(* the age of the fetch, which is past its TTL by then.                    *)
PruneFills ==
  /\ \E h \in Hours :
       /\ rows' = rows \ (1..h)
       /\ missed' = missed \cup (rows \cap 1..h)
  /\ \/ UNCHANGED covered
     \/ ~fresh /\ covered' = 0
  /\ UNCHANGED <<caller, from, got, flowLock, fresh, fetched>>

(* The process dies; the tables stay.                                      *)
FlowDies ==
  /\ caller' = [c \in Callers |-> "away"]
  /\ from' = [c \in Callers |-> 0]
  /\ got' = [c \in Callers |-> {}]
  /\ flowLock' = "free"
  /\ fetched' = 0
  /\ UNCHANGED <<rows, covered, fresh, missed>>

FlowNext ==
  \/ \E c \in Callers :
       \/ AskFlow(c) \/ AcquireFlow(c) \/ FilledMeanwhile(c) \/ BeginFetch(c)
       \/ FetchBlindly(c) \/ FetchAnswers(c) \/ StoreChunk(c) \/ StoreState(c)
       \/ FlowFails(c)
  \/ FlowExpires \/ PruneFills \/ FlowDies

FlowSpec == FlowInit /\ [][FlowNext]_flowVars

-----------------------------------------------------------------------------
(* The types of the cache and its callers.                                 *)
FlowTypeOK ==
  /\ caller \in [Callers -> {"away", "waiting", "looking", "fetching", "storing"}]
  /\ from \in [Callers -> 0..LastHour]
  /\ got \in [Callers -> SUBSET Hours]
  /\ flowLock \in Callers \cup {"free"}
  /\ rows \in SUBSET Hours /\ missed \in SUBSET Hours
  /\ covered \in 0..LastHour /\ fresh \in BOOLEAN /\ fetched \in Nat

(* Callers that find the cache stale together do not fetch the same hours  *)
(* one after the other: until it expires or a fetch fails, every further   *)
(* fetch has to reach further back than the last, so there are at most as  *)
(* many as there are hours (the second look, under the lock).              *)
FetchesReachBack == fetched <= LastHour

(* The fetch state never calls a window complete that has a hole, unless   *)
(* the page limit cut the fetch or the retention has deleted the fills     *)
(* ("otherwise a partial load is marked as collected and a silent hole     *)
(* remains", store_fills), whatever failed or died between two chunks.     *)
NoSilentHole == covered # 0 => (covered..LastHour) \ rows \subseteq missed
=============================================================================
