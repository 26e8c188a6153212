----------------------------- MODULE RateLimit -----------------------------
(***************************************************************************)
(* The fixed-window limiter of the API routes (app/src/lib/server/         *)
(* rateLimit.ts): counters in memory, or in Upstash when it is configured  *)
(* and answers. A window is kept as the time it still lasts.               *)
(*                                                                         *)
(* rateLimit awaits Upstash, then decides without another await; a call    *)
(* is one step here, since nothing else it reads can change in between.    *)
(***************************************************************************)
EXTENDS Integers

CONSTANTS
  Key,      \* the rate-limited keys
  MaxCalls, \* MaxCalls[k]: calls of k allowed in a window
  Window    \* how long a window lasts

ASSUME LimitAssumption ==
  /\ MaxCalls \in [Key -> Nat \ {0}]
  /\ Window \in Nat \ {0}

VARIABLES
  upstash,  \* Upstash is configured
  bucket,   \* bucket[k]: the count of the window in memory and how long it lasts
  remote    \* remote[k]: the counter in Upstash and its TTL, 0 for none

limitVars == <<upstash, bucket, remote>>

(* Counts from the limit on are not told apart: the next call is refused. *)
Count(k) == 0 .. MaxCalls[k]
CountOn(k, n) == IF n = MaxCalls[k] THEN n ELSE n + 1
Allows(k, n) == n < MaxCalls[k]   \* the incremented count is within the limit

LimitTypeOK ==
  /\ upstash \in BOOLEAN
  /\ \A k \in Key : /\ bucket[k] \in [count : Count(k), left : 0 .. Window]
                    /\ remote[k] \in [count : Count(k), left : 0 .. Window]

NoCalls == [k \in Key |-> [count |-> 0, left |-> 0]]
LimitInit == upstash \in BOOLEAN /\ bucket = NoCalls /\ remote = NoCalls

---------------------------------------------------------------------------
(* INCR, then EXPIRE ... NX, which may fail by itself. *)
UpstashIncr(k) ==
  \E left \in IF remote[k].left > 0 THEN {remote[k].left} ELSE {0, Window} :
    remote' = [remote EXCEPT ![k] = [count |-> CountOn(k, @.count), left |-> left]]

(* Faulty variant: every call starts the window again. *)
CountInMemoryFromNow(k) ==
  bucket' = [bucket EXCEPT ![k] =
    [count |-> IF @.left = 0 THEN 1 ELSE CountOn(k, @.count), left |-> Window]]
CountInMemory(k) ==
  bucket' = [bucket EXCEPT ![k] =
    [count |-> IF @.left = 0 THEN 1 ELSE CountOn(k, @.count),
     left |-> IF @.left = 0 THEN Window ELSE @.left]]

InMemory(k, allowed) ==
  /\ CountInMemory(k)
  /\ allowed = Allows(k, bucket[k].count)

(* rateLimit answers. A failed answer of Upstash falls back on memory,     *)
(* whether or not the counter there was incremented; an answer without a   *)
(* result counts as 0 and lets the call through.                           *)
RateLimit(k, allowed) ==
  /\ \/ ~upstash /\ InMemory(k, allowed) /\ UNCHANGED remote
     \/ upstash /\ InMemory(k, allowed) /\ (UpstashIncr(k) \/ UNCHANGED remote)
     \/ /\ upstash /\ UpstashIncr(k) /\ UNCHANGED bucket
        /\ allowed = Allows(k, remote[k].count)
     \/ upstash /\ allowed /\ UNCHANGED <<bucket, remote>>
  /\ UNCHANGED upstash

(* fetch throws, and with it the route. *)
RateLimitThrows(k) ==
  /\ upstash
  /\ UpstashIncr(k) \/ UNCHANGED remote
  /\ UNCHANGED <<upstash, bucket>>

(* Time passes; Upstash deletes a key when its TTL is over. *)
Elapsed(b) ==
  IF b.left > 1 THEN [b EXCEPT !.left = @ - 1]
  ELSE IF b.left = 1 THEN [count |-> 0, left |-> 0] ELSE b
LimitTick ==
  /\ bucket' = [k \in Key |-> Elapsed(bucket[k])]
  /\ remote' = [k \in Key |-> Elapsed(remote[k])]
  /\ <<bucket, remote>>' # <<bucket, remote>>
  /\ UNCHANGED upstash

---------------------------------------------------------------------------
(* A key at its limit gets through again after a while, however often it   *)
(* is tried in between: refused calls are counted but do not prolong the   *)
(* window, in memory or (EXPIRE ... NX) in Upstash.                        *)
AtLimit(b, k) == b.left > 0 /\ ~Allows(k, b.count)
RefusedKeyRecovers ==
  \A k \in Key : /\ AtLimit(bucket[k], k) ~> ~AtLimit(bucket[k], k)
                 /\ AtLimit(remote[k], k) ~> ~AtLimit(remote[k], k)
============================================================================
