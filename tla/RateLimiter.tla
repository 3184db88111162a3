---------------------------- MODULE RateLimiter -----------------------------
(***************************************************************************)
(* RateLimiter: a counter per client and window.  Time is the number of    *)
(* ticks left until resetAt; the counters of the statistics are left out,  *)
(* and so are stop, the end of a run of the server, and reset, which       *)
(* nothing calls.  "passed" and "retry" are history variables: how long    *)
(* ago the last requests of a client were allowed, the latest first, and   *)
(* how long it still has to wait by the last refusal.                      *)
(***************************************************************************)
EXTENDS Naturals

CONSTANTS
  Keys,         \* the clients' addresses
  Window,       \* windowMs, in ticks
  MaxRequests   \* maxRequests

ASSUME LimiterAssumption == Window \in Nat \ {0} /\ MaxRequests \in Nat \ {0}

VARIABLES limits, passed, retry

limiterVars == <<limits, passed, retry>>

NoEntry == [count |-> 0, left |-> 0]
NoRetry == Window + 1

(* One more than a client may have allowed; those that were allowed as     *)
(* long ago as a window or longer, or not yet, need not be told apart.     *)
Latest == 1 .. 2 * MaxRequests + 1

LimiterInit ==
  /\ limits = [k \in Keys |-> NoEntry]
  /\ passed = [k \in Keys |-> [i \in Latest |-> Window]]
  /\ retry = [k \in Keys |-> NoRetry]

(* Faulty: a window that is full stays closed until cleanup drops it. *)
CountedUntilCleanup(k) ==
  LET entry == limits[k]
  IN  IF entry.left = 0 /\ entry.count <= MaxRequests THEN [count |-> 1, left |-> Window]
      ELSE [entry EXCEPT !.count = IF @ > MaxRequests THEN @ ELSE @ + 1]

(* The entry check leaves behind: a new one when there is none or its time *)
(* is over.  Beyond the limit the count need not be told apart.            *)
Counted(k) ==
  LET entry == limits[k]
  IN  IF entry.left = 0 THEN [count |-> 1, left |-> Window]
      ELSE [entry EXCEPT !.count = IF @ > MaxRequests THEN @ ELSE @ + 1]

Allowed(k) == Counted(k).count <= MaxRequests

Passed(k) == [i \in Latest |-> IF i = 1 THEN 0 ELSE passed[k][i - 1]]

Check(k) ==
  /\ limits' = [limits EXCEPT ![k] = Counted(k)]
  /\ passed' = IF Allowed(k) THEN [passed EXCEPT ![k] = Passed(k)] ELSE passed
  /\ retry' = [retry EXCEPT ![k] = IF Allowed(k) THEN NoRetry ELSE Counted(k).left]

(* Faulty: every entry is dropped. *)
CleanupAll == /\ \E k \in Keys : limits[k] # NoEntry
              /\ limits' = [k \in Keys |-> NoEntry]
              /\ UNCHANGED <<passed, retry>>

(* The interval timer drops the entries whose time is over. *)
Cleanup ==
  LET over == {k \in Keys : limits[k] # NoEntry /\ limits[k].left = 0}
  IN  /\ over # {}
      /\ limits' = [k \in Keys |-> IF k \in over THEN NoEntry ELSE limits[k]]
      /\ UNCHANGED <<passed, retry>>

Sooner(n) == IF n = 0 THEN 0 ELSE n - 1
Older(n) == IF n = Window THEN Window ELSE n + 1
LimiterTick ==
  /\ limits' = [k \in Keys |-> [limits[k] EXCEPT !.left = Sooner(@)]]
  /\ passed' = [k \in Keys |-> [i \in Latest |-> Older(passed[k][i])]]
  /\ retry' = [k \in Keys |-> IF retry[k] = NoRetry THEN NoRetry ELSE Sooner(retry[k])]
-----------------------------------------------------------------------------
(* In no period as long as a window is a client allowed more than twice    *)
(* maxRequests, however its requests, the ends of its windows and cleanup  *)
(* fall; once is not guaranteed, as a window may fill up at its end and    *)
(* the next one at its beginning.                                          *)
AtMostTwice == \A k \in Keys : passed[k][2 * MaxRequests + 1] = Window

(* The retryAfterMs of a refusal is kept: once that time has passed the    *)
(* next request is allowed, at the very millisecond and whether or not     *)
(* cleanup ran in between.                                                 *)
RetryAfterKept == \A k \in Keys : retry[k] = 0 => Allowed(k)
=============================================================================
