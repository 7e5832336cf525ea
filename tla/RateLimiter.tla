---------------------------- MODULE RateLimiter ----------------------------
(***************************************************************************)
(* The middleware of src/internal/ratelimit/ratelimit.go that every        *)
(* request passes: a fixed window per client address, counted under one    *)
(* mutex, with a cleanup of the windows at most once a minute.             *)
(*                                                                         *)
(* A request reads the clock before it takes the mutex, so it may enter    *)
(* with a time that is older than the one the request before it came with. *)
(***************************************************************************)
EXTENDS Integers, Sequences

CONSTANTS
  IPs,         \* client addresses
  PerMinute,   \* RATE_LIMIT_PER_MINUTE
  Minute,      \* ticks of the clock in the window
  MaxWait,     \* bound: ticks a request may wait for the mutex
  MaxRefused,  \* bound: requests refused in one window
  Horizon      \* bound: the clock stops here

ASSUME LimiterAssumption ==
  /\ PerMinute \in Nat \ {0} /\ Minute \in Nat \ {0}
  /\ MaxWait \in Nat /\ MaxWait < Minute
  /\ MaxRefused \in Nat /\ Horizon \in Nat

VARIABLES
  now,          \* the clock
  buckets,      \* Limiter.buckets; Absent for an address without an entry
  lastCleanup,  \* Limiter.lastCleanup
  recent        \* history: the last 2 * PerMinute + 1 admissions of an address

limiterVars == <<now, buckets, lastCleanup, recent>>

-----------------------------------------------------------------------------
(* The zero bucket: its time.Time{} is before every time of the clock.     *)
Absent == [count |-> 0, reset |-> -1]
Bucket == [count : Nat \ {0}, reset : Nat]

LimiterInit ==
  /\ now = 0
  /\ buckets = [i \in IPs |-> Absent]
  /\ lastCleanup = 0
  /\ recent = [i \in IPs |-> <<>>]

(* now.After(b.reset), of an entry of the map or of the zero bucket.       *)
After(b, t) == t > b.reset

(* Mutant: a cleanup that is not due notes the time all the same.          *)
CleanedNotingTheTime(t) ==
  [windows |-> IF t < lastCleanup + Minute THEN buckets
               ELSE [i \in IPs |-> IF After(buckets[i], t) THEN Absent ELSE buckets[i]],
   last |-> t]

(* cleanupExpiredLocked: nothing before a minute has passed since the last *)
(* one; then the entries whose window has ended are dropped.               *)
Cleaned(t) ==
  IF t < lastCleanup + Minute
  THEN [windows |-> buckets, last |-> lastCleanup]
  ELSE [windows |-> [i \in IPs |-> IF After(buckets[i], t) THEN Absent ELSE buckets[i]],
        last |-> t]

(* Mutant: refused requests extend the window.                             *)
CountedExtending(b, t) ==
  IF After(b, t) THEN [count |-> 1, reset |-> t + Minute]
                 ELSE [count |-> b.count + 1, reset |-> t + Minute]

(* The window of the request: a new one when the last has ended.           *)
Counted(b, t) ==
  IF After(b, t) THEN [count |-> 1, reset |-> t + Minute]
                 ELSE [b EXCEPT !.count = @ + 1]

(* Mutant: the count is compared before the request is added to it.        *)
AllowedBeforeCounting(b) == b.count - 1 <= PerMinute

Allowed(b) == b.count <= PerMinute

(* The bucket the request of ip that read the clock at t is counted in.    *)
Window(ip, t) == Counted(Cleaned(t).windows[ip], t)

(* The history keeps no more than the bound speaks of.                     *)
Noted(s) ==
  IF Len(s) <= 2 * PerMinute THEN Append(s, now) ELSE Append(Tail(s), now)

(* The section the mutex guards, for a request of ip that read the clock   *)
(* at t.  It is passed on if the bucket allows it, or answered with 429.   *)
Pass(ip, t) ==
  /\ t \in Nat /\ now - MaxWait <= t /\ t <= now
  /\ Window(ip, t).count <= PerMinute + MaxRefused
  /\ buckets' = [Cleaned(t).windows EXCEPT ![ip] = Window(ip, t)]
  /\ lastCleanup' = Cleaned(t).last
  /\ recent' = IF Allowed(Window(ip, t)) THEN [recent EXCEPT ![ip] = Noted(@)]
                                         ELSE recent

LimiterTick == now < Horizon /\ now' = now + 1

LimiterNext ==
  \/ \E ip \in IPs, t \in 0..Horizon : Pass(ip, t) /\ UNCHANGED now
  \/ LimiterTick /\ UNCHANGED <<buckets, lastCleanup, recent>>

LimiterSpec == LimiterInit /\ [][LimiterNext]_limiterVars

-----------------------------------------------------------------------------
(* Properties                                                              *)

LimiterTypeOK ==
  /\ now \in Nat /\ lastCleanup \in Nat
  /\ buckets \in [IPs -> Bucket \cup {Absent}]
  /\ recent \in [IPs -> Seq(Nat)]

(* A fixed window lets twice the limit through around its end, and never   *)
(* more: 2 * PerMinute + 1 requests of an address that are admitted take   *)
(* more than a minute, less what a request may wait for the mutex: one     *)
(* that waited may be counted in a window that ended meanwhile, or begin   *)
(* one with the time it came, whenever the cleanup drops the windows.      *)
AdmissionsBounded ==
  \A i \in IPs :
    Len(recent[i]) = 2 * PerMinute + 1 =>
      recent[i][1] + Minute < recent[i][2 * PerMinute + 1] + MaxWait

(* An address that is refused has been admitted PerMinute times since its  *)
(* window began, a minute before it ends: refused requests do not extend   *)
(* it, so a client that hammers the server is let in again.                *)
RefusedForCause ==
  \A i \in IPs :
    buckets[i].count > PerMinute =>
      /\ Len(recent[i]) >= PerMinute
      /\ recent[i][Len(recent[i]) - PerMinute + 1] + Minute >= buckets[i].reset

(* The map does not grow with the addresses ever seen: an entry whose      *)
(* window had ended when the cleanup last ran is gone.                     *)
EndedWindowsForgotten ==
  \A i \in IPs : buckets[i] # Absent => buckets[i].reset >= lastCleanup
=============================================================================
