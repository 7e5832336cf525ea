--------------------------- MODULE SignIn_proofs ----------------------------
(***************************************************************************)
(* What the parts of MCSignIn guarantee for every limit, any number of     *)
(* requests, attempts and administrators, and any schedule.                *)
(***************************************************************************)
EXTENDS MCSignIn, FiniteSetTheorems, SequenceTheorems, TLAPS

(***************************************************************************)
(* The rate limiter                                                        *)
(***************************************************************************)

(* Of the admissions s in a window b, the first and those counted in it.   *)
Admitted(b) == IF b.count > PerMinute THEN PerMinute ELSE b.count
Since(s, b) == s[Len(s) - Admitted(b) + 1]

(* Admissions are in the order of the clock, which shows n.                *)
InOrder(s, n) ==
  /\ Len(s) <= 2 * PerMinute + 1
  /\ \A k \in 1..Len(s) : s[k] <= n
  /\ \A j, k \in 1..Len(s) : j <= k => s[j] <= s[k]

(* The windows before one that begins now.                                 *)
Ended(s, n) ==
  \A k \in 1 .. Len(s) - PerMinute : s[k] + Minute < n + MaxWait

(* The window b, and those before it.                                      *)
Running(s, b) ==
  /\ Admitted(b) <= Len(s)
  /\ b.reset <= Since(s, b) + Minute
  /\ Since(s, b) + Minute <= b.reset + MaxWait
  /\ \A k \in 1 .. Len(s) - Admitted(b) - PerMinute :
       s[k] + Minute < Since(s, b) + MaxWait

(* The history agrees with the table: a window is there, or none is.       *)
Fits(s, b, n) == IF b = Absent THEN Ended(s, n) ELSE Running(s, b)

(* The property, of the history of one address.                            *)
Spread(s) ==
  Len(s) = 2 * PerMinute + 1 => s[1] + Minute < s[2 * PerMinute + 1] + MaxWait

(* The inductive invariant: the property needs to know which admissions    *)
(* the window of the table has counted.                                    *)
LimiterInv ==
  /\ LimiterTypeOK
  /\ lastCleanup <= now
  /\ EndedWindowsForgotten
  /\ \A i \in IPs : /\ InOrder(recent[i], now) /\ Spread(recent[i])
                    /\ Fits(recent[i], buckets[i], now)

(* The history with one more, and how many it drops for it.                *)
Dropped(s) == IF Len(s) <= 2 * PerMinute THEN 0 ELSE 1
Longer(s, n) == IF Len(s) <= 2 * PerMinute THEN Append(s, n) ELSE Append(Tail(s), n)

-----------------------------------------------------------------------------
LEMMA LongerIs ==
  ASSUME NEW s \in Seq(Nat), NEW n \in Nat, InOrder(s, n)
  PROVE  /\ Longer(s, n) \in Seq(Nat) /\ InOrder(Longer(s, n), n)
         /\ Len(Longer(s, n)) = Len(s) + 1 - Dropped(s)
         /\ Longer(s, n)[Len(s) + 1 - Dropped(s)] = n
         /\ \A k \in 1 .. Len(s) - Dropped(s) : Longer(s, n)[k] = s[k + Dropped(s)]
<1> USE LimiterAssumption
<1>1. CASE Len(s) <= 2 * PerMinute
  <2>1. Longer(s, n) = Append(s, n) /\ Dropped(s) = 0
    BY <1>1 DEF Longer, Dropped
  <2>2. /\ Append(s, n) \in Seq(Nat) /\ Len(Append(s, n)) = Len(s) + 1 /\ Len(s) \in Nat
        /\ \A i \in 1.. Len(s) : Append(s, n)[i] = s[i]
        /\ Append(s, n)[Len(s)+1] = n
    BY AppendProperties, LenProperties
  <2>3. InOrder(Append(s, n), n)
    BY <2>2, <1>1, ElementOfSeq DEF InOrder
  <2> QED
    BY <2>1, <2>2, <2>3
<1>2. CASE ~(Len(s) <= 2 * PerMinute)
  <2>0. Len(s) = 2 * PerMinute + 1 /\ s # <<>>
    BY <1>2, LenProperties, EmptySeq DEF InOrder
  <2>1. Longer(s, n) = Append(Tail(s), n) /\ Dropped(s) = 1
    BY <1>2 DEF Longer, Dropped
  <2>2. /\ Tail(s) \in Seq(Nat) /\ Len(Tail(s)) = 2 * PerMinute
        /\ \A i \in 1 .. 2 * PerMinute : Tail(s)[i] = s[i + 1]
    BY <2>0, HeadTailProperties, LenProperties
  <2>3. /\ Append(Tail(s), n) \in Seq(Nat) /\ Len(Append(Tail(s), n)) = 2 * PerMinute + 1
        /\ \A i \in 1.. 2 * PerMinute : Append(Tail(s), n)[i] = s[i + 1]
        /\ Append(Tail(s), n)[2 * PerMinute + 1] = n
    <3> HIDE <2>1
    <3> QED
      BY <2>2, AppendProperties
  <2>4. InOrder(Append(Tail(s), n), n)
    BY <2>3, <2>0, ElementOfSeq DEF InOrder
  <2>5. Len(s) + 1 - Dropped(s) = 2 * PerMinute + 1 /\ Len(s) - Dropped(s) = 2 * PerMinute
    BY <2>0, <2>1
  <2>6. \A k \in 1 .. 2 * PerMinute : s[k + Dropped(s)] = s[k + 1]
    BY <2>1
  <2> QED
    BY <2>1, <2>3, <2>4, <2>5, <2>6
<1> QED
  BY <1>1, <1>2

(* What a window tells about the admissions.                               *)
LEMMA WindowIs ==
  ASSUME NEW s \in Seq(Nat), NEW n \in Nat, InOrder(s, n),
         NEW b \in Bucket, Running(s, b)
  PROVE  /\ Len(s) \in Nat /\ Admitted(b) \in 1..PerMinute /\ Admitted(b) <= Len(s)
         /\ Since(s, b) \in Nat /\ Since(s, b) <= n
         /\ \A k \in 1 .. Len(s) - Admitted(b) + 1 : s[k] \in Nat /\ s[k] <= Since(s, b)
         /\ b.reset \in Nat /\ b.reset <= Since(s, b) + Minute
         /\ Since(s, b) + Minute <= b.reset + MaxWait
<1>1. Len(s) \in Nat /\ Admitted(b) \in 1..PerMinute /\ Admitted(b) <= Len(s)
  BY LenProperties, LimiterAssumption DEF Running, Admitted, Bucket
<1>2. Len(s) - Admitted(b) + 1 \in 1..Len(s)
  BY <1>1
<1>3. \A k \in 1 .. Len(s) - Admitted(b) + 1 : k \in 1..Len(s)
  BY <1>1
<1>4. Since(s, b) \in Nat /\ Since(s, b) <= n
  BY <1>2, ElementOfSeq DEF Since, InOrder
<1>5. \A k \in 1 .. Len(s) - Admitted(b) + 1 : s[k] \in Nat /\ s[k] <= Since(s, b)
  BY <1>1, <1>2, <1>3, ElementOfSeq DEF Since, InOrder
<1>6. /\ b.reset \in Nat /\ b.reset <= Since(s, b) + Minute
      /\ Since(s, b) + Minute <= b.reset + MaxWait
  BY DEF Running, Bucket
<1> QED
  BY <1>1, <1>4, <1>5, <1>6

(* Its admission is the first in a window that begins now.                 *)
LEMMA NewWindow ==
  ASSUME NEW s \in Seq(Nat), NEW n \in Nat, InOrder(s, n), Ended(s, n),
         NEW t \in Nat, n - MaxWait <= t, t <= n
  PROVE  /\ Running(Longer(s, n), [count |-> 1, reset |-> t + Minute])
         /\ Spread(Longer(s, n))
<1> DEFINE r == Longer(s, n)
           d == Dropped(s)
           b == [count |-> 1, reset |-> t + Minute]
<1>a. Len(s) \in Nat /\ d \in {0, 1} /\ (d = 1 => Len(s) > 2 * PerMinute)
  BY LenProperties, LimiterAssumption DEF Dropped
<1>b. /\ r \in Seq(Nat) /\ Len(r) = Len(s) + 1 - d /\ r[Len(s) + 1 - d] = n
      /\ \A k \in 1 .. Len(s) - d : r[k] = s[k + d]
  BY LongerIs
<1> HIDE DEF r, d
<1>0. Len(r) \in Nat /\ Len(r) > 0 /\ Len(r) = Len(s) + 1 - d /\ Len(r) - 1 = Len(s) - d
  BY <1>a, <1>b, LimiterAssumption
<1>1. r[Len(r)] = n /\ \A k \in 1 .. Len(r) - 1 : r[k] = s[k + d]
  BY <1>0, <1>b
<1>2. Admitted(b) = 1
  BY LimiterAssumption DEF Admitted
<1>3. Since(r, b) = n
  BY <1>0, <1>1, <1>2 DEF Since
<1>4. ASSUME NEW k \in 1 .. Len(r) - 1 - PerMinute
      PROVE  r[k] + Minute < n + MaxWait
  <2>1. k \in 1 .. Len(r) - 1 /\ k + d \in 1 .. Len(s) - PerMinute
    BY <1>0, <1>a, LimiterAssumption
  <2> QED
    BY <1>1, <2>1 DEF Ended
<1>5. Running(r, b)
  BY <1>0, <1>2, <1>3, <1>4, LimiterAssumption DEF Running
<1>6. Spread(r)
  <2>1. SUFFICES ASSUME Len(r) = 2 * PerMinute + 1
                 PROVE  r[1] + Minute < r[2 * PerMinute + 1] + MaxWait
    BY DEF Spread
  <2>2. 1 \in 1 .. Len(r) - 1 - PerMinute
    BY <2>1, LimiterAssumption
  <2> QED
    BY <2>1, <2>2, <1>1, <1>4
<1> QED
  BY <1>5, <1>6 DEF r

(* Or one more in a window that has begun before.                          *)
LEMMA SameWindow ==
  ASSUME NEW s \in Seq(Nat), NEW n \in Nat, InOrder(s, n),
         NEW b \in Bucket, Running(s, b), b.count < PerMinute
  PROVE  /\ Running(Longer(s, n), [b EXCEPT !.count = @ + 1])
         /\ Spread(Longer(s, n))
<1> DEFINE r == Longer(s, n)
           d == Dropped(s)
           e == [b EXCEPT !.count = @ + 1]
           c == b.count
<1>a. Len(s) \in Nat /\ d \in {0, 1} /\ (d = 1 => Len(s) > 2 * PerMinute)
  BY LenProperties, LimiterAssumption DEF Dropped
<1>b. /\ r \in Seq(Nat) /\ Len(r) = Len(s) + 1 - d /\ r[Len(s) + 1 - d] = n
      /\ \A k \in 1 .. Len(s) - d : r[k] = s[k + d]
  BY LongerIs
<1> HIDE DEF r, d
<1>0. Len(r) \in Nat /\ Len(r) = Len(s) + 1 - d /\ Len(r) - 1 = Len(s) - d
  BY <1>a, <1>b, LimiterAssumption
<1>1. r[Len(r)] = n /\ \A k \in 1 .. Len(r) - 1 : r[k] = s[k + d]
  BY <1>0, <1>b
<1>2. Admitted(b) = c /\ Admitted(e) = c + 1 /\ c \in 1 .. PerMinute - 1
  BY LimiterAssumption DEF Admitted, Bucket
<1>c. e.reset = b.reset
  OBVIOUS
<1> HIDE DEF e, c
<1>3. /\ c <= Len(s) /\ Since(s, b) \in Nat /\ Since(s, b) <= n
      /\ b.reset \in Nat /\ b.reset <= Since(s, b) + Minute
      /\ Since(s, b) + Minute <= b.reset + MaxWait
  BY WindowIs, <1>2
<1>4. Len(r) - Admitted(e) + 1 \in 1 .. Len(r) - 1
  <2>1. PerMinute \in Nat /\ c \in Nat /\ 1 <= c /\ c <= PerMinute - 1
    BY <1>2, LimiterAssumption
  <2>2. Admitted(e) <= Len(r)
    BY <1>0, <1>a, <1>2, <1>3, <2>1
  <2> QED
    BY <1>0, <1>2, <2>1, <2>2
<1>5. Since(r, e) = Since(s, b)
  <2>1. Len(r) - Admitted(e) + 1 + d = Len(s) - Admitted(b) + 1
    BY <1>0, <1>a, <1>2
  <2>2. r[Len(r) - Admitted(e) + 1] = s[Len(r) - Admitted(e) + 1 + d]
    BY <1>1, <1>4
  <2> QED
    BY <2>1, <2>2 DEF Since
<1>6. ASSUME NEW k \in 1 .. Len(r) - Admitted(e) - PerMinute
      PROVE  r[k] + Minute < Since(s, b) + MaxWait
  <2>1. k \in 1 .. Len(r) - 1 /\ k + d \in 1 .. Len(s) - Admitted(b) - PerMinute
    BY <1>0, <1>a, <1>2, LimiterAssumption
  <2>2. s[k + d] + Minute < Since(s, b) + MaxWait
    BY <2>1 DEF Running
  <2> QED
    BY <1>1, <2>1, <2>2
<1>7. Admitted(e) <= Len(r)
  BY <1>4, <1>0, <1>2
<1>8. Running(r, e)
  BY <1>c, <1>3, <1>5, <1>6, <1>7 DEF Running
<1>9. Spread(r)
  <2>1. SUFFICES ASSUME Len(r) = 2 * PerMinute + 1
                 PROVE  r[1] + Minute < r[2 * PerMinute + 1] + MaxWait
    BY DEF Spread
  <2>2. 1 \in 1 .. Len(r) - Admitted(e) - PerMinute /\ 1 \in 1..Len(r)
    BY <2>1, <1>2, LimiterAssumption
  <2>3. r[1] + Minute < Since(s, b) + MaxWait /\ r[1] \in Nat
    BY <1>b, <1>6, <2>2, ElementOfSeq
  <2>4. r[2 * PerMinute + 1] = n
    BY <1>1, <2>1
  <2> QED
    BY <2>3, <2>4, <1>3, LimiterAssumption
<1> QED
  BY <1>8, <1>9 DEF r, e

LEMMA RefusedWindow ==
  ASSUME NEW s \in Seq(Nat), NEW b \in Bucket, Running(s, b), b.count >= PerMinute
  PROVE  Running(s, [b EXCEPT !.count = @ + 1])
<1>1. Admitted([b EXCEPT !.count = @ + 1]) = Admitted(b)
  BY LimiterAssumption DEF Admitted, Bucket
<1> QED
  BY <1>1 DEF Running, Since, Bucket

(* What is a minute before a moment that is MaxWait past at most.          *)
LEMMA Slack ==
  ASSUME NEW x \in Nat, NEW y \in Nat, NEW z \in Nat, NEW n \in Nat,
         x <= y, y + Minute <= z + MaxWait, z < n
  PROVE  x + Minute < n + MaxWait
<1>1. Minute \in Nat /\ MaxWait \in Nat
  BY LimiterAssumption
<1> QED
  BY <1>1

(* A window that has ended is one of those before the next.                *)
LEMMA WindowEnds ==
  ASSUME NEW s \in Seq(Nat), NEW n \in Nat, InOrder(s, n),
         NEW b \in Bucket, Running(s, b), b.reset < n
  PROVE  Ended(s, n)
<1>1. SUFFICES ASSUME NEW k \in 1 .. Len(s) - PerMinute
               PROVE  s[k] + Minute < n + MaxWait
  BY DEF Ended
<1>2. /\ Len(s) \in Nat /\ Admitted(b) \in 1..PerMinute /\ Admitted(b) <= Len(s)
      /\ Since(s, b) \in Nat /\ b.reset \in Nat
      /\ \A j \in 1 .. Len(s) - Admitted(b) + 1 : s[j] \in Nat /\ s[j] <= Since(s, b)
      /\ Since(s, b) + Minute <= b.reset + MaxWait
  BY WindowIs
<1>3. k \in 1 .. Len(s) - Admitted(b) + 1
  BY <1>2, LimiterAssumption
<1>4. s[k] <= Since(s, b) /\ s[k] \in Nat
  BY <1>2, <1>3
<1> QED
  BY <1>2, <1>4, Slack

-----------------------------------------------------------------------------
(* What the cleanup leaves of the windows.                                 *)
LEMMA CleanedIs ==
  ASSUME LimiterInv, NEW t \in Nat, t <= now
  PROVE  LET C == Cleaned(t).windows
             last == Cleaned(t).last
         IN  /\ C \in [IPs -> Bucket \cup {Absent}]
             /\ last \in Nat /\ last <= now /\ (last = t \/ last = lastCleanup)
             /\ \A i \in IPs : /\ C[i] # Absent => C[i].reset >= last
                               /\ Fits(recent[i], C[i], now)
<1>1. CASE t < lastCleanup + Minute
  BY <1>1 DEF LimiterInv, LimiterTypeOK, EndedWindowsForgotten, Cleaned
<1>2. CASE ~(t < lastCleanup + Minute)
  <2>1. /\ Cleaned(t).last = t
        /\ Cleaned(t).windows
             = [i \in IPs |-> IF After(buckets[i], t) THEN Absent ELSE buckets[i]]
    BY <1>2 DEF Cleaned
  <2>2. ASSUME NEW i \in IPs
        PROVE  LET b == IF After(buckets[i], t) THEN Absent ELSE buckets[i] IN
               /\ b \in Bucket \cup {Absent}
               /\ b # Absent => b.reset >= t
               /\ Fits(recent[i], b, now)
    <3>1. /\ buckets[i] \in Bucket \cup {Absent} /\ recent[i] \in Seq(Nat) /\ now \in Nat
          /\ InOrder(recent[i], now) /\ Fits(recent[i], buckets[i], now)
      BY DEF LimiterInv, LimiterTypeOK
    <3>2. CASE buckets[i] = Absent
      BY <3>1, <3>2
    <3>3. CASE buckets[i] # Absent /\ After(buckets[i], t)
      <4>1. buckets[i] \in Bucket /\ Running(recent[i], buckets[i]) /\ buckets[i].reset < now
        BY <3>1, <3>3 DEF Fits, After, Bucket
      <4>2. Ended(recent[i], now)
        BY <3>1, <4>1, WindowEnds
      <4> QED
        BY <3>3, <4>2 DEF Fits
    <3>4. CASE buckets[i] # Absent /\ ~After(buckets[i], t)
      BY <3>1, <3>4 DEF After, Bucket
    <3> QED
      BY <3>2, <3>3, <3>4
  <2> QED
    BY <2>1, <2>2
<1> QED
  BY <1>1, <1>2

(* What a request makes of its window, and of its admissions.              *)
LEMMA CountedIs ==
  ASSUME NEW s \in Seq(Nat), NEW b \in Bucket \cup {Absent},
         now \in Nat, InOrder(s, now), Spread(s), Fits(s, b, now),
         NEW t \in Nat, now - MaxWait <= t, t <= now
  PROVE  LET e == Counted(b, t)
             r == IF Allowed(e) THEN Noted(s) ELSE s
         IN  /\ e \in Bucket /\ r \in Seq(Nat)
             /\ e.reset = t + Minute \/ (b # Absent /\ e.reset = b.reset)
             /\ InOrder(r, now) /\ Spread(r) /\ Fits(r, e, now)
<1>0. /\ Noted(s) = Longer(s, now)
      /\ Longer(s, now) \in Seq(Nat) /\ InOrder(Longer(s, now), now)
  BY LongerIs DEF Noted, Longer
<1>1. CASE After(b, t)
  <2>1. Ended(s, now)
    <3>1. CASE b = Absent
      BY <3>1 DEF Fits
    <3>2. CASE b # Absent
      <4>1. b \in Bucket /\ Running(s, b) /\ b.reset < now
        BY <1>1, <3>2 DEF Fits, After, Bucket
      <4> QED
        BY <4>1, WindowEnds
    <3> QED
      BY <3>1, <3>2
  <2>2. Counted(b, t) = [count |-> 1, reset |-> t + Minute]
    BY <1>1 DEF Counted
  <2>3. /\ [count |-> 1, reset |-> t + Minute] \in Bucket
        /\ Allowed([count |-> 1, reset |-> t + Minute])
        /\ [count |-> 1, reset |-> t + Minute] # Absent
    BY LimiterAssumption DEF Allowed, Bucket, Absent
  <2>4. /\ Running(Longer(s, now), [count |-> 1, reset |-> t + Minute])
        /\ Spread(Longer(s, now))
    BY <2>1, NewWindow
  <2> QED
    BY <1>0, <2>2, <2>3, <2>4 DEF Fits
<1>2. CASE ~After(b, t)
  <2>1. b \in Bucket /\ b # Absent /\ Running(s, b)
    BY <1>2 DEF Fits, After, Absent, Bucket
  <2> DEFINE e == [b EXCEPT !.count = @ + 1]
  <2>2. Counted(b, t) = e
    BY <1>2 DEF Counted
  <2>a. e.count = b.count + 1 /\ e.reset = b.reset /\ b.count \in Nat /\ b.reset \in Nat
    BY <2>1 DEF Bucket
  <2>b. e \in Bucket
    BY <2>1, <2>a DEF Bucket
  <2>3. e \in Bucket /\ e.reset = b.reset /\ e # Absent
    BY <2>a, <2>b DEF Absent
  <2>4. CASE b.count < PerMinute
    <3>1. Allowed(e)
      BY <2>1, <2>4, LimiterAssumption DEF Allowed, Bucket
    <3>2. Running(Longer(s, now), e) /\ Spread(Longer(s, now))
      BY <2>1, <2>4, SameWindow
    <3> HIDE DEF e
    <3> QED
      BY <1>0, <2>1, <2>2, <2>3, <3>1, <3>2 DEF Fits
  <2>5. CASE b.count >= PerMinute
    <3>1. ~Allowed(e)
      BY <2>1, <2>5, LimiterAssumption DEF Allowed, Bucket
    <3>2. Running(s, e)
      BY <2>1, <2>5, RefusedWindow
    <3> HIDE DEF e
    <3> QED
      BY <2>1, <2>2, <2>3, <3>1, <3>2 DEF Fits
  <2> QED
    BY <2>1, <2>4, <2>5, LimiterAssumption DEF Bucket
<1> QED
  BY <1>1, <1>2

LEMMA LimiterInvInit == LimiterInit => LimiterInv
<1> SUFFICES ASSUME LimiterInit PROVE LimiterInv
  OBVIOUS
<1>1. \A i \in IPs : recent[i] = <<>> /\ buckets[i] = Absent
  BY DEF LimiterInit
<1>2. InOrder(<<>>, 0) /\ Spread(<<>>) /\ Ended(<<>>, 0)
  BY LimiterAssumption DEF InOrder, Spread, Ended
<1>3. \A i \in IPs : /\ InOrder(recent[i], now) /\ Spread(recent[i])
                    /\ Fits(recent[i], buckets[i], now)
  BY <1>1, <1>2 DEF LimiterInit, Fits
<1>4. LimiterTypeOK /\ lastCleanup <= now /\ EndedWindowsForgotten
  BY DEF LimiterInit, LimiterTypeOK, EndedWindowsForgotten
<1> QED
  BY <1>3, <1>4 DEF LimiterInv

LEMMA PassKeepsInv ==
  ASSUME LimiterInv, NEW ip \in IPs, NEW t \in 0..Horizon, Pass(ip, t), UNCHANGED now
  PROVE  LimiterInv'
<1> DEFINE C == Cleaned(t).windows
           last == Cleaned(t).last
           e == Counted(C[ip], t)
           r == IF Allowed(e) THEN Noted(recent[ip]) ELSE recent[ip]
<1>0. /\ t \in Nat /\ now - MaxWait <= t /\ t <= now /\ now \in Nat /\ lastCleanup \in Nat
      /\ lastCleanup <= now /\ recent \in [IPs -> Seq(Nat)]
      /\ \A i \in IPs : InOrder(recent[i], now) /\ Spread(recent[i])
  BY DEF Pass, LimiterInv, LimiterTypeOK
<1>1. /\ C \in [IPs -> Bucket \cup {Absent}]
      /\ last \in Nat /\ last <= now /\ (last = t \/ last = lastCleanup)
      /\ \A i \in IPs : /\ C[i] # Absent => C[i].reset >= last
                        /\ Fits(recent[i], C[i], now)
  BY <1>0, CleanedIs
<1>2. /\ buckets' = [C EXCEPT ![ip] = e] /\ lastCleanup' = last /\ now' = now
      /\ recent' = [recent EXCEPT ![ip] = r]
  BY <1>0 DEF Pass, Window
<1> HIDE DEF C, last
<1>3. /\ e \in Bucket /\ r \in Seq(Nat)
      /\ e.reset = t + Minute \/ (C[ip] # Absent /\ e.reset = C[ip].reset)
      /\ InOrder(r, now) /\ Spread(r) /\ Fits(r, e, now)
  BY <1>0, <1>1, CountedIs
<1>4. e.reset >= last
  <2>1. t + Minute >= last
    BY <1>0, <1>1, LimiterAssumption
  <2> QED
    BY <2>1, <1>1, <1>3
<1> HIDE DEF e, r
<1>5. LimiterTypeOK'
  BY <1>0, <1>1, <1>2, <1>3 DEF LimiterTypeOK
<1>6. EndedWindowsForgotten'
  BY <1>0, <1>1, <1>2, <1>4 DEF EndedWindowsForgotten
<1>7. ASSUME NEW i \in IPs
      PROVE  /\ InOrder(recent'[i], now) /\ Spread(recent'[i])
             /\ Fits(recent'[i], buckets'[i], now)
  <2>1. CASE i = ip
    BY <2>1, <1>0, <1>1, <1>2, <1>3
  <2>2. CASE i # ip
    BY <2>2, <1>0, <1>1, <1>2
  <2> QED
    BY <2>1, <2>2
<1>8. \A i \in IPs : /\ InOrder(recent'[i], now') /\ Spread(recent'[i])
                    /\ Fits(recent'[i], buckets'[i], now')
  BY <1>2, <1>7
<1> QED
  BY <1>1, <1>2, <1>5, <1>6, <1>8 DEF LimiterInv, InOrder, Spread, Fits, Ended, Running, Since, Admitted

LEMMA TickKeepsInv ==
  ASSUME LimiterInv, LimiterTick, UNCHANGED <<buckets, lastCleanup, recent>>
  PROVE  LimiterInv'
<1>0. /\ now \in Nat /\ lastCleanup \in Nat /\ lastCleanup <= now /\ now' = now + 1
      /\ buckets' = buckets /\ lastCleanup' = lastCleanup /\ recent' = recent
      /\ recent \in [IPs -> Seq(Nat)]
  BY DEF LimiterInv, LimiterTypeOK, LimiterTick
<1>1. LimiterTypeOK' /\ EndedWindowsForgotten'
  BY <1>0 DEF LimiterInv, LimiterTypeOK, EndedWindowsForgotten
<1>2. ASSUME NEW i \in IPs
      PROVE  /\ InOrder(recent[i], now + 1) /\ Spread(recent[i])
             /\ Fits(recent[i], buckets[i], now + 1)
  <2>1. /\ InOrder(recent[i], now) /\ Spread(recent[i])
        /\ Fits(recent[i], buckets[i], now) /\ recent[i] \in Seq(Nat)
    BY <1>0 DEF LimiterInv
  <2>2. Len(recent[i]) \in Nat /\ \A k \in 1..Len(recent[i]) : recent[i][k] \in Nat
    BY <2>1, LenProperties, ElementOfSeq
  <2>3. InOrder(recent[i], now + 1)
    BY <2>1, <2>2, <1>0 DEF InOrder
  <2>4. Ended(recent[i], now) => Ended(recent[i], now + 1)
    BY <2>2, <1>0, LimiterAssumption DEF Ended
  <2> QED
    BY <2>1, <2>3, <2>4 DEF Fits
<1>3. \A i \in IPs : /\ InOrder(recent'[i], now') /\ Spread(recent'[i])
                    /\ Fits(recent'[i], buckets'[i], now')
  BY <1>0, <1>2
<1>4. lastCleanup' <= now'
  BY <1>0
<1> QED
  BY <1>1, <1>3, <1>4 DEF LimiterInv, InOrder, Spread, Fits, Ended, Running, Since, Admitted

LEMMA LimiterInvInvariant == LimiterSpec => []LimiterInv
<1>1. LimiterInv /\ [LimiterNext]_limiterVars => LimiterInv'
  <2> SUFFICES ASSUME LimiterInv, [LimiterNext]_limiterVars PROVE LimiterInv'
    OBVIOUS
  <2>1. ASSUME NEW ip \in IPs, NEW t \in 0..Horizon, Pass(ip, t), UNCHANGED now
        PROVE  LimiterInv'
    BY <2>1, PassKeepsInv
  <2>2. CASE LimiterTick /\ UNCHANGED <<buckets, lastCleanup, recent>>
    BY <2>2, TickKeepsInv
  <2>3. CASE UNCHANGED limiterVars
    BY <2>3 DEF limiterVars, LimiterInv, LimiterTypeOK, EndedWindowsForgotten,
                InOrder, Spread, Fits, Ended, Running, Since, Admitted
  <2> QED
    BY <2>1, <2>2, <2>3 DEF LimiterNext
<1> QED
  BY LimiterInvInit, <1>1, PTL DEF LimiterSpec

-----------------------------------------------------------------------------
(* 2 * PerMinute + 1 requests of an address that are admitted take more    *)
(* than a minute, less what a request may wait for the mutex.              *)
THEOREM LimiterBoundsAdmissions == LimiterSpec => []AdmissionsBounded
<1>1. LimiterInv => AdmissionsBounded
  BY DEF LimiterInv, AdmissionsBounded, Spread
<1> QED
  BY <1>1, LimiterInvInvariant, PTL

(* An address that is refused has been admitted PerMinute times since its  *)
(* window began: refused requests do not extend it.                        *)
THEOREM LimiterRefusesForCause == LimiterSpec => []RefusedForCause
<1>1. ASSUME LimiterInv, NEW i \in IPs, buckets[i].count > PerMinute
      PROVE  /\ Len(recent[i]) >= PerMinute
             /\ recent[i][Len(recent[i]) - PerMinute + 1] + Minute >= buckets[i].reset
  <2>1. buckets[i] \in Bucket /\ Running(recent[i], buckets[i]) /\ recent[i] \in Seq(Nat)
    <3>1. buckets[i] # Absent
      BY <1>1, LimiterAssumption DEF Absent
    <3> QED
      BY <1>1, <3>1 DEF LimiterInv, LimiterTypeOK, Fits
  <2>2. Admitted(buckets[i]) = PerMinute
    BY <1>1 DEF Admitted
  <2>3. Since(recent[i], buckets[i]) \in Nat /\ buckets[i].reset \in Nat
        /\ PerMinute <= Len(recent[i]) /\ Len(recent[i]) \in Nat
        /\ buckets[i].reset <= Since(recent[i], buckets[i]) + Minute
    BY <1>1, <2>1, <2>2, WindowIs DEF LimiterInv, LimiterTypeOK
  <2> QED
    BY <2>2, <2>3, LimiterAssumption DEF Since
<1>2. LimiterInv => RefusedForCause
  BY <1>1 DEF RefusedForCause
<1> QED
  BY <1>2, LimiterInvInvariant, PTL

(* An entry whose window had ended when the cleanup last ran is gone.      *)
THEOREM LimiterForgets == LimiterSpec => [](LimiterTypeOK /\ EndedWindowsForgotten)
<1>1. LimiterInv => LimiterTypeOK /\ EndedWindowsForgotten
  BY DEF LimiterInv
<1> QED
  BY <1>1, LimiterInvInvariant, PTL

(***************************************************************************)
(* The throttle of failed attempts                                         *)
(***************************************************************************)

(* Attempts that passed the check and have not been counted.               *)
Unchecked == {p \in Attempts : pc[p] \in {"verify", "wrong", "right"}}

(* GuessesBounded is not inductive: nothing in it says that the attempts   *)
(* about to be counted still fit.  Each of them passed the check while the *)
(* counter was below the limit, so the counter together with them stays    *)
(* below the limit plus their number.                                      *)
ThrottleInv ==
  /\ TypeOK
  /\ count + Cardinality(Unchecked) < Limit + Cardinality(Attempts)

-----------------------------------------------------------------------------
(* The counter never leaves its type, and only a counter that exists has a *)
(* TTL.                                                                    *)
THEOREM ThrottleTypeCorrect == Spec => []TypeOK
<1>1. Init => TypeOK
  <2> SUFFICES ASSUME Init PROVE TypeOK
    OBVIOUS
  <2>1. /\ count \in Nat /\ faults \in Nat /\ pc \in [Attempts -> PCs]
    BY DEF Init, PCs
  <2>2. ttl = "none" /\ unbounded \in BOOLEAN
    BY Zenon DEF Init
  <2> QED
    BY <2>1, <2>2 DEF TypeOK
<1>2. TypeOK /\ [Next]_vars => TypeOK'
  <2> SUFFICES ASSUME TypeOK, [Next]_vars PROVE TypeOK'
    OBVIOUS
  <2> USE ThrottleAssumption DEF TypeOK, PCs, Goto, Fault
  <2>1. ASSUME NEW p \in Attempts, Check(p) PROVE TypeOK'
    BY <2>1 DEF Check
  <2>2. ASSUME NEW p \in Attempts, Verify(p) PROVE TypeOK'
    BY <2>2 DEF Verify
  <2>3. ASSUME NEW p \in Attempts, Incr(p) PROVE TypeOK'
    <3>1. /\ count' \in Nat /\ count' > 0 /\ faults' \in Nat
          /\ pc' \in [Attempts -> PCs]
      BY <2>3 DEF Incr
    <3>2. ttl' = ttl /\ unbounded' \in BOOLEAN
      BY Zenon, <2>3 DEF Incr
    <3> QED
      BY <3>1, <3>2
  <2>4. ASSUME NEW p \in Attempts, IncrFails(p) PROVE TypeOK'
    BY <2>4 DEF IncrFails
  <2>5. ASSUME NEW p \in Attempts, Expire(p) PROVE TypeOK'
    BY <2>5 DEF Expire
  <2>6. ASSUME NEW p \in Attempts, ExpireFails(p) PROVE TypeOK'
    BY <2>6 DEF ExpireFails
  <2>7. ASSUME NEW p \in Attempts, Reset(p) PROVE TypeOK'
    BY <2>7 DEF Reset
  <2>8. CASE Lapse
    BY <2>8 DEF Lapse
  <2>9. CASE Crash
    BY <2>9 DEF Crash
  <2>10. CASE UNCHANGED vars
    BY <2>10 DEF vars
  <2> QED
    BY <2>1, <2>2, <2>3, <2>4, <2>5, <2>6, <2>7, <2>8, <2>9, <2>10 DEF Next, Attempt
<1> QED
  BY <1>1, <1>2, PTL DEF Spec

-----------------------------------------------------------------------------
(* The number of unchecked attempts is a number, at most that of attempts. *)
LEMMA UncheckedBound ==
  /\ IsFiniteSet(Unchecked)
  /\ Cardinality(Unchecked) \in Nat /\ Cardinality(Attempts) \in Nat
  /\ Cardinality(Unchecked) <= Cardinality(Attempts)
<1>1. Unchecked \in SUBSET Attempts
  BY DEF Unchecked
<1> QED
  BY <1>1, ThrottleAssumption, FS_Subset, FS_CardinalityType

(* An attempt that is counted, or turned away, leaves the unchecked ones.  *)
LEMMA UncheckedLeaves ==
  ASSUME NEW p \in Attempts, p \in Unchecked, Unchecked' = Unchecked \ {p}
  PROVE  Cardinality(Unchecked') = Cardinality(Unchecked) - 1
BY UncheckedBound, FS_RemoveElement

(* However many attempts with one identity run at once, and whatever fails *)
(* between the check, the verification and the count, fewer than Limit     *)
(* plus their number are counted in one window.                            *)
THEOREM GuessesStayBounded == Spec => []GuessesBounded
<1>1. Init => ThrottleInv
  <2> SUFFICES ASSUME Init PROVE ThrottleInv
    OBVIOUS
  <2>1. TypeOK
    BY DEF Init, TypeOK, PCs
  <2>2. count = 0
    BY DEF Init
  <2> QED
    BY <2>1, <2>2, UncheckedBound, ThrottleAssumption DEF ThrottleInv
<1>2. ThrottleInv /\ TypeOK' /\ [Next]_vars => ThrottleInv'
  <2> SUFFICES ASSUME ThrottleInv, TypeOK', [Next]_vars PROVE ThrottleInv'
    OBVIOUS
  <2>b. /\ Cardinality(Unchecked) \in Nat /\ Cardinality(Attempts) \in Nat
        /\ Cardinality(Unchecked') \in Nat
        /\ Cardinality(Unchecked) <= Cardinality(Attempts)
        /\ Cardinality(Unchecked') <= Cardinality(Attempts)
        /\ count \in Nat /\ count' \in Nat /\ Limit \in Nat \ {0}
    <3>1. Unchecked' \in SUBSET Attempts
      BY DEF Unchecked
    <3>2. Cardinality(Unchecked') \in Nat /\ Cardinality(Unchecked') <= Cardinality(Attempts)
      BY <3>1, ThrottleAssumption, FS_Subset, FS_CardinalityType
    <3> QED
      BY <3>2, UncheckedBound, ThrottleAssumption DEF ThrottleInv, TypeOK
  (* Below the limit every attempt may be unchecked.                       *)
  <2>low. ASSUME count' < Limit PROVE ThrottleInv'
    BY <2>low, <2>b DEF ThrottleInv
  (* An attempt leaves the unchecked ones, counted or not.                 *)
  <2>leave. ASSUME NEW p \in Attempts, pc[p] \in {"verify", "wrong", "right"},
                   NEW l \in {"idle", "first"}, Goto(p, l), count' <= count + 1
            PROVE  ThrottleInv'
    <3>1. p \in Unchecked /\ Unchecked' = Unchecked \ {p}
      BY <2>leave DEF ThrottleInv, TypeOK, Unchecked, Goto
    <3>2. Cardinality(Unchecked') = Cardinality(Unchecked) - 1
      BY <3>1, UncheckedLeaves
    <3> QED
      BY <3>2, <2>leave, <2>b DEF ThrottleInv
  (* The others change neither the unchecked attempts nor the counter.     *)
  <2>same. ASSUME Unchecked' = Unchecked, count' = count PROVE ThrottleInv'
    BY <2>same, <2>b DEF ThrottleInv
  <2>1. ASSUME NEW p \in Attempts, Check(p) PROVE ThrottleInv'
    BY <2>1, <2>low, <2>b DEF Check, Exceeded
  <2>2. ASSUME NEW p \in Attempts, Verify(p) PROVE ThrottleInv'
    <3>1. Unchecked' = Unchecked
      BY <2>2 DEF ThrottleInv, TypeOK, Verify, Goto, Unchecked
    <3> QED
      BY <2>2, <3>1, <2>same DEF Verify
  <2>3. ASSUME NEW p \in Attempts, Incr(p) PROVE ThrottleInv'
    <3>1. PICK l \in {"idle", "first"} : Goto(p, l)
      BY <2>3 DEF Incr
    <3> QED
      BY <2>3, <3>1, <2>leave, <2>b DEF Incr
  <2>4. ASSUME NEW p \in Attempts, IncrFails(p) PROVE ThrottleInv'
    BY <2>4, <2>leave, <2>b DEF IncrFails
  <2>5. ASSUME NEW p \in Attempts, Expire(p) PROVE ThrottleInv'
    <3>1. Unchecked' = Unchecked
      BY <2>5 DEF ThrottleInv, TypeOK, Expire, Goto, Unchecked
    <3> QED
      BY <2>5, <3>1, <2>same DEF Expire
  <2>6. ASSUME NEW p \in Attempts, ExpireFails(p) PROVE ThrottleInv'
    <3>1. Unchecked' = Unchecked
      BY <2>6 DEF ThrottleInv, TypeOK, ExpireFails, Goto, Unchecked
    <3> QED
      BY <2>6, <3>1, <2>same DEF ExpireFails
  <2>7. ASSUME NEW p \in Attempts, Reset(p) PROVE ThrottleInv'
    <3>1. count' = 0 \/ count' = count
      BY <2>7 DEF Reset
    <3>2. count' <= count + 1
      BY <3>1, <2>b
    <3> QED
      BY <2>7, <3>2, <2>leave DEF Reset
  <2>8. CASE Lapse
    BY <2>8, <2>low, <2>b DEF Lapse
  <2>9. CASE Crash
    <3>1. Unchecked' = {}
      BY <2>9 DEF Crash, Unchecked
    <3>2. Cardinality(Unchecked') = 0
      BY <3>1, FS_EmptySet
    <3> QED
      BY <2>9, <3>2, <2>b DEF Crash, ThrottleInv
  <2>10. CASE UNCHANGED vars
    BY <2>10, <2>same DEF vars, Unchecked
  <2> QED
    BY <2>1, <2>2, <2>3, <2>4, <2>5, <2>6, <2>7, <2>8, <2>9, <2>10 DEF Next, Attempt
<1>3. ThrottleInv => GuessesBounded
  BY UncheckedBound, ThrottleAssumption DEF ThrottleInv, TypeOK, GuessesBounded
<1> QED
  BY <1>1, <1>2, <1>3, ThrottleTypeCorrect, PTL DEF Spec

(***************************************************************************)
(* The integration settings                                                *)
(***************************************************************************)

(* A secret that is sealed once at most, and not at all if it is empty.    *)
Tidy(s) ==
  s \in Secret /\ Len(s.seals) <= 1 /\ (s.text = NoValue => s.seals = <<>>)

Config == [mailer : Mailers, secret : [Places -> Secret]]
Form   == [pc : {"idle", "save"}, section : Sections, copy : Config, sound : BOOLEAN]

SettingsTypeOK ==
  /\ config \in Config /\ master \in MasterKeys /\ form \in [Administrators -> Form]
  /\ expected \in [Places -> Values \cup {NoValue}]
  /\ saved \in BOOLEAN /\ handedOut \in Secret

(* The inductive invariant: what is stored is sealed once, and once the    *)
(* settings have been saved always; it holds what was last entered, and so *)
(* does the copy of every form that read it whole.                         *)
SettingsInv ==
  /\ SettingsTypeOK
  /\ \A n \in Places :
       /\ Tidy(config.secret[n])
       /\ saved /\ config.secret[n].text # NoValue => config.secret[n].seals # <<>>
       /\ config.secret[n].text = expected[n]
       /\ \A a \in Administrators :
            /\ Tidy(form[a].copy.secret[n])
            /\ form[a].sound => form[a].copy.secret[n].text = expected[n]
  /\ handedOut.seals = <<>>

-----------------------------------------------------------------------------
LEMMA PlainIs ==
  ASSUME NEW v \in Values \cup {NoValue}
  PROVE  Tidy(Plain(v)) /\ Plain(v).text = v /\ Plain(v).seals = <<>>
BY EmptySeq DEF Tidy, Plain, Secret

LEMMA SealedIs ==
  ASSUME NEW s, Tidy(s), master \in MasterKeys
  PROVE  /\ Tidy(Sealed(s)) /\ Sealed(s).text = s.text
         /\ s.text # NoValue => Sealed(s).seals # <<>>
<1>1. CASE s.text = NoValue \/ s.seals # <<>>
  BY <1>1 DEF Sealed, Tidy
<1>2. CASE ~(s.text = NoValue \/ s.seals # <<>>)
  <2>1. Sealed(s) = [s EXCEPT !.seals = <<master>>]
    BY <1>2 DEF Sealed
  <2>2. <<master>> \in Seq(MasterKeys) /\ Len(<<master>>) = 1 /\ <<master>> # <<>>
    OBVIOUS
  <2>3. Sealed(s).text = s.text /\ Sealed(s).seals = <<master>> /\ Sealed(s) \in Secret
    BY <2>1, <2>2 DEF Tidy, Secret
  <2> QED
    BY <1>2, <2>2, <2>3 DEF Tidy
<1> QED
  BY <1>1, <1>2

LEMMA OpenIs ==
  ASSUME NEW s, Tidy(s)
  PROVE  Tidy(Open(s)) /\ Open(s).text = s.text /\ Open(s).seals = <<>>
<1>1. CASE s.seals = <<>>
  BY <1>1 DEF Open, Tidy
<1>2. CASE s.seals # <<>>
  <2>0. s.seals \in Seq(MasterKeys) /\ Len(s.seals) <= 1
    BY DEF Tidy, Secret
  <2>1. Len(s.seals) = 1
    <3> DEFINE l == Len(s.seals)
    <3>1. l \in Nat /\ l <= 1
      BY <2>0
    <3>2. l # 0
      BY <1>2, <2>0, EmptySeq
    <3> HIDE DEF l
    <3>3. l = 1
      BY <3>1, <3>2
    <3> QED
      BY <3>3 DEF l
  <2>2. SubSeq(s.seals, 1, Len(s.seals) - 1) = <<>>
    BY <2>0, <2>1
  <2>3. Open(s) = [s EXCEPT !.seals = <<>>]
    BY <1>2, <2>2 DEF Open
  <2>4. Open(s).text = s.text /\ Open(s).seals = <<>> /\ Open(s) \in Secret
    BY <2>3, EmptySeq DEF Tidy, Secret
  <2> QED
    BY <2>4, EmptySeq DEF Tidy
<1> QED
  BY <1>1, <1>2

LEMMA PlacesAre == Places = 1..3
BY DEF Places, Secrets

(* What getIntegrationConfig returns.                                      *)
LEMMA OpenedConfigIs ==
  ASSUME SettingsInv
  PROVE  /\ OpenedConfig \in [Places -> Secret]
         /\ \A n \in Places :
              /\ Tidy(OpenedConfig[n])
              /\ AllOpen => /\ OpenedConfig[n].text = config.secret[n].text
                            /\ OpenedConfig[n].seals = <<>>
<1>1. ASSUME NEW n \in Places
      PROVE  /\ Tidy(OpenedConfig[n])
             /\ AllOpen => /\ OpenedConfig[n].text = config.secret[n].text
                           /\ OpenedConfig[n].seals = <<>>
  <2>1. Tidy(config.secret[n])
    BY DEF SettingsInv
  <2>2. Tidy(Open(config.secret[n])) /\ Open(config.secret[n]).text = config.secret[n].text
        /\ Open(config.secret[n]).seals = <<>>
    BY <2>1, OpenIs
  <2>3. Tidy(NoSecret)
    BY PlainIs DEF NoSecret
  <2>4. OpenedConfig[n] \in {Open(config.secret[n]), NoSecret, config.secret[n]}
    BY DEF OpenedConfig
  <2>5. AllOpen => OpenedConfig[n] = Open(config.secret[n])
    BY PlacesAre DEF OpenedConfig, AllOpen
  <2> QED
    BY <2>1, <2>2, <2>3, <2>4, <2>5
<1>2. OpenedConfig = [n \in Places |-> OpenedConfig[n]]
  BY DEF OpenedConfig
<1> QED
  BY <1>1, <1>2 DEF Tidy

LEMMA NoConfigIs ==
  NoConfig \in Config /\ \A n \in Places : Tidy(NoConfig.secret[n])
<1>1. Tidy(NoSecret) /\ NoSecret \in Secret
  BY PlainIs DEF NoSecret, Tidy
<1> QED
  BY <1>1 DEF NoConfig, Config, Mailers

LEMMA IdleFormIs ==
  /\ IdleForm \in Form /\ ~IdleForm.sound
  /\ \A n \in Places : Tidy(IdleForm.copy.secret[n])
BY NoConfigIs DEF IdleForm, Form, Sections

-----------------------------------------------------------------------------
LEMMA SettingsInvInit == SettingsInit => SettingsInv
<1> SUFFICES ASSUME SettingsInit PROVE SettingsInv
  OBVIOUS
<1>1. PICK texts \in [Places -> Values \cup {NoValue}], sealed \in BOOLEAN :
        config = [mailer |-> "none",
                  secret |-> [n \in Places |->
                                IF sealed THEN Sealed(Plain(texts[n])) ELSE Plain(texts[n])]]
  BY Zenon DEF SettingsInit
<1>2. master \in MasterKeys
  BY DEF SettingsInit
<1>3. ASSUME NEW n \in Places
      PROVE  Tidy(config.secret[n]) /\ config.secret[n].text = texts[n]
  <2>1. Tidy(Plain(texts[n])) /\ Plain(texts[n]).text = texts[n]
    BY PlainIs
  <2>2. Tidy(Sealed(Plain(texts[n]))) /\ Sealed(Plain(texts[n])).text = texts[n]
    BY <1>2, <2>1, SealedIs
  <2>3. config.secret[n] = IF sealed THEN Sealed(Plain(texts[n])) ELSE Plain(texts[n])
    BY <1>1
  <2> QED
    BY <2>1, <2>2, <2>3
<1>4. config \in Config
  BY <1>1, <1>3 DEF Config, Mailers, Tidy
<1>5. /\ expected = [n \in Places |-> config.secret[n].text] /\ saved = FALSE
      /\ handedOut = NoSecret /\ form = [a \in Administrators |-> IdleForm]
  BY DEF SettingsInit
<1>6. expected \in [Places -> Values \cup {NoValue}]
  BY <1>3, <1>5
<1>7. handedOut \in Secret /\ handedOut.seals = <<>>
  BY <1>5, PlainIs DEF NoSecret, Tidy
<1>8. SettingsTypeOK
  BY <1>2, <1>4, <1>5, <1>6, <1>7, IdleFormIs DEF SettingsTypeOK
<1> QED
  BY <1>3, <1>5, <1>7, <1>8, IdleFormIs DEF SettingsInv

LEMMA ReadConfigKeepsInv ==
  ASSUME SettingsInv, NEW a \in Administrators, NEW section \in Sections,
         ReadConfig(a, section)
  PROVE  SettingsInv'
<1> USE DEF SettingsInv, SettingsTypeOK
<1>1. PICK answered \in BOOLEAN :
        form' = [form EXCEPT ![a] =
          [pc |-> "save", section |-> section, sound |-> answered /\ AllOpen,
           copy |-> IF answered THEN [config EXCEPT !.secret = OpenedConfig] ELSE NoConfig]]
  BY Zenon DEF ReadConfig
<1> DEFINE copy == IF answered THEN [config EXCEPT !.secret = OpenedConfig] ELSE NoConfig
           sound == answered /\ AllOpen
<1>2. /\ copy \in Config
      /\ \A n \in Places : /\ Tidy(copy.secret[n])
                           /\ sound => copy.secret[n].text = expected[n]
  BY OpenedConfigIs, NoConfigIs DEF Config
<1>3. sound \in BOOLEAN
  BY DEF AllOpen
<1>4. UNCHANGED <<config, master, expected, saved, handedOut>>
  BY DEF ReadConfig
<1>5. form' = [form EXCEPT ![a] = [pc |-> "save", section |-> section, sound |-> sound,
                                 copy |-> copy]]
  BY <1>1
<1> HIDE DEF copy, sound
<1>6. form' \in [Administrators -> Form]
  BY <1>2, <1>3, <1>5 DEF Form
<1>7. ASSUME NEW b \in Administrators, NEW n \in Places
      PROVE  /\ Tidy(form'[b].copy.secret[n])
             /\ form'[b].sound => form'[b].copy.secret[n].text = expected[n]
  BY <1>2, <1>5
<1> QED
  BY <1>4, <1>6, <1>7 DEF Tidy

LEMMA SaveConfigKeepsInv ==
  ASSUME SettingsInv, NEW a \in Administrators, SaveConfig(a)
  PROVE  SettingsInv'
<1> USE DEF SettingsInv, SettingsTypeOK
<1> DEFINE copy == form[a].copy
<1>1. PICK input \in [SecretsOf(form[a].section) -> Values \cup {NoValue}] :
        /\ \E mailer \in IF form[a].section = "email" THEN Mailers ELSE {copy.mailer} :
             config' = [mailer |-> mailer,
                        secret |-> [n \in Places |-> Sealed(Filled(copy, input)[n])]]
        /\ expected' = [n \in Places |->
             IF n \in DOMAIN input /\ input[n] # NoValue THEN input[n]
             ELSE IF form[a].sound THEN expected[n] ELSE copy.secret[n].text]
  BY DEF SaveConfig
<1> DEFINE filled == Filled(copy, input)
<1>2. PICK mailer \in IF form[a].section = "email" THEN Mailers ELSE {copy.mailer} :
        config' = [mailer |-> mailer, secret |-> [n \in Places |-> Sealed(filled[n])]]
  BY <1>1
<1>3. copy \in Config /\ form[a] \in Form /\ mailer \in Mailers
  BY DEF Form, Config
<1>4. ASSUME NEW n \in Places
      PROVE  /\ Tidy(filled[n]) /\ filled[n].text = expected'[n]
             /\ expected'[n] \in Values \cup {NoValue}
  <2>1. /\ Tidy(copy.secret[n]) /\ (form[a].sound => copy.secret[n].text = expected[n])
        /\ copy.secret[n].text \in Values \cup {NoValue}
    BY DEF Tidy, Secret
  <2>2. CASE n \in DOMAIN input /\ input[n] # NoValue
    <3>1. input[n] \in Values \cup {NoValue}
      BY <2>2
    <3>2. filled[n] = Plain(input[n]) /\ expected'[n] = input[n]
      BY <1>1, <2>2 DEF Filled
    <3> QED
      BY <3>1, <3>2, PlainIs
  <2>3. CASE ~(n \in DOMAIN input /\ input[n] # NoValue)
    <3>1. filled[n] = copy.secret[n]
      BY <2>3 DEF Filled
    <3>2. expected'[n] = IF form[a].sound THEN expected[n] ELSE copy.secret[n].text
      BY <1>1, <2>3
    <3> QED
      BY <2>1, <3>1, <3>2
  <2> QED
    BY <2>2, <2>3
<1> HIDE DEF filled
<1>5. ASSUME NEW n \in Places
      PROVE  /\ Tidy(config'.secret[n]) /\ config'.secret[n].text = expected'[n]
             /\ config'.secret[n].text # NoValue => config'.secret[n].seals # <<>>
  <2>1. config'.secret[n] = Sealed(filled[n])
    BY <1>2
  <2> QED
    BY <1>4, <2>1, SealedIs
<1>6. config' \in Config
  BY <1>2, <1>3, <1>5 DEF Config, Tidy
<1>7. expected' \in [Places -> Values \cup {NoValue}]
  <2>1. expected' = [n \in Places |-> expected'[n]]
    BY <1>1
  <2> QED
    BY <1>4, <2>1
<1>8. /\ form' = [b \in Administrators |->
                    IF b = a THEN IdleForm ELSE [form[b] EXCEPT !.sound = FALSE]]
      /\ saved' = TRUE /\ UNCHANGED <<master, handedOut>>
  BY DEF SaveConfig
<1>9. form' \in [Administrators -> Form]
  BY <1>8, IdleFormIs DEF Form
<1>10. ASSUME NEW b \in Administrators
       PROVE  /\ ~form'[b].sound
              /\ \A n \in Places : Tidy(form'[b].copy.secret[n])
  <2>1. CASE b = a
    BY <1>8, <2>1, IdleFormIs
  <2>2. CASE b # a
    BY <1>8, <2>2 DEF Form
  <2> QED
    BY <2>1, <2>2
<1> QED
  BY <1>5, <1>6, <1>7, <1>8, <1>9, <1>10 DEF Tidy

LEMMA SaveFailsKeepsInv ==
  ASSUME SettingsInv, NEW a \in Administrators, SaveFails(a)
  PROVE  SettingsInv'
<1> USE DEF SettingsInv, SettingsTypeOK
<1>1. /\ form' = [form EXCEPT ![a] = IdleForm]
      /\ UNCHANGED <<config, master, expected, saved, handedOut>>
  BY DEF SaveFails
<1>2. form' \in [Administrators -> Form]
  BY <1>1, IdleFormIs
<1>3. \A b \in Administrators : form'[b] = IdleForm \/ form'[b] = form[b]
  BY <1>1
<1> QED
  BY <1>1, <1>2, <1>3, IdleFormIs DEF Tidy

LEMMA HandOutKeepsInv ==
  ASSUME SettingsInv, NEW n \in Places, HandOut(n)
  PROVE  SettingsInv'
<1>1. handedOut' \in Secret /\ handedOut'.seals = <<>>
  BY OpenedConfigIs DEF HandOut, Tidy
<1>2. UNCHANGED <<config, master, form, expected, saved>>
  BY DEF HandOut
<1> QED
  BY <1>1, <1>2 DEF SettingsInv, SettingsTypeOK, Tidy

LEMMA RestartKeepsInv ==
  ASSUME SettingsInv, Restart
  PROVE  SettingsInv'
<1>1. /\ master' \in MasterKeys /\ form' = [a \in Administrators |-> IdleForm]
      /\ UNCHANGED <<config, expected, saved, handedOut>>
  BY DEF Restart
<1> QED
  BY <1>1, IdleFormIs DEF SettingsInv, SettingsTypeOK, Tidy

LEMMA SettingsInvInvariant == SettingsSpec => []SettingsInv
<1>1. SettingsInv /\ [SettingsNext]_settingsVars => SettingsInv'
  <2> SUFFICES ASSUME SettingsInv, [SettingsNext]_settingsVars PROVE SettingsInv'
    OBVIOUS
  <2>1. ASSUME NEW a \in Administrators, NEW section \in Sections, ReadConfig(a, section)
        PROVE  SettingsInv'
    BY <2>1, ReadConfigKeepsInv
  <2>2. ASSUME NEW a \in Administrators, SaveConfig(a) PROVE SettingsInv'
    BY <2>2, SaveConfigKeepsInv
  <2>3. ASSUME NEW a \in Administrators, SaveFails(a) PROVE SettingsInv'
    BY <2>3, SaveFailsKeepsInv
  <2>4. ASSUME NEW n \in Places, HandOut(n) PROVE SettingsInv'
    BY <2>4, HandOutKeepsInv
  <2>5. CASE SendEmail \/ AuthenticateAD
    BY <2>4, <2>5, PlacesAre DEF SendEmail, AuthenticateAD
  <2>6. CASE Restart
    BY <2>6, RestartKeepsInv
  <2>7. CASE UNCHANGED settingsVars
    BY <2>7 DEF settingsVars, SettingsInv, SettingsTypeOK, Tidy
  <2> QED
    BY <2>1, <2>2, <2>3, <2>5, <2>6, <2>7 DEF SettingsNext
<1> QED
  BY SettingsInvInit, <1>1, PTL DEF SettingsSpec

(* Once a save was stored every secret in Redis is sealed, and sealed      *)
(* once; and none that is still sealed is ever handed out.                 *)
THEOREM SettingsSealOnce == SettingsSpec => []SecretsSealedOnce
<1>1. ASSUME SettingsInv, NEW n \in Places
      PROVE  LET s == config.secret[n] IN
             Len(s.seals) <= 1 /\ (saved /\ s # NoSecret => s.seals # <<>>)
  <2>1. Tidy(config.secret[n]) /\ (saved /\ config.secret[n].text # NoValue
                                     => config.secret[n].seals # <<>>)
    BY <1>1 DEF SettingsInv
  <2>2. config.secret[n].text = NoValue => config.secret[n] = NoSecret
    BY <2>1 DEF Tidy, Secret, NoSecret, Plain
  <2> QED
    BY <2>1, <2>2 DEF Tidy
<1>2. SettingsInv => SecretsSealedOnce
  BY <1>1 DEF SecretsSealedOnce, SettingsInv
<1> QED
  BY <1>2, SettingsInvInvariant, PTL

(* A secret is what was entered for it last, and is lost only to a save    *)
(* that had no sound copy.                                                 *)
THEOREM SettingsLoseForCause == SettingsSpec => []SecretsLostForCause
<1>1. SettingsInv => SecretsLostForCause
  BY DEF SettingsInv, SecretsLostForCause
<1> QED
  BY <1>1, SettingsInvInvariant, PTL

(***************************************************************************)
(* The three together                                                      *)
(***************************************************************************)

(* What MCSignIn starts and carries out is a behaviour of each of its      *)
(* parts, so the theorems above hold of it.                                *)
THEOREM EachOnItsOwn == MCSpec => LimiterSpec /\ Spec /\ SettingsSpec
<1>1. MCInit => LimiterInit /\ Init /\ SettingsInit
  BY DEF MCInit
<1>2. [MCNext]_mcVars => /\ [LimiterNext]_limiterVars /\ [Next]_vars
                         /\ [SettingsNext]_settingsVars
  BY DEF MCNext, mcVars
<1> QED  BY <1>1, <1>2, PTL DEF MCSpec, LimiterSpec, Spec, SettingsSpec
=============================================================================
