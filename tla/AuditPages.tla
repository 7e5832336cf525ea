----------------------------- MODULE AuditPages -----------------------------
(***************************************************************************)
(* An administrator reads the audit log page by page: buildAuditPage of    *)
(* src/internal/web/auth.go cuts the newest events, filtered, into pages   *)
(* by their place in the list, and each page links to the next by number.  *)
(* Every page is a request of its own that reads the list anew; between    *)
(* two of them events are logged and old ones leave the list, and at each  *)
(* of them any event may be passed over.                                   *)
(*                                                                         *)
(* The events of the administrator's workspace that match the filter are   *)
(* numbered in the order of the index; the list has the newest first.      *)
(***************************************************************************)
EXTENDS Naturals, FiniteSets

CONSTANTS
  PageSizes,  \* auditPageSize
  ListCap,    \* the newest events that are listed, and that the index keeps
  MaxTotal    \* bound: events logged

ASSUME PagesAssumption ==
  PageSizes \subseteq Nat \ {0} /\ ListCap \in Nat \ {0} /\ MaxTotal \in Nat

VARIABLES
  pageSize,
  total,    \* events logged that match the filter
  oldest,   \* the first of them that is still listed
  page,     \* the page shown, or 0
  more,     \* whether it has a link to the next
  began,    \* history: total when the log was opened at page 1, or 0
  seen,     \* history: events shown since
  blurred   \* history: events passed over at one of the requests since

pagesVars == <<pageSize, total, oldest, page, more, began, seen, blurred>>

(* Mutant: the division is not rounded up.                                 *)
FullPages(list) ==
  LET n == Cardinality(list)
  IN  IF n < pageSize THEN 1 ELSE n \div pageSize

Pages(list) ==
  LET n == Cardinality(list)
  IN  IF n = 0 THEN 1 ELSE (n + pageSize - 1) \div pageSize

(* A page past the last one shows the last.                                *)
Shown(list, p) == IF p > Pages(list) THEN Pages(list) ELSE p

(* The events of the list that come before e.                              *)
Place(list, e) == Cardinality({f \in list : f > e})

(* The events on page p: places start to start + pageSize - 1 of the list, *)
(* or to its end.                                                          *)
EventsOn(list, p) ==
  LET start == (p - 1) * pageSize
  IN  {e \in list : Place(list, e) \in start .. start + pageSize - 1}

PagesInit ==
  /\ pageSize \in PageSizes
  /\ total = 0 /\ oldest = 1 /\ page = 0 /\ more = FALSE
  /\ began = 0 /\ seen = {} /\ blurred = {}

(* A request for page p: the index is read and then event by event, and an *)
(* event is passed over that cannot be read or was not added yet.          *)
ShowPage(p) ==
  \E list \in SUBSET (oldest..total) :
    LET q == Shown(list, p) IN
    /\ page' = q /\ more' = (q < Pages(list))
    /\ seen' = seen \cup EventsOn(list, q)
    /\ blurred' = blurred \cup ((oldest..total) \ list)

(* The log is opened, at any page.                                         *)
OpenPage ==
  /\ page = 0
  /\ \E p \in 1 .. MaxTotal + 1 :
       ShowPage(p) /\ began' = IF p = 1 THEN total ELSE 0
  /\ UNCHANGED <<pageSize, total, oldest>>

FollowNext ==
  /\ more
  /\ ShowPage(page + 1)
  /\ UNCHANGED <<pageSize, total, oldest, began>>

(* An event is logged; the index keeps the newest.                         *)
LogEvent ==
  /\ total < MaxTotal
  /\ total' = total + 1
  /\ oldest' = IF total + 1 - oldest < ListCap THEN oldest ELSE oldest + 1
  /\ UNCHANGED <<pageSize, page, more, began, seen, blurred>>

(* The oldest event expires, or newer ones that the filter or the          *)
(* workspace leaves out crowd it out of the index.                         *)
DropOldest ==
  /\ oldest <= total
  /\ oldest' = oldest + 1
  /\ UNCHANGED <<pageSize, total, page, more, began, seen, blurred>>

PagesNext == OpenPage \/ FollowNext \/ LogEvent \/ DropOldest

PagesSpec == PagesInit /\ [][PagesNext]_pagesVars

-----------------------------------------------------------------------------
(* Who follows the links from the first page to the last misses an event   *)
(* of those logged when they began only if it has left the list since, or  *)
(* one of the requests passed over it or a newer one: neither the events   *)
(* logged meanwhile nor the old ones that leave move an event past the     *)
(* reader.                                                                 *)
PagesMissNoEvent ==
  page > 0 /\ ~more =>
    \A e \in oldest..began : e \in seen \/ \E f \in blurred : e <= f
=============================================================================
