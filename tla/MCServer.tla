------------------------------ MODULE MCServer ------------------------------
(***************************************************************************)
(* Upload requests, the audit log with its readers, its pages, and the TTL *)
(* of what is created, on small instances, one at a time: they share no    *)
(* state, and what one of them does is open to it whatever the others have *)
(* done.                                                                   *)
(***************************************************************************)
EXTENDS UploadRequests, Reporting, AuditPages, RequestTtl, TLC

VARIABLE part

mcVars == <<part, vars, reportingVars, pagesVars, ttlVars>>

(* What the idle parts start with makes no difference.                     *)
MCInit ==
  /\ Init /\ ReportingInit /\ PagesInit /\ TtlInit
  /\ part \in {"uploads", "reporting", "pages", "ttl"}
  /\ part # "pages" => \A s \in PageSizes : pageSize <= s
  /\ part # "ttl" => settings = [default |-> 1, max |-> 1]

(* Of two submissions that have come as far, up to reading their forms,    *)
(* nothing is said by which goes on: the first in turn does to look or to  *)
(* claim, and the last to be refused.                                      *)
Turn == CHOOSE n \in [Uploads -> 1 .. Cardinality(Uploads)] :
          \A u, v \in Uploads : n[u] = n[v] => u = v

InTurn ==
  \A u, v \in Uploads :
    up[u].pc \in {"none", "ready"} /\ up[u] = up[v] /\ Turn[u] < Turn[v] =>
      /\ up'[u].pc # "refused"
      /\ up'[v].pc \in {"ready", "claimed"} => up'[v] = up[v]

(* Bound: no operation is to be logged whose event would be one more than  *)
(* MaxEvents.                                                              *)
Loggable ==
  stamp' + Cardinality({a \in Operations : op'[a].pc = "audit"}) <= MaxEvents

MCNext ==
  /\ UNCHANGED part
  /\ \/ /\ part = "uploads" /\ Next /\ InTurn
        /\ UNCHANGED <<reportingVars, pagesVars, ttlVars>>
     \/ /\ part = "reporting" /\ ReportingNext /\ Loggable
        /\ UNCHANGED <<vars, pagesVars, ttlVars>>
     \/ /\ part = "pages" /\ PagesNext
        /\ UNCHANGED <<vars, reportingVars, ttlVars>>
     \/ /\ part = "ttl" /\ ttl
        /\ UNCHANGED <<vars, reportingVars, pagesVars>>

MCSpec == MCInit /\ [][MCNext]_mcVars

(* The variables of requests and log keep their types.                     *)
TypesOK == TypeOK /\ ReportingTypeOK

(* Workspaces and audited operations are interchangeable.                  *)
Symmetry == Permutations(Workspaces) \cup Permutations(Operations)
=============================================================================
