---------------------------- MODULE HttpRequests ----------------------------
(***************************************************************************)
(* Requests of the HTTP controllers as processes.  A request is one job of *)
(* one kind: it begins with its first read, each awaited statement is a    *)
(* step, and it ends as ok, refused (an exception of the service) or       *)
(* failed (a call that throws, a process that dies).  Nothing but the      *)
(* database orders the steps of two requests.                              *)
(*                                                                         *)
(* save() of a row that exists is TypeORM's: a SELECT that finds the       *)
(* columns in which the copy differs from the row, then an UPDATE of these *)
(* columns from the copy, also of columns the request never touched but    *)
(* somebody else changed meanwhile.                                        *)
(***************************************************************************)
EXTENDS Integers, FiniteSets, FiniteSetsExt, Sequences

CONSTANTS Requests,   \* the requests
          Kinds,      \* kinds of requests that are sent
          Processes,  \* instances of the server, with memory of their own
          MaxFaults,  \* bound: failed calls
          NoProcess

ASSUME RequestsAssumption ==
  /\ IsFiniteSet(Requests) /\ MaxFaults \in Nat
  /\ NoProcess \notin Processes /\ "none" \notin Kinds

VARIABLES
  job,     \* [Requests -> a record] kind, phase and what the request remembers
  alone,   \* history: requests nobody overlapped with
  faults   \* how much of MaxFaults is used

requestVars == <<job, alone, faults>>

NoJob    == [kind |-> "none", phase |-> "idle", at |-> NoProcess]
Outcomes == {"ok", "refused", "failed"}
Busy(q)  == job[q].phase \notin Outcomes \cup {"idle"}

RequestTypeOK ==
  /\ \A q \in Requests : /\ job[q].kind \in Kinds \cup {"none"}
                         /\ job[q].at \in Processes \cup {NoProcess}
                         /\ job[q].phase = "idle" <=> job[q].kind = "none"
  /\ alone \in [Requests -> BOOLEAN]
  /\ faults \in 0..MaxFaults

RequestInit ==
  /\ job = [q \in Requests |-> NoJob]
  /\ alone = [q \in Requests |-> TRUE]
  /\ faults = 0

-------------------------------------------------------------------------------
\* Request q begins as job j; whoever is at work now was not alone.
Begins(q, j) ==
  /\ job[q] = NoJob
  /\ j.kind \in Kinds
  /\ job' = [job EXCEPT ![q] = j]
  /\ alone' = [x \in Requests |->
       IF x = q THEN \A y \in Requests \ {q} : ~Busy(y)
       ELSE alone[x] /\ ~Busy(x)]
  /\ UNCHANGED faults

\* A request that is answered by its first read.
Answered(kind, outcome) == [NoJob EXCEPT !.kind = kind, !.phase = outcome]

At(q, kinds, phase) == job[q].kind \in kinds /\ job[q].phase = phase

Goes(q, phase) == job' = [job EXCEPT ![q].phase = phase] /\ UNCHANGED <<alone, faults>>

Ends(q, outcome) ==
  /\ job' = [job EXCEPT ![q] = [Answered(@.kind, outcome) EXCEPT !.at = job[q].at]]
  /\ UNCHANGED <<alone, faults>>

\* An awaited call of q throws, or the process dies before it returns.
Fails(q) ==
  /\ Busy(q)
  /\ faults < MaxFaults
  /\ faults' = faults + 1
  /\ job' = [job EXCEPT ![q] = [Answered(@.kind, "failed") EXCEPT !.at = job[q].at]]
  /\ UNCHANGED alone

\* The last call of a service: the audit log, in a statement of its own.
Audited(q, kinds) == At(q, kinds, "audit") /\ Ends(q, "ok")

\* The two statements of save().
Differing(copy, row)      == {c \in DOMAIN row : copy[c] # row[c]}
Written(row, copy, dirty) == [c \in DOMAIN row |-> IF c \in dirty THEN copy[c] ELSE row[c]]
===============================================================================
