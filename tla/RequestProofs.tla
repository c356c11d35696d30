----------------------------- MODULE RequestProofs -----------------------------
(***************************************************************************)
(* Facts about the requests of HttpRequests that the proofs of the         *)
(* components need, for any number of requests and faults.                 *)
(***************************************************************************)
EXTENDS HttpRequests, WellFoundedInduction, TLAPS

\* The ids of new rows are the smallest free ones.
LEMMA SmallestElement ==
  ASSUME NEW S \in SUBSET Nat, S # {}
  PROVE  Min(S) \in S /\ \A x \in S : Min(S) <= x
<1> DEFINE Less == {ss \in Nat \X Nat : ss[1] < ss[2]}
<1>1. IsWellFoundedOn(Less, Nat)
  BY NatLessThanWellFounded DEF OpToRel
<1>2. PICK m \in S : \A y \in S : ~(<<y, m>> \in Less)
  <2> HIDE DEF Less
  <2> QED BY <1>1, WFMin
<1>3. ASSUME NEW y \in S PROVE m <= y
  <2>1. y \in Nat /\ m \in Nat /\ <<y, m>> \notin Less
    BY <1>2
  <2>2. ~(y < m)
    <3>1. <<y, m>>[1] = y /\ <<y, m>>[2] = m /\ <<y, m>> \in Nat \X Nat
      BY <2>1
    <3> QED BY <2>1, <3>1
  <2> QED BY <2>1, <2>2
<1> QED BY <1>2, <1>3 DEF Min

\* The first id of a set of row ids, <<table, number>>.
LEMMA FirstOfIds ==
  ASSUME NEW S, S # {}, \A id \in S : id[2] \in Nat
  PROVE  (CHOOSE id \in S : \A x \in S : id[2] <= x[2]) \in S
<1> DEFINE N == {id[2] : id \in S}
<1>1. N \in SUBSET Nat /\ N # {}
  OBVIOUS
<1>2. Min(N) \in N /\ \A n \in N : Min(N) <= n
  BY <1>1, SmallestElement
<1>3. PICK id \in S : id[2] = Min(N)
  BY <1>2
<1>4. \A x \in S : id[2] <= x[2]
  BY <1>2, <1>3
<1> QED BY <1>4

-------------------------------------------------------------------------------
\* A request that has been alone until now is the only one at work.
Solitude ==
  \A q \in Requests : Busy(q) /\ alone[q] => \A x \in Requests \ {q} : ~Busy(x)

\* The fields that every job has.
JobFields == {"kind", "phase", "at"}

RequestInv ==
  /\ \A q \in Requests : JobFields \subseteq DOMAIN job[q]
  /\ job = [q \in Requests |-> job[q]]
  /\ alone \in [Requests -> BOOLEAN]
  /\ Solitude

\* What no step changes of the requests other than q.
OthersStay(q) == \A x \in Requests \ {q} : job'[x] = job[x]

\* A step of a request that is at work.
Proceeds(q) ==
  /\ Busy(q) /\ UNCHANGED alone /\ OthersStay(q)
  /\ JobFields \subseteq DOMAIN job'[q]
  /\ job' = [x \in Requests |-> job'[x]]

\* What a step of q leaves to the others: a request that is at work is no longer alone, and
\* one that is answered stays as it is.
Steps(q) ==
  /\ OthersStay(q)
  /\ Busy(q) \/ job[q].kind = "none"
  /\ job[q].kind # "none" => job'[q].kind = job[q].kind
  /\ \A x \in Requests : job[x].kind # "none" /\ ~alone[x] => ~alone'[x]
  /\ \A x \in Requests \ {q} : Busy(x) => ~alone'[x]

LEMMA RequestsBegin == RequestInit => RequestInv
BY DEF RequestInit, RequestInv, Solitude, Busy, NoJob, JobFields

LEMMA BeginsMeans ==
  ASSUME RequestInv, NEW q \in Requests, NEW j, Begins(q, j),
         JobFields \subseteq DOMAIN j
  PROVE  /\ RequestInv' /\ OthersStay(q) /\ job'[q] = j /\ ~Busy(q)
         /\ Steps(q)
<1>1. /\ job = [x \in Requests |-> job[x]] /\ job[q] = NoJob
      /\ job' = [job EXCEPT ![q] = j]
      /\ alone' = [x \in Requests |->
           IF x = q THEN \A y \in Requests \ {q} : ~Busy(y) ELSE alone[x] /\ ~Busy(x)]
      /\ alone \in [Requests -> BOOLEAN]
  BY DEF RequestInv, Begins
<1>2. /\ job' = [x \in Requests |-> job'[x]] /\ job'[q] = j /\ OthersStay(q)
  BY <1>1 DEF OthersStay
<1>3. ~Busy(q)
  BY <1>1 DEF Busy, NoJob
<1>4. /\ alone' \in [Requests -> BOOLEAN]
      /\ alone'[q] => \A y \in Requests \ {q} : ~Busy(y)
      /\ \A x \in Requests \ {q} : alone'[x] => alone[x] /\ ~Busy(x)
  BY <1>1, Zenon
<1>5. Solitude'
  BY <1>2, <1>4 DEF Solitude, Busy, OthersStay
<1>6. \A x \in Requests : JobFields \subseteq DOMAIN job'[x]
  BY <1>2 DEF RequestInv, OthersStay
<1>7. Steps(q)
  <2>1. job[q].kind = "none"
    BY <1>1 DEF NoJob
  <2> QED BY <1>2, <1>4, <2>1 DEF Steps
<1> QED BY <1>2, <1>3, <1>4, <1>5, <1>6, <1>7 DEF RequestInv

LEMMA ProceedsMeans ==
  ASSUME RequestInv, NEW q \in Requests, Proceeds(q)
  PROVE  RequestInv' /\ (job'[q].kind = job[q].kind => Steps(q))
BY DEF RequestInv, Proceeds, Solitude, Busy, OthersStay, Steps

LEMMA GoesMeans ==
  ASSUME RequestInv, NEW q \in Requests, Busy(q), NEW phase, Goes(q, phase)
  PROVE  /\ Proceeds(q) /\ job'[q] = [job[q] EXCEPT !.phase = phase]
         /\ job'[q].phase = phase
BY DEF RequestInv, Goes, Proceeds, OthersStay, JobFields

\* The outcome of a request; its kind and its process are remembered.
LEMMA EndsMeans ==
  ASSUME RequestInv, NEW q \in Requests, Busy(q),
         \/ \E outcome \in Outcomes : Ends(q, outcome)
         \/ Fails(q)
  PROVE  /\ Proceeds(q) /\ job'[q].kind = job[q].kind /\ job'[q].phase \in Outcomes
         /\ job'[q].at = job[q].at
<1>1. PICK outcome \in Outcomes :
        job' = [job EXCEPT ![q] = [Answered(@.kind, outcome) EXCEPT !.at = job[q].at]]
  BY DEF Ends, Fails, Outcomes
<1>2. UNCHANGED alone
  BY DEF Ends, Fails
<1> QED BY <1>1, <1>2 DEF RequestInv, Proceeds, OthersStay, Answered, NoJob, JobFields

LEMMA AnsweredFields ==
  ASSUME NEW kind, NEW outcome
  PROVE  JobFields \subseteq DOMAIN Answered(kind, outcome)
BY DEF Answered, NoJob, JobFields

\* A step of a request at work that leaves it as job j of the same kind.
LEMMA JobBecomes ==
  ASSUME RequestInv, NEW q \in Requests, Busy(q), UNCHANGED alone, NEW j,
         job' = [job EXCEPT ![q] = j], JobFields \subseteq DOMAIN j, j.kind = job[q].kind
  PROVE  RequestInv' /\ job'[q] = j /\ Steps(q)
<1>1. Proceeds(q) /\ job'[q] = j
  BY DEF RequestInv, Proceeds, OthersStay
<1> QED BY <1>1, ProceedsMeans
===============================================================================
