---------------------------- MODULE EventDelivery ----------------------------
(***************************************************************************)
(* What the transactional outbox promises to the services that write       *)
(* events with OutboxService.create: an event reaches the broker's stream  *)
(* only if its row was committed, a row says "published" only for an event *)
(* that is in the stream, and what is in the stream stays there.  Whether  *)
(* and how often the row changes its mind is left open: the promise is     *)
(* at-least-once, so "published" and "failed" are reports, not states of   *)
(* the event.                                                              *)
(***************************************************************************)
CONSTANT Event      \* the events services may record

VARIABLES report,     \* [Event -> Report] what the row says about the event
          delivered   \* the events in the stream

vars == <<report, delivered>>

Report == {"absent", "open", "confirmed", "abandoned"}

\* The ranges of the two variables.
TypeOK == /\ report \in [Event -> Report]
          /\ delivered \subseteq Event

Init == /\ report = [e \in Event |-> "absent"]
        /\ delivered = {}

Record(e) == /\ report[e] = "absent"
             /\ report' = [report EXCEPT ![e] = "open"]
             /\ UNCHANGED delivered

Deliver(e) == /\ report[e] # "absent"
              /\ delivered' = delivered \cup {e}
              /\ UNCHANGED report

\* The row of a recorded event is rewritten: claimed, reported or retried.
ReportOutcome(e, r) == /\ report[e] # "absent"
                       /\ r # "absent"
                       /\ r = "confirmed" => e \in delivered
                       /\ report' = [report EXCEPT ![e] = r]
                       /\ UNCHANGED delivered

Next == \E e \in Event : \/ Record(e)
                         \/ Deliver(e)
                         \/ \E r \in Report : ReportOutcome(e, r)

Spec == Init /\ [][Next]_vars
==============================================================================
