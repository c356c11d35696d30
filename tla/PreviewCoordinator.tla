-------------------------- MODULE PreviewCoordinator --------------------------
(***************************************************************************)
(* The timers that coalesce automatic previews                             *)
(* (src/modules/canvas/services/canvas-ai-preview-coordinator.service.ts)  *)
(* of one process.  An edit moves the timer of its canvas to DebounceMs    *)
(* from now, but never past MaxDebounceMs after the first edit it stands   *)
(* for.  The event loop is taken to be idle when a timer falls due.        *)
(***************************************************************************)
EXTENDS Integers, FiniteSets

CONSTANTS Canvases, DebounceMs, MaxDebounceMs,
          AutoPreviewEnabled,  \* canvasAi.autoPreviewEnabled
          MaxTime,             \* bound on the clock
          MaxEdits             \* bound on the edits of a canvas

ASSUME DebounceAssumption ==
  /\ DebounceMs \in Nat /\ MaxDebounceMs \in Nat /\ MaxTime \in Nat /\ MaxEdits \in Nat
  /\ DebounceMs <= MaxDebounceMs   \* the constructor's RangeError

VARIABLES
  now,       \* clock.now()
  pending,   \* [Canvases -> {} or {the entry of the map}]
  timers,    \* timers that run: the entries their callbacks compare with the map's
  called,    \* history: [Canvases -> revision and reason of the handler's last call]
  edits,     \* history: [Canvases -> revision of the last edit]
  since      \* history: [Canvases -> {} or {time of the first edit nobody served yet}]

timerVars == <<now, pending, timers, called, edits, since>>

TimersInit ==
  /\ now = 0
  /\ pending = [c \in Canvases |-> {}]
  /\ timers = {}
  /\ called = [c \in Canvases |-> [revision |-> 0, reason |-> "none"]]
  /\ edits = [c \in Canvases |-> 0]
  /\ since = [c \in Canvases |-> {}]

Earlier(x, y) == IF x <= y THEN x ELSE y

\* An entry for an edit of c at this moment, counted from its first edit.
Entry(c, first) ==
  LET maxDueAt == first + MaxDebounceMs
      dueAt == Earlier(now + DebounceMs, maxDueAt)
  IN [canvas |-> c, first |-> first, due |-> dueAt, revision |-> edits[c] + 1,
      reason |-> IF dueAt = maxDueAt THEN "max_debounce" ELSE "debounce"]

\* firstEditAt of an entry that starts counting anew with each edit.
FirstIsNow(c) == now

FirstEditAt(c) == IF pending[c] = {} THEN now ELSE (CHOOSE e \in pending[c] : TRUE).first

\* scheduleEdit(): the running timer is cleared, its entry replaced.
scheduleEdit(c) ==
  /\ edits[c] < MaxEdits
  /\ edits' = [edits EXCEPT ![c] = @ + 1]
  /\ IF AutoPreviewEnabled
     THEN /\ pending' = [pending EXCEPT ![c] = {Entry(c, FirstEditAt(c))}]
          /\ timers' = (timers \ pending[c]) \cup {Entry(c, FirstEditAt(c))}
          /\ since' = [since EXCEPT ![c] = IF @ = {} THEN {now} ELSE @]
     ELSE UNCHANGED <<pending, timers, since>>
  /\ UNCHANGED <<now, called>>

\* The callback of a timer: only the entry of the map invokes the handler.
Expire(e) ==
  /\ e \in timers /\ e.due = now
  /\ timers' = timers \ {e}
  /\ IF pending[e.canvas] = {e}
     THEN /\ pending' = [pending EXCEPT ![e.canvas] = {}]
          /\ called' = [called EXCEPT ![e.canvas] =
                          [revision |-> e.revision, reason |-> e.reason]]
          /\ since' = [since EXCEPT ![e.canvas] = {}]
     ELSE UNCHANGED <<pending, called, since>>
  /\ UNCHANGED <<now, edits>>

\* clearTimeout() and delete() of the entry, if there is one.
Forget(c) ==
  /\ timers' = timers \ pending[c]
  /\ pending' = [pending EXCEPT ![c] = {}]
  /\ since' = [since EXCEPT ![c] = {}]
  /\ UNCHANGED <<now, edits>>

cancel(c) == pending[c] # {} /\ Forget(c) /\ UNCHANGED called

\* triggerExplicit() cancels and calls the handler itself.
triggerExplicit(c) ==
  /\ Forget(c)
  /\ called' = [called EXCEPT ![c] = [revision |-> edits[c], reason |-> "explicit"]]

\* Time passes while no timer is due.
Tick ==
  /\ now < MaxTime
  /\ \A e \in timers : e.due > now
  /\ now' = now + 1
  /\ UNCHANGED <<pending, timers, called, edits, since>>

TimersNext ==
  \/ \E c \in Canvases : scheduleEdit(c) \/ cancel(c) \/ triggerExplicit(c)
  \/ \E e \in timers : Expire(e)
  \/ Tick

TimersSpec == TimersInit /\ [][TimersNext]_timerVars

-------------------------------------------------------------------------------
\* An edit that no preview has served yet has exactly one running timer, which carries
\* the newest revision and falls due at most MaxDebounceMs after the first such edit;
\* a canvas without one has no timer at all.
EditsAreServed ==
  \A c \in Canvases :
    LET running == {e \in timers : e.canvas = c}
    IN IF since[c] = {} THEN running = {}
       ELSE \E e \in running : /\ running = {e}
                               /\ e.revision = edits[c]
                               /\ \A t \in since[c] : e.due <= t + MaxDebounceMs
===============================================================================
