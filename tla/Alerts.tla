-------------------------------- MODULE Alerts --------------------------------
(***************************************************************************)
(* What the web front end tells its user unasked.                          *)
(* SecurityAlertSystem (components/security-alert-system.tsx) asks every   *)
(* five seconds for the events of the last thirty and shows each as an     *)
(* alert; it knows those it has shown by the set that its effect closed    *)
(* over.  The events are those of api/security_events.go.                  *)
(* The toasts of hooks/use-toast.ts are one list that any page adds to,    *)
(* one of which stays, and is removed some time after it is dismissed.     *)
(***************************************************************************)
EXTENDS Naturals, Sequences, FiniteSets, SequencesExt

CONSTANTS
  Types,      \* types of security events
  Polls,      \* requests for the events under way at once
  Window,     \* how many requests are made while an event is recent: six
  Keep,       \* how many events the backend keeps: a hundred
  MaxEvents,  \* bound: events that happen
  MaxToasts   \* bound: toasts that are shown

VARIABLES
  happened,   \* history: the type of each event
  kept,       \* securityEvents
  tries,      \* how many requests each event has seen handled
  processed,  \* processedEvents
  closure,    \* what the effect in force closed over
  render,     \* whether a rendering, and with it the effect anew, is due
  polls,      \* requests under way
  alerts,     \* history: how often each event was shown
  toasts, timers,   \* memoryState.toasts; toastTimeouts
  count,      \* the last id given out
  dismissed   \* history: toasts that were dismissed

backend == <<happened, kept, tries>>
effect == <<processed, closure, render, polls, alerts>>
toastVars == <<toasts, timers, count, dismissed>>
vars == <<backend, effect, toastVars>>

Events == 1..MaxEvents
Free == [at |-> "free", seen |-> {}, late |-> {}, events |-> {}]

Init ==
  /\ happened = <<>> /\ kept = <<>> /\ tries = [e \in Events |-> 0]
  /\ processed = {} /\ closure = {} /\ render = FALSE
  /\ polls = [p \in Polls |-> Free]
  /\ alerts = [e \in Events |-> 0]
  /\ toasts = {} /\ timers = {} /\ count = 0 /\ dismissed = {}

-----------------------------------------------------------------------------
(* The events                                                              *)

\* AddSecurityEvent
Happens(type) ==
  /\ Len(happened) < MaxEvents
  /\ happened' = Append(happened, type)
  /\ kept' = LET all == Append(kept, Len(happened'))
             IN  IF Len(all) > Keep THEN Tail(all) ELSE all
  /\ UNCHANGED <<tries, effect, toastVars>>

\* GetSecurityEvents: the recent ones, in an order that matters to nobody.  An
\* event stays recent for at least as many requests as fit into thirty seconds.
Recent == {e \in ToSet(kept) : tries[e] < Window}

\* Each try is one that the backend handles; it may still come to nothing, by a
\* refusal or an answer that is no list.
Serve(p) ==
  /\ polls[p].at = "sent"
  /\ tries' = [e \in Events |-> IF e \in Recent THEN tries[e] + 1 ELSE tries[e]]
  /\ polls' = [polls EXCEPT ![p].at = "served", ![p].events = Recent]
  /\ UNCHANGED <<happened, kept, processed, closure, render, alerts, toastVars>>

\* A request fails; not as often as to keep a recent event from being seen.
Fails(p) ==
  /\ polls[p].at = "sent"
  /\ \A e \in Recent : tries[e] + 1 < Window
  /\ tries' = [e \in Events |-> IF e \in Recent THEN tries[e] + 1 ELSE tries[e]]
  /\ polls' = [polls EXCEPT ![p] = Free]
  /\ UNCHANGED <<happened, kept, processed, closure, render, alerts, toastVars>>

-----------------------------------------------------------------------------
(* The effect                                                              *)

\* Requests carry what the effect that makes them closed over, and, for the
\* record, which events had been shown by then.
Asking(p, seen) ==
  [polls EXCEPT ![p] = [at |-> "sent", seen |-> seen, events |-> {},
                        late |-> {e \in Events : alerts[e] > 0}]]

\* The interval.
Tick(p) ==
  /\ ~render /\ polls[p] = Free
  /\ polls' = Asking(p, closure)
  /\ UNCHANGED <<backend, processed, closure, render, alerts, toastVars>>

\* The effect runs anew: a new interval, and a request at once.
Closed == processed
Rerun(p) ==
  /\ render /\ polls[p] = Free
  /\ render' = FALSE
  /\ closure' = Closed
  /\ polls' = Asking(p, Closed)
  /\ UNCHANGED <<backend, processed, alerts, toastVars>>

\* Mutant of Id: without the time, an event is its type.
IdOfType(e) == happened[e]

\* Type and time.
Id(e) == <<happened[e], e>>

Alerted(p) == {e \in polls[p].events : Id(e) \notin polls[p].seen}

\* An answer comes: each event that is new to the closure is shown.
Arrive(p) ==
  /\ polls[p].at = "served"
  /\ alerts' = [e \in Events |-> IF e \in Alerted(p) THEN alerts[e] + 1 ELSE alerts[e]]
  /\ processed' = processed \cup {Id(e) : e \in Alerted(p)}
  /\ render' = (render \/ Alerted(p) # {})
  /\ polls' = [polls EXCEPT ![p] = Free]
  /\ UNCHANGED <<backend, closure, toastVars>>

-----------------------------------------------------------------------------
(* Toasts                                                                  *)

\* toast, with TOAST_LIMIT = 1: the new one takes the place of the one before.
Toast ==
  /\ count < MaxToasts
  /\ count' = count + 1
  /\ toasts' = {[id |-> count + 1, open |-> TRUE]}
  /\ UNCHANGED <<timers, dismissed, backend, effect>>

\* DISMISS_TOAST: by whoever holds it, shown or not, once or again.
Dismiss(i) ==
  /\ i \in 1..count
  /\ timers' = timers \cup {i} /\ dismissed' = dismissed \cup {i}
  /\ toasts' = {IF t.id = i THEN [t EXCEPT !.open = FALSE] ELSE t : t \in toasts}
  /\ UNCHANGED <<count, backend, effect>>

\* REMOVE_TOAST
Remaining(i) == {t \in toasts : t.id # i}
Removed(i) ==
  /\ i \in timers
  /\ timers' = timers \ {i}
  /\ toasts' = Remaining(i)
  /\ UNCHANGED <<count, dismissed, backend, effect>>

Next ==
  \/ \E type \in Types : Happens(type)
  \/ \E p \in Polls : Serve(p) \/ Fails(p) \/ Tick(p) \/ Rerun(p) \/ Arrive(p)
  \/ Toast \/ \E i \in 1..MaxToasts : Dismiss(i) \/ Removed(i)

Spec == Init /\ [][Next]_vars

-----------------------------------------------------------------------------
(* Properties                                                              *)

\* An event that is recent no more was shown, or is in an answer on its way,
\* unless too many others happened meanwhile for the backend to keep it.
NoneIsMissed ==
  \A e \in ToSet(kept) :
    tries[e] = Window =>
      alerts[e] > 0 \/ \E p \in Polls : e \in polls[p].events

\* An event is shown again only by a request that was made before its alert.
RepeatsOnlyOverlap ==
  [][ \A e \in Events, p \in Polls :
        Arrive(p) /\ e \in Alerted(p) => e \notin polls[p].late ]_vars

\* The newest toast stays, and stays open, until it is itself dismissed: no timer
\* of an older one takes it away.
NewestStays ==
  count > 0 /\ count \notin dismissed => toasts = {[id |-> count, open |-> TRUE]}

\* Together: every event is seen, for long enough, and not again.
AlertsAreSeen == [](NoneIsMissed /\ NewestStays) /\ RepeatsOnlyOverlap
==============================================================================
