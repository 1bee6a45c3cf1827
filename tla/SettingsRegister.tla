--------------------------- MODULE SettingsRegister ---------------------------
(***************************************************************************)
(* What the settings service promises of one setting, whatever it caches:  *)
(* it can be read as what it is, for some time as what it was, and never   *)
(* as anything else.                                                       *)
(***************************************************************************)
CONSTANTS
  Values,   \* of the setting
  Calls,    \* requests that may be under way at a time
  Failed    \* the answer of a request that failed

VARIABLES
  value,    \* of the setting
  late,     \* values it may still be read as
  answer    \* the last answer of each request

vars == <<value, late, answer>>

Init == value \in Values /\ late = {} /\ answer \in [Calls -> Values \cup {Failed}]

Store == value' \in Values /\ UNCHANGED answer

Answer ==
  /\ \E c \in Calls, v \in {value, Failed} \cup late : answer' = [answer EXCEPT ![c] = v]
  /\ UNCHANGED value

Age == UNCHANGED <<value, answer>>

\* Whatever happens, the values that can be read late are some of those that
\* could be, and what is or was stored.
Next == (Store \/ Answer \/ Age) /\ late' \subseteq late \cup {value, value'}

Spec == Init /\ [][Next]_vars

\* When it is not set any more, it is soon read as what it is.
Settles == <>[][UNCHANGED value]_value => <>[](late \subseteq {value})
===============================================================================
