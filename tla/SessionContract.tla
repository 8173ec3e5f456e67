---------------------------- MODULE SessionContract ----------------------------
(***************************************************************************)
(* What the calls of IPhreeqc.hpp promise a client, without saying how: a  *)
(* call is made when none is in progress and returns a result; whether the *)
(* object is usable is decided by loads alone; a call returns "ok" only on *)
(* a usable object; and the text a run returns with was issued by that run *)
(* and not by a call before it.                                            *)
(***************************************************************************)
CONSTANTS Channels, Ages

VARIABLES
  phase,   \* "idle", "running" or "loading"
  usable,  \* is a database loaded?
  result,  \* of the latest call
  shown    \* the origins of the text each channel shows

contractVars == <<phase, usable, result, shown>>

Init ==
  /\ phase = "idle"
  /\ usable = FALSE
  /\ result = "none"
  /\ shown = [c \in Channels |-> {}]

\* Between calls a client may clear a channel or add text of its own to it.
Client ==
  /\ phase = "idle" /\ phase' = "idle"
  /\ shown' \in [Channels -> SUBSET Ages]
  /\ \A c \in Channels : shown'[c] \subseteq shown[c] \cup {"client"}
  /\ UNCHANGED <<usable, result>>

\* What was shown when a call begins comes from earlier calls.
Call(kind) ==
  /\ phase = "idle"
  /\ phase' = kind
  /\ result' = "none"
  /\ \A c \in Channels : shown'[c] \subseteq {"earlier"}
  /\ UNCHANGED usable

\* A call in progress issues text; only a load decides about usability.
Work ==
  /\ phase # "idle" /\ phase' = phase
  /\ \A c \in Channels : shown'[c] \subseteq shown[c] \cup {"this"}
  /\ phase = "running" => usable' = usable
  /\ usable' \in BOOLEAN
  /\ UNCHANGED result

Return(outcome) ==
  /\ phase # "idle" /\ phase' = "idle"
  /\ result' = outcome
  /\ outcome = "ok" => usable
  /\ phase = "running" => \A c \in Channels : shown[c] \subseteq {"this"}
  /\ UNCHANGED <<usable, shown>>

Next ==
  \/ Client
  \/ \E kind \in {"running", "loading"} : Call(kind)
  \/ Work
  \/ \E outcome \in {"ok", "errors"} : Return(outcome)

Spec == Init /\ [][Next]_contractVars

================================================================================
