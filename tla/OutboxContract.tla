--------------------------- MODULE OutboxContract ---------------------------
(***************************************************************************)
(* What a single relay promises about every event, whatever the language:  *)
(* the abstract specification that TsRelay, PyRelay and GoRelay implement. *)
(* It sees, per event, the status, the attempt counter and the set of      *)
(* destinations that hold a copy; how a relay gets there is hidden.        *)
(*                                                                         *)
(*   absent -> pending -> published, or failed after MaxAttempts           *)
(***************************************************************************)
EXTENDS Naturals

CONSTANTS
    Event,        \* the events
    Trusted,      \* the destinations whose adapter reports every refusal
    MaxAttempts   \* failed attempts before an event is given up

VARIABLES
    status,       \* status[e]: absent, pending, published or failed
    attempts,     \* attempts[e]: failed attempts counted so far
    received      \* received[e]: the destinations that accepted a copy

vars == <<status, attempts, received>>

Init ==
    /\ status = [e \in Event |-> "absent"]
    /\ attempts = [e \in Event |-> 0]
    /\ received = [e \in Event |-> {}]

Same(e) == status'[e] = status[e] /\ attempts'[e] = attempts[e]

Capture(e) ==
    /\ status[e] = "absent"
    /\ status'[e] = "pending"
    /\ attempts'[e] = 0

\* Published only when every trusted destination holds the event.  One more
\* attempt may be counted when recording the success needed a second try.
Publish(e) ==
    /\ status[e] = "pending"
    /\ Trusted \subseteq received[e]
    /\ status'[e] = "published"
    /\ attempts'[e] \in {attempts[e], attempts[e] + 1}
    /\ attempts'[e] < MaxAttempts

CountFailure(e) ==
    /\ status[e] = "pending"
    /\ attempts'[e] = attempts[e] + 1
    /\ status'[e] = IF attempts'[e] < MaxAttempts THEN "pending" ELSE "failed"

\* Copies are never taken back, and only captured events are ever sent.
Deliver ==
    \A e \in Event :
        /\ received[e] \subseteq received'[e]
        /\ received'[e] # received[e] => status[e] # "absent"

Next ==
    /\ Deliver
    /\ \A e \in Event : Same(e) \/ Capture(e) \/ Publish(e) \/ CountFailure(e)

Spec == Init /\ [][Next]_vars
=============================================================================
