-------------------------------- MODULE Link --------------------------------
(***************************************************************************)
(* What transport::Connection promises to the session above it: a logical  *)
(* connection that is up, going down or down, an epoch that counts the     *)
(* times it came up, and the queue of Connected and Disconnected signals   *)
(* the session drains.  Connection implements this specification.          *)
(***************************************************************************)
EXTENDS Naturals, Sequences

VARIABLES state,       \* the state between two calls of the session
          epoch,       \* epoch()
          signals      \* the Connected and Disconnected signals not drained

vars == <<state, epoch, signals>>

Down == {"Disconnected", "WaitingReconnect"}
Live == {"Connected", "Expired", "Closing"}

Init ==
    /\ state = "Disconnected"
    /\ epoch = 0
    /\ signals = <<>>

(* open() or a retry succeeds.                                             *)
Connect ==
    /\ state \in Down
    /\ state' = "Connected"
    /\ epoch' = epoch + 1
    /\ signals' = Append(signals, "Connected")

(* open() or a retry fails, or close() gives the retries up.               *)
StayDown ==
    /\ state \in Down
    /\ state' \in Down
    /\ UNCHANGED <<epoch, signals>>

(* close()                                                                 *)
Close ==
    /\ state = "Connected"
    /\ state' = "Closing"
    /\ UNCHANGED <<epoch, signals>>

(* poll() closes a transport that has been silent for too long.            *)
Expire ==
    /\ state = "Connected"
    /\ state' = "Expired"
    /\ UNCHANGED <<epoch, signals>>

(* poll() observes that the transport closed.  Only a connection that the  *)
(* caller did not close waits for a retry.                                 *)
Lose ==
    /\ state \in Live
    /\ state' \in Down
    /\ state = "Closing" => state' = "Disconnected"
    /\ signals' = Append(signals, "Disconnected")
    /\ UNCHANGED epoch

(* poll() observes the closure, and its immediate retry succeeds.          *)
LoseAndReconnect ==
    /\ state \in Live \ {"Closing"}
    /\ state' = "Connected"
    /\ epoch' = epoch + 1
    /\ signals' = signals \o <<"Disconnected", "Connected">>

(* poll_signal()                                                           *)
TakeSignal ==
    /\ signals # <<>>
    /\ signals' = Tail(signals)
    /\ UNCHANGED <<state, epoch>>

Next ==
    \/ Connect \/ StayDown \/ Close \/ Expire
    \/ Lose \/ LoseAndReconnect \/ TakeSignal

Spec == Init /\ [][Next]_vars

=============================================================================
