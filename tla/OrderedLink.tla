---------------------------- MODULE OrderedLink -----------------------------
(***************************************************************************)
(* What a connection-oriented transport promises to the gateways that use  *)
(* it: of the messages that one device sends to another, some are lost,    *)
(* but none is invented, repeated or delivered out of order.               *)
(***************************************************************************)
EXTENDS Integers

CONSTANT Links      \* pairs of a sending and a receiving device

VARIABLES
    sent,           \* the number of the message sent last on each link
    received        \* the number of the message received last

Init ==
    /\ sent = [l \in Links |-> 0]
    /\ received = [l \in Links |-> 0]

Send(l) ==
    /\ sent' = [sent EXCEPT ![l] = @ + 1]
    /\ UNCHANGED received

\* Messages that are passed over have been lost.
Receive(l) ==
    /\ \E k \in (received[l] + 1) .. sent[l] : received' = [received EXCEPT ![l] = k]
    /\ UNCHANGED sent

Next == \E l \in Links : Send(l) \/ Receive(l)

Spec == Init /\ [][Next]_<<sent, received>>
=============================================================================
