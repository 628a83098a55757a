--------------------------- MODULE MCInboundEvents ---------------------------
(* Instances of InboundEvents for TLC.                                     *)
EXTENDS InboundEvents

CONSTANTS c1, c2

Report(c, type, text) == [call |-> c, type |-> type, text |-> text,
                          known |-> TRUE, routed |-> TRUE]

\* A call that nobody answers; another from a caller without a number or to a
\* number without a channel, whichever is reported first.
MCDeliveries == {Report(c1, "call.started", "talk"), Report(c1, "call.missed", "talk"),
                 [Report(c2, "call.missed", "talk") EXCEPT !.known = FALSE],
                 [Report(c2, "call.missed", "talk") EXCEPT !.routed = FALSE]}

\* Two chats, each reported once with one message and once with another.
MCChats == {Report(c1, "message.received", "stop"), Report(c1, "message.received", "none"),
            Report(c2, "message.received", "start"), Report(c2, "message.received", "help")}

\* A call that nobody answers.
MCMissedCall == {Report(c1, "call.started", "talk"), Report(c1, "call.missed", "talk")}

\* One chat message, STOP.
MCStop == {Report(c2, "message.received", "stop")}
=============================================================================
