---------------------------- MODULE MessageDelivery ----------------------------
(***************************************************************************)
(* What the callers of http_parse_request() and http_parse_response() rely *)
(* on: the callbacks that the messages of a connection call for are made   *)
(* one after the other, until all were made or the connection is given up. *)
(***************************************************************************)
EXTENDS Naturals, Sequences

VARIABLES messages,     \* the callbacks that the peer's messages call for
          delivered,    \* the callbacks made so far
          over          \* has the connection been given up?

dvars == <<messages, delivered, over>>

Init == delivered = <<>> /\ over = FALSE

\* The next callback; the last one of a message also ends the message.
Deliver ==
    /\ ~ over
    /\ \E n \in {1, 2} :
          /\ Len(delivered) + n <= Len(messages)
          /\ n = 2 => messages[Len(delivered) + 2].ev = "end"
          /\ delivered' = SubSeq(messages, 1, Len(delivered) + n)
    /\ over' \in BOOLEAN
    /\ UNCHANGED messages

GiveUp == ~ over /\ over' = TRUE /\ UNCHANGED <<messages, delivered>>

Next == Deliver \/ GiveUp

FairSpec == Init /\ [][Next]_dvars /\ WF_dvars(Next)
=============================================================================
