----------------------------- MODULE ByteStream -----------------------------
(***************************************************************************)
(* What a caller of net/tcp.h expects of a connection: it is opened, then  *)
(* tcp_recv returns the bytes of the server's stream, each once and in     *)
(* order, and none that the server has not written, until it is closed.    *)
(***************************************************************************)
EXTENDS Naturals

CONSTANT StreamLen      \* how many bytes a server has to write

VARIABLES
    phase,              \* of the latest connection
    written,            \* bytes of its stream the server has written
    read                \* bytes of it that have been returned

vars == <<phase, written, read>>

Init == phase = "closed" /\ written = 0 /\ read = 0

Open == phase' = "connecting" /\ written' = 0 /\ read' = 0

Established == /\ phase = "connecting" /\ phase' = "open"
               /\ UNCHANGED <<written, read>>

Write == written' \in written + 1 .. StreamLen /\ UNCHANGED <<phase, read>>

Read == /\ phase = "open"
        /\ read' \in read + 1 .. written
        /\ UNCHANGED <<phase, written>>

Closed == phase # "closed" /\ phase' = "closed" /\ UNCHANGED <<written, read>>

Next == Open \/ Established \/ Write \/ Read \/ Closed

Spec == Init /\ [][Next]_vars
=============================================================================
