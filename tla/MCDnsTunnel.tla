---------------------------- MODULE MCDnsTunnel -----------------------------
EXTENDS DnsTunnel

MtuChoice == {1, 2}
Writes == [s \in Side |-> IF s = "client" THEN 2 ELSE 1]
Caps == [s \in Side |-> IF s = "server" THEN 2 ELSE 1]
=============================================================================
