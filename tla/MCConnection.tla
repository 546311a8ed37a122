---------------------------- MODULE MCConnection ----------------------------
(* Connection with the lines the runs send. *)
EXTENDS Connection, MCCodec, TLC

Registering == {"PASS", "NICK", "USER", "SERVICE", "CAP LS", "CAP REQ", "CAP END"}
Leaving == {"NICK", "USER", "PRIVMSG", "QUIT", "OVERSIZED", "EOF", "OTHER"}
Negotiating == {"NICK", "USER", "CAP REQ"}
=============================================================================
