------------------------------ MODULE MCEvents ------------------------------
EXTENDS Events, MCRings, TLC

CONSTANTS c, h, jsonl, webhook

MCConns == {c}
MCHandlers == {h}
MCLogs == {jsonl}
MCHooks == {webhook}
MCMaxEvents == (c :> 2) @@ (h :> 1)
MCSinkLists == {<<jsonl>>, <<webhook>>, <<jsonl, webhook>>}
=============================================================================
