----------------------------- MODULE MCWebChat -----------------------------
(* Constants of WebChat for TLC: the example in the documentation of        *)
(* rift-web-chat, which greets the room from its on_connect callback.       *)
EXTENDS WebChat

CONSTANTS a, b, i
=============================================================================
