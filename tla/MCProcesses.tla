----------------------------- MODULE MCProcesses -----------------------------
(* Main, initd and one more page, which its children take in turn.         *)
EXTENDS Processes

CONSTANTS main, a, b

MCPage == {main, a, b}
MCStatus == {0}
=============================================================================
