-------------------------- MODULE MCClientLibrary ---------------------------
(* A small instance of ClientLibrary for TLC.                                *)
EXTENDS ClientLibrary

\* Three servers, but not numbered consecutively.
ThreeServers == {0, 2, 7}

\* As config.json lists them.
Ascending == <<0, 2, 7>>
=============================================================================
