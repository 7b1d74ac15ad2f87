----------------------- MODULE MCAsyncConnectionPool -----------------------
(* A small instance of AsyncConnectionPool for TLC. *)
EXTENDS AsyncConnectionPool
=============================================================================
