--------------------------- MODULE MCAppLifecycle ---------------------------
(***************************************************************************)
(* An instance of AppLifecycle for TLC.                                    *)
(***************************************************************************)
EXTENDS AppLifecycle

CONSTANTS m1, m2, u1

\* getInt lets a negative number pass as well as none.
SomeConcurrencies == {-1, 0, 1, 2}

=============================================================================
