----------------------------- MODULE MCDispatch -----------------------------
(***************************************************************************)
(* Small instances of Dispatch.  Word is 4 instead of 2^32, so that 3 + 3  *)
(* wraps; the clock has one tick up to TIMEOUT and one beyond it.          *)
(***************************************************************************)
EXTENDS Dispatch

\* One, two and three dimensions; the last is flat in y.
Shapes   == {Unit, <<1, 2, 1>>, <<1, 1, 2>>}
OneShape  == {Unit}

=============================================================================
