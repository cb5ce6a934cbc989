--------------------------- MODULE MCStdinReactor ---------------------------
(* Small instances of StdinReactor: the reactor's buffer holds two bytes and a  *)
(* stream's buffer starts with one, so that both fill up, wrap and grow.        *)
EXTENDS StdinReactor
=============================================================================
