------------------------- MODULE MCInstrumentedThread -------------------------
(* Bounds for checking InstrumentedThread.                                 *)
EXTENDS InstrumentedThread

MCScales == {1, 2}

=============================================================================
