-------------------------- MODULE MCPixelRoundTrip --------------------------
(* PixelRoundTrip on few levels; MonotonicTables adds the tables of the file. *)
EXTENDS PixelRoundTrip, MonotonicTables
=============================================================================
