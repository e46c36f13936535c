---------------------------- MODULE MCSubscriber ----------------------------
(* An instance of Subscriber for TLC. *)
EXTENDS Subscriber

\* Parsed again, the first news are printed again and the second ones are an exception.
MCKindOf == <<"NUMBER", "STRING">>

=============================================================================
