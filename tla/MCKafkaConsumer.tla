------------------------- MODULE MCKafkaConsumer -------------------------
(* One member and its peers share a partition of a log that loses records. *)
EXTENDS KafkaConsumer

SilentDef == {0}
=============================================================================
