---------------------------- MODULE MCKafkaProducer ----------------------------
(* kafka_out over one partition, two partitions of one topic, and two topics. *)
EXTENDS KafkaProducer, TLC

MCLayouts == {{<<1, 1>>, <<1, 2>>}, {<<1, 1>>, <<2, 1>>}}
OnePartition == {{<<1, 1>>}}
================================================================================
