-------------------------- MODULE MCTopicMetadata --------------------------
(***************************************************************************)
(* Small instances of TopicMetadata for TLC: brokers whose configured      *)
(* counts differ.                                                          *)
(***************************************************************************)
EXTENDS TopicMetadata

CONSTANTS B1, B2, B3

ConfiguredThree == [b \in Brokers |-> IF b = B1 THEN 3 ELSE IF b = B2 THEN 2 ELSE 1]
ConfiguredTwo == [b \in Brokers |-> IF b = B1 THEN 3 ELSE 1]
============================================================================
