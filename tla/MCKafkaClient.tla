---------------------------- MODULE MCKafkaClient ----------------------------
(* Small instances of KafkaClient for TLC.                                 *)
EXTENDS KafkaClient

\* A call that sets no retries, one that allows none, one with three attempts.
MCCalls == {"default", "never", "thrice"}
MCRetries == [c \in MCCalls |-> CASE c = "default" -> Unset
                                  [] c = "never" -> 0
                                  [] c = "thrice" -> 3]
=============================================================================
