------------------------------- MODULE Backoff -------------------------------
(* The retry delay of the outbox publisher, without its jitter             *)
(* (backoff, internal/adapters/postgres/outbox_publisher.go).              *)
EXTENDS Integers

(* Variant: the loop runs once more than the attempts before this one.     *)
RoundsOffByOne(attempt) == 0..attempt

(* Turns of the loop: one for each attempt before this one.                *)
Rounds(attempt) == 0..attempt - 1

(* One turn of the loop; the comparison with half the limit keeps the      *)
(* product from overflowing.                                               *)
Double(delay, max) ==
  IF delay >= max THEN delay
  ELSE IF delay > max \div 2 THEN max
  ELSE delay * 2

Backoff(base, max, attempt) ==
  LET delay[i \in Rounds(attempt)] == IF i = 0 THEN base ELSE Double(delay[i - 1], max)
      last == delay[CHOOSE i \in Rounds(attempt) : \A j \in Rounds(attempt) : j <= i]
  IN  IF last > max THEN max ELSE last
=============================================================================
