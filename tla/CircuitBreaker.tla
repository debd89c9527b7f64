---------------------------- MODULE CircuitBreaker ----------------------------
(***************************************************************************)
(* health/circuit_breaker: the entry the breaker keeps for one outbound,   *)
(* and what each of its methods makes of it.                               *)
(*                                                                         *)
(* Time is the flag "cooled": timeout_ms has passed since opened_at.       *)
(* failure_count is compared with the threshold and reset to 0, nothing    *)
(* else, so the model stops counting at the threshold.  The code counts    *)
(* before it compares, so a threshold of 0 acts as 1; for                  *)
(* half_open_max_requests 0 is a case of its own.                          *)
(***************************************************************************)
EXTENDS Naturals

CONSTANTS               \* after the casts of the configured int64_t values
    FailureThreshold,       \* failure_threshold
    SuccessThreshold,       \* success_threshold
    HalfOpenMaxRequests     \* half_open_max_requests

ASSUME BreakerAssumption ==
    /\ FailureThreshold \in Nat \ {0}
    /\ SuccessThreshold \in Nat \ {0}
    /\ HalfOpenMaxRequests \in Nat

(* The most requests a half-open entry carries: is_allowed() lets the one  *)
(* that ends a cooldown pass without a look at half_open_max_requests.     *)
Slots == IF HalfOpenMaxRequests = 0 THEN 1 ELSE HalfOpenMaxRequests

Entries == [st : {"closed", "open", "half_open"}, failures : 0 .. FailureThreshold,
            successes : 0 .. SuccessThreshold, active : 0 .. Slots,
            cooled : BOOLEAN]

NewEntry == [st |-> "closed", failures |-> 0, successes |-> 0, active |-> 0, cooled |-> FALSE]

RecordSuccess(e) ==
    CASE e.st = "closed" -> [e EXCEPT !.failures = 0]
      [] e.st = "open" -> e
      [] e.st = "half_open" /\ e.successes + 1 < SuccessThreshold ->
            [e EXCEPT !.successes = @ + 1]
      [] e.st = "half_open" /\ e.successes + 1 >= SuccessThreshold ->
            [e EXCEPT !.st = "closed", !.failures = 0, !.successes = 0, !.active = 0]

Counted(e) == [e EXCEPT !.failures = IF @ < FailureThreshold THEN @ + 1 ELSE @]

RecordFailure(e) ==
    CASE e.st = "closed" /\ Counted(e).failures >= FailureThreshold ->
            [Counted(e) EXCEPT !.st = "open", !.cooled = FALSE]
      [] e.st = "half_open" ->
            [Counted(e) EXCEPT !.st = "open", !.cooled = FALSE, !.successes = 0, !.active = 0]
      [] OTHER -> Counted(e)

(* is_allowed() moves an open entry that has cooled down to half open.     *)
AfterIsAllowed(e) ==
    IF e.st = "open" /\ e.cooled
    THEN [e EXCEPT !.st = "half_open", !.successes = 0, !.active = 0, !.cooled = FALSE]
    ELSE e

IsAllowed(e) ==
    \/ e.st = "closed"
    \/ e.st = "open" /\ e.cooled
    \/ e.st = "half_open" /\ e.active < HalfOpenMaxRequests

BeginRequest(e) == IF e.st = "half_open" THEN [e EXCEPT !.active = @ + 1] ELSE e

(* Mutant: the slot of a trial is not given back.                          *)
KeepSlot(e) == e

EndRequest(e) == IF e.active > 0 THEN [e EXCEPT !.active = @ - 1] ELSE e
===============================================================================
