----------------------------- MODULE ListService -----------------------------
(***************************************************************************)
(* ListService::download_remote_lists() (daemon/list_service.cpp).  One    *)
(* flight at a time: a caller with the key of the flight joins it and gets *)
(* its result, a caller with another key sleeps until there is none.       *)
(* Notifications follow the unlock; sleepers may also wake up by           *)
(* themselves.                                                             *)
(***************************************************************************)
EXTENDS ListCache

VARIABLES
    flight, \* refresh_flight_: the key and the owner, or NoFlight
    call    \* call[c]: the call a caller is in

serviceVars == <<cacheVars, flight, call>>

(* "enter": about to take the mutex; "wait" for another flight to end;     *)
(* "join": waits for the flight to be done; "own": downloads; "announce":  *)
(* about to notify; "back": the caller has its result.                     *)
NoCall == [at |-> "out", key |-> None, todo |-> <<>>, awake |-> TRUE, done |-> FALSE,
           changed |-> {}, failed |-> {}, error |-> FALSE]

NoFlight == [key |-> None, owner |-> None]

ServiceInit ==
    /\ CacheInit
    /\ flight = NoFlight
    /\ call = [c \in Callers |-> NoCall]

(* A call for the lists of `order` that have a URL, with the scope of key  *)
CallFor(key, order) ==
    [NoCall EXCEPT !.at = "enter", !.key = key, !.todo = order]

Returned(c) == call[c].at = "back"

(* Mutant: whoever finds another flight begins one of its own.             *)
EnterBeside(c) ==
    /\ call[c].at \in {"enter", "wait"} /\ call[c].awake
    /\ IF flight # NoFlight /\ flight.key = call[c].key
       THEN call' = [call EXCEPT ![c].at = "join"] /\ UNCHANGED flight
       ELSE /\ flight' = [key |-> call[c].key, owner |-> c]
            /\ call' = [call EXCEPT ![c].at = "own"]
    /\ UNCHANGED cacheVars

(* Under the mutex: own a new flight, join the one with this key, or wait. *)
Enter(c) ==
    /\ call[c].at \in {"enter", "wait"} /\ call[c].awake
    /\ IF flight = NoFlight
       THEN /\ flight' = [key |-> call[c].key, owner |-> c]
            /\ call' = [call EXCEPT ![c].at = "own"]
       ELSE /\ call' = IF flight.key = call[c].key
                       THEN [call EXCEPT ![c].at = "join"]
                       ELSE [call EXCEPT ![c].at = "wait", ![c].awake = FALSE]
            /\ UNCHANGED flight
    /\ UNCHANGED cacheVars

(* The joiner looks whether its flight is done, or sleeps.                 *)
Joined(c) ==
    /\ call[c].at = "join" /\ call[c].awake
    /\ call' = IF call[c].done
               THEN [call EXCEPT ![c].at = "back"]
               ELSE [call EXCEPT ![c].awake = FALSE]
    /\ UNCHANGED <<cacheVars, flight>>

Wakes(c) ==
    /\ ~call[c].awake
    /\ call' = [call EXCEPT ![c].awake = TRUE]
    /\ UNCHANGED <<cacheVars, flight>>

(* The owner's next list: skipped when only uncached ones are wanted.      *)
NextList(c) ==
    LET l == Head(call[c].todo)
    IN  /\ call[c].at = "own" /\ call[c].todo # <<>> /\ dl[c].at = "none"
        /\ IF call[c].key.uncached /\ files[l].body # None
           THEN call' = [call EXCEPT ![c].todo = Tail(@)] /\ UNCHANGED dl
           ELSE dl' = [dl EXCEPT ![c] = [NoDownload EXCEPT !.at = "ask", !.list = l]]
                /\ UNCHANGED call
        /\ UNCHANGED <<files, tmp, cut, trouble, flight>>

(* The answer of download() for this list                                  *)
ListDone(c) ==
    LET l == dl[c].list
    IN  /\ dl[c].at \in Answers
        /\ call' = [call EXCEPT ![c].todo = Tail(@),
                                ![c].changed = IF dl[c].at = "updated" THEN @ \cup {l} ELSE @,
                                ![c].failed = IF dl[c].at = "failed" THEN @ \cup {l} ELSE @]
        /\ dl' = [dl EXCEPT ![c] = NoDownload]
        /\ UNCHANGED <<files, tmp, cut, trouble, flight>>

(* The result or the exception of a flight, for the owner and the joiners  *)
Published(c, error) ==
    [d \in Callers |->
        IF d = c THEN [call[c] EXCEPT !.at = "announce", !.error = error]
        ELSE IF call[d].at = "join" /\ ~call[d].done
        THEN [call[d] EXCEPT !.done = TRUE, !.changed = call[c].changed,
                             !.failed = call[c].failed, !.error = error]
        ELSE call[d]]

Finish(c) ==
    /\ call[c].at = "own" /\ dl[c].at = "none"
    /\ \/ call[c].todo = <<>> /\ call' = Published(c, FALSE) /\ UNCHANGED trouble
       \/ call[c].todo # <<>> /\ Trouble /\ call' = Published(c, TRUE)
    /\ flight' = NoFlight
    /\ UNCHANGED <<files, tmp, dl, cut>>

(* Mutant: only the joiners of the flight are notified.                    *)
AnnounceToJoiners(c) ==
    /\ call[c].at = "announce"
    /\ call' = [d \in Callers |->
                   IF d = c THEN [call[c] EXCEPT !.at = "back"]
                   ELSE [call[d] EXCEPT !.awake = @ \/ call[d].at = "join"]]
    /\ UNCHANGED <<cacheVars, flight>>

(* notify_all() of both condition variables                                *)
Announce(c) ==
    /\ call[c].at = "announce"
    /\ call' = [d \in Callers |->
                   IF d = c THEN [call[c] EXCEPT !.at = "back"]
                   ELSE [call[d] EXCEPT !.awake = TRUE]]
    /\ UNCHANGED <<cacheVars, flight>>

(* What a call does by itself                                              *)
Progress(c) ==
    \/ Enter(c)
    \/ Joined(c)
    \/ NextList(c)
    \/ Download(c) /\ UNCHANGED <<flight, call>>
    \/ ListDone(c)
    \/ Finish(c)
    \/ Announce(c)
==============================================================================
