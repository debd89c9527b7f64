------------------------------ MODULE MCDaemon ------------------------------
(***************************************************************************)
(* Two configurations whose dnsmasq configurations differ, and the         *)
(* environments of the runs.                                               *)
(***************************************************************************)
EXTENDS Daemon

CONSTANTS c1, c2, h1, h2

MCConfigs == {c1, c2}
MCHash == [c \in MCConfigs |-> IF c = c1 THEN h1 ELSE h2]
MCHashes == {h1, h2}

Meets(requests, signals, early, faults, events) ==
    [requests |-> requests, signals |-> signals, early |-> early, faults |-> faults,
     events |-> events]

(* Users of the API, everything failing.                                   *)
ApiUsers == Meets(OpKinds, {}, FALSE, FaultPoints, 4)
(* Start, stop and restart under events of the kernel and of urltests.     *)
KernelEvents ==
    Meets({"start", "stop", "restart"}, {"USR1", "interface", "urltest"}, FALSE,
          {"hook", "verify"}, 4)
(* Edits of the file, SIGHUP and SIGUSR1.                                  *)
FileUsers == Meets({}, {"HUP", "USR1"}, FALSE, FaultPoints, 4)
(* SIGHUP among events of the kernel and of urltests.                      *)
FileEvents == Meets({}, {"HUP", "interface", "urltest"}, FALSE, FaultPoints \ {"firewall"}, 4)
(* Users of the API who do not wait for startup.                           *)
EarlyUsers == Meets(OpKinds, {}, TRUE, FaultPoints \ {"firewall"}, 4)
(* Everything from the first instant on.                                   *)
Anything == Meets(OpKinds, EventKinds, TRUE, FaultPoints, 3)
(* The end of the process while operations are out and hooks work.         *)
EndOfProcess == Meets(OpKinds, {"HUP", "TERM"}, TRUE, FaultPoints \ {"hook"}, 3)
(* The same after startup, with the failures that end an operation early.  *)
BusyEnd == Meets(OpKinds, {"HUP", "TERM"}, FALSE, {"prepare", "firewall"}, 3)
(* The end of the process while only startup and events are out.           *)
QuietEnd == Meets({}, {"TERM", "USR1", "interface", "urltest"}, FALSE, FaultPoints, 3)

SafetyEnvironments ==
    {ApiUsers, KernelEvents, FileUsers, FileEvents, EarlyUsers, Anything, EndOfProcess}
LivenessEnvironments == {ApiUsers, FileUsers, BusyEnd, QuietEnd}
=============================================================================
