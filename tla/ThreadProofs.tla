---------------------------- MODULE ThreadProofs ----------------------------
(***************************************************************************)
(* Proofs about the two places where threads meet, the event loop with its *)
(* timers and clients, and the blocking executor.                          *)
(*                                                                         *)
(* For any number of descriptors, timers, clients, connections and         *)
(* threads: no timer fires early, and the tables that name descriptors     *)
(* agree.  For any number of workers and tasks and any queue size: the     *)
(* types, that an accepted task is run exactly once, that shutdown()       *)
(* returns only after everything that was accepted has run, and that the   *)
(* executor implements TaskPool.                                           *)
(***************************************************************************)
EXTENDS DnsProbe, BlockingExecutor, FiniteSetTheorems, WellFoundedInduction, TLAPS

Kinds == {"closed", "timer", "client"}
Callbacks == {"none", "timer", "client"}
Timers == [id : Ids, fd : Fds, repeating : BOOLEAN]
Watched == Fds \cup {Control, Listener, Sweep}
TableRecords == [file : [Fds -> Kinds], callback : [Fds -> Callbacks],
                 readable : SUBSET Watched, entries : SUBSET Timers, nextId : Nat]

(* The tables of the loop and the scheduler agree: an open descriptor has  *)
(* its callback, a closed one nothing to read, and a timer descriptor      *)
(* belongs to one entry, as the entry's number does.                       *)
TablesOK(t) ==
    /\ t \in TableRecords
    /\ \A f \in Fds : /\ t.callback[f] = (IF t.file[f] = "closed" THEN "none" ELSE t.file[f])
                      /\ t.file[f] = "closed" => f \notin t.readable
                      /\ t.file[f] = "timer" => \E e \in t.entries : e.fd = f
    /\ \A e \in t.entries : t.file[e.fd] = "timer" /\ e.id < t.nextId
    /\ \A e, d \in t.entries : e.fd = d.fd \/ e.id = d.id => e = d

(* An expiration that can be read has not been fired for.                  *)
CountInv ==
    /\ fires \in [Ids -> Nat] /\ elapses \in [Ids -> Nat]
    /\ FiresOnlyElapsed
    /\ \A e \in entries : e.fd \in readable => fires[e.id] < elapses[e.id]

ClientInv ==
    /\ clients \in [Fds -> {"absent", "empty", "part"}]
    /\ \A f \in Fds : (clients[f] # "absent") <=> (file[f] = "client")
    /\ Cardinality(ClientFds) <= MaxTcpClients

Inv == TablesOK(Tables) /\ CountInv /\ ClientInv

-------------------------------------------------------------------------------
(* The lowest free number is a free one.                                   *)
LEMMA LowestFacts == ASSUME NEW S \in SUBSET Nat, S # {} PROVE Lowest(S) \in S
<1> DEFINE R == OpToRel(<, Nat)
<1>1. \A x, y \in Nat : <<y, x>> \in R <=> y < x
  BY Zenon DEF OpToRel
<1>2. IsWellFoundedOn(R, Nat)
  BY NatLessThanWellFounded, Zenon
<1> HIDE DEF R
<1>3. PICK x \in S : \A y \in S : ~(<<y, x>> \in R)
  BY <1>2, WFMin, Zenon
<1>4. ASSUME NEW y \in S PROVE x <= y
  <2>1. x \in Nat /\ y \in Nat /\ ~(<<y, x>> \in R)
    BY <1>3, Zenon
  <2>2. ~(y < x)
    BY <1>1, <2>1, Zenon
  <2> QED
    BY <2>1, <2>2
<1> QED
  BY <1>4, Zenon DEF Lowest

(* What closing a descriptor does to the tables.                           *)
LEMMA CloseFields ==
    ASSUME NEW t \in TableRecords, NEW f \in Fds
    PROVE  /\ CloseFd(t, f) \in TableRecords
           /\ CloseFd(t, f).file = [t.file EXCEPT ![f] = "closed"]
           /\ CloseFd(t, f).callback = [t.callback EXCEPT ![f] = "none"]
           /\ CloseFd(t, f).readable = t.readable \ {f}
           /\ CloseFd(t, f).entries = t.entries
           /\ CloseFd(t, f).nextId = t.nextId
  BY Zenon DEF CloseFd, TableRecords, Kinds, Callbacks

(* cancel() of a timer.                                                    *)
LEMMA CancelFields ==
    ASSUME NEW t \in TableRecords, NEW e \in t.entries
    PROVE  /\ Cancel(t, e) \in TableRecords
           /\ Cancel(t, e).file = [t.file EXCEPT ![e.fd] = "closed"]
           /\ Cancel(t, e).callback = [t.callback EXCEPT ![e.fd] = "none"]
           /\ Cancel(t, e).readable = t.readable \ {e.fd}
           /\ Cancel(t, e).entries = t.entries \ {e}
           /\ Cancel(t, e).nextId = t.nextId
<1> DEFINE c == CloseFd(t, e.fd)
<1>1. e.fd \in Fds
  BY Zenon DEF TableRecords, Timers
<1>2. /\ c \in TableRecords
      /\ c.file = [t.file EXCEPT ![e.fd] = "closed"]
      /\ c.callback = [t.callback EXCEPT ![e.fd] = "none"]
      /\ c.readable = t.readable \ {e.fd} /\ c.entries = t.entries /\ c.nextId = t.nextId
  BY <1>1, CloseFields, Zenon
<1>3. Cancel(t, e) = [c EXCEPT !.entries = @ \ {e}]
  BY Zenon DEF Cancel
<1> HIDE DEF c
<1> QED
  BY <1>2, <1>3 DEF TableRecords

(* cancel_all()                                                            *)
LEMMA CancelAllFields ==
    ASSUME NEW t \in TableRecords
    PROVE  LET at(f) == \E e \in t.entries : e.fd = f
           IN  /\ CancelAll(t) \in TableRecords
               /\ CancelAll(t).file = [f \in Fds |-> IF at(f) THEN "closed" ELSE t.file[f]]
               /\ CancelAll(t).callback = [f \in Fds |-> IF at(f) THEN "none" ELSE t.callback[f]]
               /\ CancelAll(t).readable = {f \in t.readable : ~at(f)}
               /\ CancelAll(t).entries = {}
               /\ CancelAll(t).nextId = t.nextId
  BY Zenon DEF CancelAll, TableRecords, Kinds, Callbacks

(* schedule() on the lowest free number.                                   *)
LEMMA ScheduleFields ==
    ASSUME NEW t \in TableRecords, NEW r \in BOOLEAN, CanSchedule(t)
    PROVE  \E f \in Fds :
               LET e == [id |-> t.nextId, fd |-> f, repeating |-> r]
               IN  /\ t.file[f] = "closed"
                   /\ e \in Timers
                   /\ Schedule(t, r) \in TableRecords
                   /\ Schedule(t, r).file = [t.file EXCEPT ![f] = "timer"]
                   /\ Schedule(t, r).callback = [t.callback EXCEPT ![f] = "timer"]
                   /\ Schedule(t, r).readable = t.readable
                   /\ Schedule(t, r).entries = t.entries \cup {e}
                   /\ Schedule(t, r).nextId = t.nextId + 1
<1> DEFINE free == {x \in Fds : t.file[x] = "closed"}
           f == Lowest(free)
           e == [id |-> t.nextId, fd |-> f, repeating |-> r]
           o == OpenFd(t, "timer")
<1>1. f \in free
  <2>1. free # {} /\ free \in SUBSET Nat
    BY LoopAssumption, Zenon DEF CanSchedule, CanOpen
  <2> QED
    BY <2>1, LowestFacts, Zenon
<1>2. o = [t EXCEPT !.file[f] = "timer", !.callback[f] = "timer"]
  BY Zenon DEF OpenFd
<1>3. Schedule(t, r) = [o EXCEPT !.entries = @ \cup {e}, !.nextId = @ + 1]
  BY Zenon DEF Schedule
<1>4. f \in Fds /\ t.file[f] = "closed"
  BY <1>1, Zenon
<1> HIDE DEF f
<1>5. e \in Timers
  BY <1>4, Zenon DEF Timers, CanSchedule
<1> HIDE DEF e, o
<1>6. /\ o \in TableRecords
      /\ o.file = [t.file EXCEPT ![f] = "timer"]
      /\ o.callback = [t.callback EXCEPT ![f] = "timer"]
      /\ o.readable = t.readable /\ o.entries = t.entries /\ o.nextId = t.nextId
  BY <1>2, <1>4, Zenon DEF TableRecords, Kinds, Callbacks
<1>7. /\ Schedule(t, r) \in TableRecords
      /\ Schedule(t, r).file = o.file /\ Schedule(t, r).callback = o.callback
      /\ Schedule(t, r).readable = o.readable
      /\ Schedule(t, r).entries = o.entries \cup {e}
      /\ Schedule(t, r).nextId = o.nextId + 1
  <2>1. o.entries \cup {e} \in SUBSET Timers /\ o.nextId + 1 \in Nat
    BY <1>5, <1>6 DEF TableRecords
  <2>2. Schedule(t, r) \in TableRecords
    BY <1>3, <1>6, <2>1, Zenon DEF TableRecords
  <2> QED
    BY <1>3, <1>6, <2>2, Zenon DEF TableRecords
<1> QED
  BY <1>4, <1>5, <1>6, <1>7, Zenon DEF e

-------------------------------------------------------------------------------
(* Cancelling one timer keeps the tables in agreement.                     *)
LEMMA CancelKeeps ==
    ASSUME NEW t, TablesOK(t), NEW e \in t.entries
    PROVE  /\ TablesOK(Cancel(t, e))
           /\ Cancel(t, e).readable \subseteq t.readable
           /\ Cancel(t, e).entries \subseteq t.entries
           /\ \A f \in Fds : Cancel(t, e).file[f] = "client" <=> t.file[f] = "client"
<1> DEFINE u == Cancel(t, e)
<1>1. t \in TableRecords /\ e \in Timers /\ t.entries \subseteq Timers
  BY Zenon DEF TablesOK, TableRecords
<1>2. /\ u \in TableRecords
      /\ u.file = [t.file EXCEPT ![e.fd] = "closed"]
      /\ u.callback = [t.callback EXCEPT ![e.fd] = "none"]
      /\ u.readable = t.readable \ {e.fd}
      /\ u.entries = t.entries \ {e}
      /\ u.nextId = t.nextId
  BY <1>1, CancelFields, Zenon
<1> HIDE DEF u
<1>3. t.file \in [Fds -> Kinds] /\ t.callback \in [Fds -> Callbacks] /\ e.fd \in Fds
  BY <1>1, Zenon DEF TableRecords, Timers
<1>4. \A f \in Fds : /\ u.callback[f] = (IF u.file[f] = "closed" THEN "none" ELSE u.file[f])
                     /\ u.file[f] = "closed" => f \notin u.readable
                     /\ u.file[f] = "timer" => \E d \in u.entries : d.fd = f
  BY <1>2, <1>3 DEF TablesOK
<1>5. \A d \in u.entries : u.file[d.fd] = "timer" /\ d.id < u.nextId
  BY <1>1, <1>2, <1>3 DEF TablesOK, Timers
<1>6. \A c, d \in u.entries : c.fd = d.fd \/ c.id = d.id => c = d
  BY <1>2, Zenon DEF TablesOK
<1>7. t.file[e.fd] = "timer"
  BY Zenon DEF TablesOK
<1> QED
  BY <1>2, <1>3, <1>4, <1>5, <1>6, <1>7 DEF TablesOK, u

(* So does cancelling all of them.                                         *)
LEMMA CancelAllKeeps ==
    ASSUME NEW t, TablesOK(t)
    PROVE  /\ TablesOK(CancelAll(t))
           /\ CancelAll(t).readable \subseteq t.readable
           /\ CancelAll(t).entries \subseteq t.entries
           /\ \A f \in Fds : CancelAll(t).file[f] = "client" <=> t.file[f] = "client"
<1> DEFINE u == CancelAll(t)
           at(f) == \E e \in t.entries : e.fd = f
<1>1. t \in TableRecords /\ t.entries \subseteq Timers
  BY Zenon DEF TablesOK, TableRecords
<1>2. /\ u \in TableRecords
      /\ u.file = [f \in Fds |-> IF at(f) THEN "closed" ELSE t.file[f]]
      /\ u.callback = [f \in Fds |-> IF at(f) THEN "none" ELSE t.callback[f]]
      /\ u.readable = {f \in t.readable : ~at(f)}
      /\ u.entries = {}
      /\ u.nextId = t.nextId
  BY <1>1, CancelAllFields, Zenon
<1> HIDE DEF u
<1>3. \A f \in Fds : at(f) <=> t.file[f] = "timer"
  BY DEF TablesOK
<1> HIDE DEF at
<1>4. \A f \in Fds : /\ u.callback[f] = (IF u.file[f] = "closed" THEN "none" ELSE u.file[f])
                     /\ u.file[f] = "closed" => f \notin u.readable
                     /\ u.file[f] # "timer"
                     /\ u.file[f] = "client" <=> t.file[f] = "client"
  BY <1>2, <1>3 DEF TablesOK
<1> QED
  BY <1>2, <1>4, Zenon DEF TablesOK, u

(* A new timer gets a descriptor that was closed, on which there is        *)
(* nothing to read, and a number that no entry has.                        *)
LEMMA ScheduleKeeps ==
    ASSUME NEW t, TablesOK(t), NEW r \in BOOLEAN, CanSchedule(t)
    PROVE  /\ TablesOK(Schedule(t, r))
           /\ Schedule(t, r).readable \subseteq t.readable
           /\ \A e \in Schedule(t, r).entries : e \in t.entries \/ e.fd \notin t.readable
           /\ \A f \in Fds : Schedule(t, r).file[f] = "client" <=> t.file[f] = "client"
<1> DEFINE u == Schedule(t, r)
           e(f) == [id |-> t.nextId, fd |-> f, repeating |-> r]
<1>1. t \in TableRecords /\ t.entries \subseteq Timers
  BY Zenon DEF TablesOK, TableRecords
<1>2. PICK f \in Fds :
         /\ t.file[f] = "closed"
         /\ e(f) \in Timers
         /\ u \in TableRecords
         /\ u.file = [t.file EXCEPT ![f] = "timer"]
         /\ u.callback = [t.callback EXCEPT ![f] = "timer"]
         /\ u.readable = t.readable
         /\ u.entries = t.entries \cup {e(f)}
         /\ u.nextId = t.nextId + 1
  BY <1>1, ScheduleFields, Zenon
<1>3. e(f).fd = f /\ e(f).id = t.nextId
  OBVIOUS
<1> HIDE DEF u, e
<1>4. t.file \in [Fds -> Kinds] /\ t.callback \in [Fds -> Callbacks] /\ t.nextId \in Nat
  BY <1>1, Zenon DEF TableRecords
<1>5. f \notin t.readable /\ \A d \in t.entries : d.fd # f /\ d.id # t.nextId /\ d.id \in Int /\ d.fd \in Fds
  BY <1>1, <1>2, <1>4 DEF TablesOK, Timers, Ids
<1>6. \A g \in Fds : /\ u.callback[g] = (IF u.file[g] = "closed" THEN "none" ELSE u.file[g])
                     /\ u.file[g] = "closed" => g \notin u.readable
                     /\ u.file[g] = "timer" => \E d \in u.entries : d.fd = g
                     /\ u.file[g] = "client" <=> t.file[g] = "client"
  BY <1>2, <1>3, <1>4 DEF TablesOK
<1>7. \A d \in u.entries : u.file[d.fd] = "timer" /\ d.id < u.nextId
  BY <1>2, <1>3, <1>4, <1>5 DEF TablesOK
<1>8. \A c, d \in u.entries : c.fd = d.fd \/ c.id = d.id => c = d
  BY <1>2, <1>3, <1>5 DEF TablesOK
<1> QED
  BY <1>2, <1>3, <1>5, <1>6, <1>7, <1>8 DEF TablesOK, u

(* Whatever a callback does to the timers, the tables agree, no descriptor *)
(* becomes readable, a new timer has nothing to read, and the descriptors  *)
(* of clients are left alone.                                              *)
LEMMA EffectsKeep ==
    ASSUME NEW t, TablesOK(t), NEW u \in Effects(t)
    PROVE  /\ TablesOK(u)
           /\ u.readable \subseteq t.readable
           /\ \A e \in u.entries : e \in t.entries \/ e.fd \notin u.readable
           /\ \A f \in Fds : u.file[f] = "client" <=> t.file[f] = "client"
<1> DEFINE cancelled == {Cancel(t, e) : e \in t.entries}
<1>1. \/ u = t \/ u = CancelAll(t) \/ u \in cancelled
      \/ \E v \in {t} \cup cancelled, r \in BOOLEAN : CanSchedule(v) /\ u = Schedule(v, r)
  BY Zenon DEF Effects
<1>2. \A v \in {t} \cup cancelled :
         /\ TablesOK(v)
         /\ v.readable \subseteq t.readable /\ v.entries \subseteq t.entries
         /\ \A f \in Fds : v.file[f] = "client" <=> t.file[f] = "client"
  BY CancelKeeps
<1> HIDE DEF cancelled
<1>3. CASE u = t \/ u \in cancelled
  BY <1>2, <1>3, Zenon
<1>4. CASE u = CancelAll(t)
  BY <1>4, CancelAllKeeps, Zenon
<1>5. ASSUME NEW v \in {t} \cup cancelled, NEW r \in BOOLEAN, CanSchedule(v), u = Schedule(v, r)
      PROVE  /\ TablesOK(u)
             /\ u.readable \subseteq t.readable
             /\ \A e \in u.entries : e \in t.entries \/ e.fd \notin u.readable
             /\ \A f \in Fds : u.file[f] = "client" <=> t.file[f] = "client"
  BY <1>2, <1>5, ScheduleKeeps
<1> QED
  BY <1>1, <1>3, <1>4, <1>5, Zenon

-------------------------------------------------------------------------------
(* The invariant in terms of the variables.                                *)
LEMMA Unfold ==
    ASSUME Inv
    PROVE  /\ file \in [Fds -> Kinds] /\ callback \in [Fds -> Callbacks]
           /\ readable \subseteq Watched /\ entries \subseteq Timers /\ nextId \in Nat
           /\ \A f \in Fds : /\ callback[f] = (IF file[f] = "closed" THEN "none" ELSE file[f])
                             /\ file[f] = "closed" => f \notin readable
                             /\ file[f] = "timer" => \E e \in entries : e.fd = f
           /\ \A e \in entries : /\ e \in Timers /\ e.fd \in Fds /\ e.id \in Ids
                                 /\ file[e.fd] = "timer" /\ e.id < nextId
           /\ \A e, d \in entries : e.fd = d.fd \/ e.id = d.id => e = d
  BY DEF Inv, TablesOK, Tables, TableRecords, Timers

(* Taking a descriptor's input away keeps the tables in agreement.         *)
LEMMA ReadKeeps ==
    ASSUME NEW t, TablesOK(t), NEW S
    PROVE  /\ TablesOK([t EXCEPT !.readable = @ \ S])
           /\ [t EXCEPT !.readable = @ \ S].readable = t.readable \ S
           /\ [t EXCEPT !.readable = @ \ S].entries = t.entries
           /\ [t EXCEPT !.readable = @ \ S].file = t.file
<1> DEFINE u == [t EXCEPT !.readable = @ \ S]
<1>1. /\ u \in TableRecords /\ u.file = t.file /\ u.callback = t.callback
      /\ u.readable = t.readable \ S /\ u.entries = t.entries /\ u.nextId = t.nextId
  BY Zenon DEF TablesOK, TableRecords
<1> HIDE DEF u
<1>2. TablesOK(u)
  BY <1>1 DEF TablesOK
<1> QED
  BY <1>1, <1>2, Zenon DEF u

(* The variables after a step that sets them from a record.                *)
LEMMA SetFacts ==
    ASSUME NEW u, TablesOK(u), SetTables(u)
    PROVE  /\ TablesOK(Tables)'
           /\ file' = u.file /\ readable' = u.readable /\ entries' = u.entries
<1>1. u \in TableRecords
  BY Zenon DEF TablesOK
<1>2. u = [file |-> u.file, callback |-> u.callback, readable |-> u.readable,
           entries |-> u.entries, nextId |-> u.nextId]
  BY <1>1, Zenon DEF TableRecords
<1>3. Tables' = u
  BY <1>2, Zenon DEF SetTables, Tables
<1> QED
  BY <1>3, Zenon DEF SetTables

(* The clients are who they were when neither clients nor the kind of      *)
(* their descriptors changes.                                              *)
LEMMA ClientsKept ==
    ASSUME Inv, clients' = clients,
           \A f \in Fds : file'[f] = "client" <=> file[f] = "client"
    PROVE  ClientInv'
  BY Zenon DEF Inv, ClientInv, ClientFds

(* A step that works on the timers and fires none.                         *)
LEMMA EffectStep ==
    ASSUME Inv, NEW u \in Effects(Tables), SetTables(u),
           UNCHANGED <<clients, fires, elapses>>
    PROVE  Inv'
<1>1. TablesOK(Tables) /\ Tables.readable = readable /\ Tables.entries = entries /\ Tables.file = file
  BY Zenon DEF Inv, Tables
<1>2. /\ TablesOK(u)
      /\ u.readable \subseteq readable
      /\ \A e \in u.entries : e \in entries \/ e.fd \notin u.readable
      /\ \A f \in Fds : u.file[f] = "client" <=> file[f] = "client"
  BY <1>1, EffectsKeep
<1>3. TablesOK(Tables)' /\ file' = u.file /\ readable' = u.readable /\ entries' = u.entries
  BY <1>2, SetFacts, Zenon
<1>4. CountInv'
  BY <1>2, <1>3, Zenon DEF Inv, CountInv, FiresOnlyElapsed
<1>5. ClientInv'
  BY <1>2, <1>3, ClientsKept, Zenon
<1> QED
  BY <1>3, <1>4, <1>5, Zenon DEF Inv

(* on_timer() fires: the expiration is consumed before the callback runs,  *)
(* so what can still be read afterwards belongs to other timers.           *)
LEMMA FireStep ==
    ASSUME Inv, NEW f \in Fds, f \in readable, NEW e \in EntryAt(f), Fire(f, e),
           UNCHANGED <<clients, elapses>>
    PROVE  Inv'
<1> DEFINE read == [Tables EXCEPT !.readable = @ \ {f}]
           t == IF e.repeating THEN read ELSE Cancel(read, e)
<1>1. e \in entries /\ e.fd = f /\ e.id \in Ids
  BY Unfold, Zenon DEF EntryAt
<1>2. TablesOK(Tables) /\ Tables.readable = readable /\ Tables.entries = entries /\ Tables.file = file
  BY Zenon DEF Inv, Tables
<1>3. TablesOK(read) /\ read.readable = readable \ {f} /\ read.entries = entries /\ read.file = file
  <2>1. /\ TablesOK(read) /\ read.readable = Tables.readable \ {f}
        /\ read.entries = Tables.entries /\ read.file = Tables.file
    BY <1>2, ReadKeeps, Zenon
  <2> QED
    BY <1>2, <2>1, Zenon
<1> HIDE DEF read
<1>4. /\ TablesOK(t)
      /\ t.readable \subseteq readable \ {f} /\ t.entries \subseteq entries
      /\ \A g \in Fds : t.file[g] = "client" <=> file[g] = "client"
  BY <1>1, <1>3, CancelKeeps
<1>5. PICK u \in Effects(t) : SetTables(u)
  BY Zenon DEF Fire, read
<1> HIDE DEF t
<1>6. /\ TablesOK(u)
      /\ u.readable \subseteq readable \ {f}
      /\ \A d \in u.entries : d \in entries \/ d.fd \notin u.readable
      /\ \A g \in Fds : u.file[g] = "client" <=> file[g] = "client"
  BY <1>4, <1>5, EffectsKeep
<1>7. TablesOK(Tables)' /\ file' = u.file /\ readable' = u.readable /\ entries' = u.entries
  BY <1>5, <1>6, SetFacts, Zenon
<1>8. fires' = [fires EXCEPT ![e.id] = @ + 1] /\ fires \in [Ids -> Nat] /\ elapses \in [Ids -> Nat]
  BY Zenon DEF Fire, Inv, CountInv
<1>9. fires[e.id] < elapses[e.id]
  BY <1>1, Zenon DEF Inv, CountInv
<1>10. fires' \in [Ids -> Nat] /\ FiresOnlyElapsed'
  BY <1>1, <1>8, <1>9 DEF Inv, CountInv, FiresOnlyElapsed
<1>11. ASSUME NEW d \in entries', d.fd \in readable' PROVE fires'[d.id] < elapses'[d.id]
  <2>1. d \in entries /\ d.fd \in readable /\ d.fd # f
    BY <1>6, <1>7, <1>11, Zenon
  <2>2. d.id # e.id /\ d.id \in Ids
    BY <1>1, <2>1, Unfold, Zenon
  <2>3. fires'[d.id] = fires[d.id]
    BY <1>8, <2>2, Zenon
  <2> QED
    BY <2>1, <2>3, Zenon DEF Inv, CountInv
<1>12. CountInv'
  BY <1>8, <1>10, <1>11, Zenon DEF CountInv
<1>13. ClientInv'
  BY <1>6, <1>7, ClientsKept, Zenon
<1> QED
  BY <1>7, <1>12, <1>13, Zenon DEF Inv

-------------------------------------------------------------------------------
(* A step that leaves the scheduler alone and makes readable at most what  *)
(* is no timer.                                                            *)
LEMMA QuietStep ==
    ASSUME Inv, UNCHANGED <<file, callback, entries, nextId, clients, fires, elapses>>,
           readable' \subseteq Watched,
           \A f \in Fds : f \in readable' => f \in readable \/ file[f] = "client"
    PROVE  Inv'
<1>1. TablesOK(Tables)'
  BY Unfold, Zenon DEF TablesOK, Tables, TableRecords
<1>2. CountInv'
  BY Unfold, Zenon DEF Inv, CountInv, FiresOnlyElapsed
<1>3. ClientInv'
  BY ClientsKept, Zenon
<1> QED
  BY <1>1, <1>2, <1>3, Zenon DEF Inv

(* A period passes: one more expiration than fires, for this timer only.   *)
LEMMA ElapseStep ==
    ASSUME Inv, NEW f \in Fds, Elapse(f), UNCHANGED probeVars
    PROVE  Inv'
<1>1. PICK e \in EntryAt(f) : elapses' = [elapses EXCEPT ![e.id] = @ + 1]
  BY Zenon DEF Elapse
<1>2. e \in entries /\ e.fd = f /\ e.id \in Ids
  BY Unfold, Zenon DEF EntryAt
<1>3. /\ readable' = readable \cup {f} /\ file[f] = "timer"
      /\ UNCHANGED <<file, callback, entries, nextId, clients, fires>>
  BY Zenon DEF Elapse, probeVars
<1>4. TablesOK(Tables)'
  BY <1>3, Unfold DEF TablesOK, Tables, TableRecords, Watched
<1>5. fires \in [Ids -> Nat] /\ elapses \in [Ids -> Nat] /\ \A i \in Ids : fires[i] <= elapses[i]
  BY Zenon DEF Inv, CountInv, FiresOnlyElapsed
<1>6. elapses' \in [Ids -> Nat] /\ FiresOnlyElapsed'
  BY <1>1, <1>2, <1>3, <1>5 DEF FiresOnlyElapsed
<1>7. ASSUME NEW d \in entries', d.fd \in readable' PROVE fires'[d.id] < elapses'[d.id]
  <2>1. d \in entries /\ d.id \in Ids
    BY <1>3, Unfold, Zenon
  <2>2. CASE d = e
    BY <1>1, <1>2, <1>3, <1>5, <2>2
  <2>3. CASE d # e
    <3>1. d.id # e.id /\ d.fd # f
      BY <1>2, <2>1, <2>3, Unfold, Zenon
    <3>2. fires[d.id] < elapses[d.id]
      BY <1>3, <1>7, <2>1, <3>1, Zenon DEF Inv, CountInv
    <3> QED
      BY <1>1, <1>3, <1>5, <2>1, <3>1, <3>2, Zenon
  <2> QED
    BY <2>2, <2>3, Zenon
<1>8. CountInv'
  BY <1>3, <1>5, <1>6, <1>7, Zenon DEF CountInv
<1>9. ClientInv'
  BY <1>3, ClientsKept, Zenon
<1> QED
  BY <1>4, <1>8, <1>9, Zenon DEF Inv

-------------------------------------------------------------------------------
(* Client descriptors are closed: what is open keeps its callback, and the *)
(* timers' descriptors are not among those that close.                     *)
LEMMA CloseStep ==
    ASSUME Inv, NEW S, S \subseteq ClientFds,
           file' = [f \in Fds |-> IF f \in S THEN "closed" ELSE file[f]],
           callback' = [f \in Fds |-> IF f \in S THEN "none" ELSE callback[f]],
           clients' = [f \in Fds |-> IF f \in S THEN "absent" ELSE clients[f]],
           readable' \subseteq readable \ S,
           UNCHANGED <<entries, nextId, fires, elapses>>
    PROVE  Inv'
<1>1. \A f \in S : f \in Fds /\ file[f] = "client"
  BY Zenon DEF Inv, ClientInv, ClientFds
<1>2. file' \in [Fds -> Kinds] /\ callback' \in [Fds -> Callbacks] /\ readable' \subseteq Watched
  BY Unfold, Zenon DEF Kinds, Callbacks
<1>3. \A e \in entries : e.fd \in Fds /\ e.fd \notin S /\ file'[e.fd] = "timer"
  BY <1>1, Unfold, Zenon
<1>4. \A f \in Fds : /\ callback'[f] = (IF file'[f] = "closed" THEN "none" ELSE file'[f])
                     /\ file'[f] = "closed" => f \notin readable'
                     /\ file'[f] = "timer" => \E e \in entries : e.fd = f
  BY Unfold, Zenon
<1>5. TablesOK(Tables)'
  BY <1>2, <1>3, <1>4, Unfold, Zenon DEF TablesOK, Tables, TableRecords
<1>6. CountInv'
  BY Zenon DEF Inv, CountInv, FiresOnlyElapsed
<1>7. /\ clients' \in [Fds -> {"absent", "empty", "part"}]
      /\ \A f \in Fds : (clients'[f] # "absent") <=> (file'[f] = "client")
  BY Zenon DEF Inv, ClientInv
<1>8. IsFiniteSet(ClientFds) /\ ClientFds' \subseteq ClientFds
  BY LoopAssumption, FS_Subset, Zenon DEF ClientFds
<1>9. Cardinality(ClientFds') <= Cardinality(ClientFds) /\ Cardinality(ClientFds) \in Nat
      /\ Cardinality(ClientFds') \in Nat
  BY <1>8, FS_Subset, FS_CardinalityType, Zenon
<1>10. Cardinality(ClientFds') <= MaxTcpClients
  BY <1>9, ProbeAssumption DEF Inv, ClientInv
<1> QED
  BY <1>5, <1>6, <1>7, <1>10, Zenon DEF Inv, ClientInv

(* accept_tcp_clients() takes a connection below the limit.                *)
LEMMA AcceptStep ==
    ASSUME Inv, NEW p, Free # {}, ~AtLimit, AcceptOne(Lowest(Free), p),
           UNCHANGED <<entries, nextId, fires, elapses, readable>>
    PROVE  Inv'
<1> DEFINE f == Lowest(Free)
<1>1. f \in Fds /\ file[f] = "closed"
  <2>1. Free \in SUBSET Nat
    BY LoopAssumption, Zenon DEF Free
  <2> QED
    BY <2>1, LowestFacts, Zenon DEF Free
<1>2. /\ file' = [file EXCEPT ![f] = "client"]
      /\ callback' = [callback EXCEPT ![f] = "client"]
      /\ clients' = [clients EXCEPT ![f] = "empty"]
  BY Zenon DEF AcceptOne
<1> HIDE DEF f
<1>3. TablesOK(Tables)'
  <2>1. file' \in [Fds -> Kinds] /\ callback' \in [Fds -> Callbacks]
    BY <1>1, <1>2, Unfold, Zenon DEF Kinds, Callbacks
  <2>2. \A g \in Fds : /\ callback'[g] = (IF file'[g] = "closed" THEN "none" ELSE file'[g])
                       /\ file'[g] = "closed" => g \notin readable
                       /\ file'[g] = "timer" => \E e \in entries : e.fd = g
    BY <1>1, <1>2, Unfold, Zenon
  <2>3. \A e \in entries : file'[e.fd] = "timer"
    BY <1>1, <1>2, Unfold, Zenon
  <2> QED
    BY <2>1, <2>2, <2>3, Unfold, Zenon DEF TablesOK, Tables, TableRecords
<1>4. CountInv'
  BY Zenon DEF Inv, CountInv, FiresOnlyElapsed
<1>5. /\ clients' \in [Fds -> {"absent", "empty", "part"}]
      /\ \A g \in Fds : (clients'[g] # "absent") <=> (file'[g] = "client")
  BY <1>1, <1>2, Unfold, Zenon DEF Inv, ClientInv
<1>6. IsFiniteSet(ClientFds) /\ ClientFds' = ClientFds \cup {f} /\ f \notin ClientFds
  <2>1. clients \in [Fds -> {"absent", "empty", "part"}] /\ clients[f] = "absent"
    BY <1>1, Zenon DEF Inv, ClientInv
  <2>2. IsFiniteSet(ClientFds)
    BY LoopAssumption, FS_Subset, Zenon DEF ClientFds
  <2> QED
    BY <1>1, <1>2, <2>1, <2>2, Zenon DEF ClientFds
<1>7. Cardinality(ClientFds') = Cardinality(ClientFds) + 1 /\ Cardinality(ClientFds) \in Nat
  BY <1>6, FS_AddElement, FS_CardinalityType, Zenon
<1>8. Cardinality(ClientFds') <= MaxTcpClients
  BY <1>7, ProbeAssumption DEF AtLimit
<1> QED
  BY <1>3, <1>4, <1>5, <1>8, Zenon DEF Inv, ClientInv

-------------------------------------------------------------------------------
(* The listener's handler.                                                 *)
LEMMA ListenerStep == ASSUME Inv, DispatchListener PROVE Inv'
<1>1. UNCHANGED <<entries, nextId, fires, elapses>>
  BY Zenon DEF DispatchListener
<1>2. CASE ~server \/ backlog = {}
  BY <1>1, <1>2, QuietStep, Unfold, Zenon DEF DispatchListener
<1>3. CASE ~(~server \/ backlog = {})
  <2>1. PICK p \in backlog :
           \/ UNCHANGED <<file, callback, clients, readable>>
           \/ /\ UNCHANGED <<file, callback, clients>>
              /\ readable' \subseteq readable
           \/ /\ Free # {} /\ ~AtLimit /\ AcceptOne(Lowest(Free), p)
              /\ UNCHANGED readable
    BY <1>3, Zenon DEF DispatchListener, RefuseOne
  <2> QED
    BY <1>1, <2>1, QuietStep, AcceptStep, Unfold, Zenon
<1> QED
  BY <1>2, <1>3, Zenon

(* A client's handler, whoever the event was meant for.                    *)
LEMMA ClientStep == ASSUME Inv, DispatchClient PROVE Inv'
<1> DEFINE f == Head(batch).fd
           got == conn[f].input
<1>1. /\ f \in Fds /\ callback[f] = "client"
      /\ readable' = readable \ {f}
      /\ UNCHANGED <<entries, nextId, fires, elapses>>
      /\ \/ \E o : CloseClients({f}, o)
         \/ /\ clients' = [clients EXCEPT ![f] = IF got = "part" THEN "part" ELSE @]
            /\ UNCHANGED <<file, callback>>
  BY Zenon DEF DispatchClient
<1> HIDE DEF f, got
<1>2. file[f] = "client" /\ f \in ClientFds
  BY <1>1, Unfold, Zenon DEF Inv, ClientInv, ClientFds
<1>3. CASE \E o : CloseClients({f}, o)
  <2>1. /\ file' = [g \in Fds |-> IF g \in {f} THEN "closed" ELSE file[g]]
        /\ callback' = [g \in Fds |-> IF g \in {f} THEN "none" ELSE callback[g]]
        /\ clients' = [g \in Fds |-> IF g \in {f} THEN "absent" ELSE clients[g]]
    BY <1>3, Zenon DEF CloseClients
  <2> QED
    BY <1>1, <1>2, <2>1, CloseStep, Zenon
<1>4. CASE /\ clients' = [clients EXCEPT ![f] = IF got = "part" THEN "part" ELSE @]
           /\ UNCHANGED <<file, callback>>
  <2>1. TablesOK(Tables)'
    BY <1>1, <1>4, Unfold, Zenon DEF TablesOK, Tables, TableRecords
  <2>2. CountInv'
    BY <1>1, Zenon DEF Inv, CountInv, FiresOnlyElapsed
  <2>3. clients \in [Fds -> {"absent", "empty", "part"}] /\ clients[f] # "absent"
    BY <1>2, Zenon DEF Inv, ClientInv, ClientFds
  <2>4. /\ clients' \in [Fds -> {"absent", "empty", "part"}]
        /\ \A g \in Fds : (clients'[g] # "absent") <=> (clients[g] # "absent")
    BY <1>1, <1>4, <2>3, Zenon
  <2>5. ClientFds' = ClientFds
    BY <2>4, Zenon DEF ClientFds
  <2>6. ClientInv'
    BY <1>4, <2>4, <2>5, Zenon DEF Inv, ClientInv
  <2> QED
    BY <2>1, <2>2, <2>6, Zenon DEF Inv
<1> QED
  BY <1>1, <1>3, <1>4, Zenon

(* The sweep closes the clients that were idle for too long.               *)
LEMMA SweepStep == ASSUME Inv, DispatchSweep PROVE Inv'
<1> DEFINE S == {f \in ClientFds : Expired(f)}
<1>1. /\ file' = [f \in Fds |-> IF f \in S THEN "closed" ELSE file[f]]
      /\ callback' = [f \in Fds |-> IF f \in S THEN "none" ELSE callback[f]]
      /\ clients' = [f \in Fds |-> IF f \in S THEN "absent" ELSE clients[f]]
      /\ readable' \subseteq readable \ S
      /\ UNCHANGED <<entries, nextId, fires, elapses>>
  BY Zenon DEF DispatchSweep, CloseClients
<1>2. S \subseteq ClientFds
  OBVIOUS
<1> HIDE DEF S
<1> QED
  BY <1>1, <1>2, CloseStep, Zenon

(* The teardown closes every client.                                       *)
LEMMA RebuildStep == ASSUME Inv, RebuildProbe PROVE Inv'
<1>1. clients' = [f \in Fds |-> IF f \in ClientFds THEN "absent" ELSE clients[f]]
  BY Zenon DEF RebuildProbe, ClientFds
<1>2. /\ file' = [f \in Fds |-> IF f \in ClientFds THEN "closed" ELSE file[f]]
      /\ callback' = [f \in Fds |-> IF f \in ClientFds THEN "none" ELSE callback[f]]
      /\ readable' \subseteq readable \ ClientFds
      /\ UNCHANGED <<entries, nextId, fires, elapses>>
  BY Zenon DEF RebuildProbe
<1> QED
  BY <1>1, <1>2, CloseStep, Zenon

-------------------------------------------------------------------------------
(* The loop's other steps.                                                 *)
LEMMA LoopOwnStep ==
    ASSUME Inv, UNCHANGED probeVars,
           \/ EpollWait(HungUp) \/ BatchDone \/ DispatchNothing \/ DispatchTimer
           \/ DrainEventfd \/ SwapTasks \/ RunCommand \/ CommandsDone
    PROVE  Inv'
<1>1. clients' = clients
  BY Zenon DEF probeVars
<1>2. CASE EpollWait(HungUp) \/ BatchDone \/ DispatchNothing \/ SwapTasks \/ CommandsDone
  BY <1>1, <1>2, QuietStep, Unfold, Zenon
     DEF EpollWait, BatchDone, DispatchNothing, SwapTasks, CommandsDone
<1>3. CASE DrainEventfd
  BY <1>1, <1>3, QuietStep, Unfold, Zenon DEF DrainEventfd
<1>4. CASE RunCommand
  <2>1. \/ \E t \in Effects(Tables) : SetTables(t)
        \/ UNCHANGED <<file, readable, entries, callback, nextId>>
    BY <1>4, Zenon DEF RunCommand
  <2>2. UNCHANGED <<clients, fires, elapses>>
    BY <1>1, <1>4, Zenon DEF RunCommand
  <2> QED
    BY <2>1, <2>2, EffectStep, QuietStep, Unfold, Zenon
<1>5. CASE DispatchTimer
  <2> DEFINE f == Head(batch).fd
  <2>1. f \in Fds /\ OnTimer(f) /\ UNCHANGED <<clients, elapses>>
    BY <1>1, <1>5, Zenon DEF DispatchTimer
  <2> HIDE DEF f
  <2>2. CASE f \in readable
    BY <2>1, <2>2, FireStep, Zenon DEF OnTimer
  <2>3. CASE f \notin readable
    BY <2>1, <2>3, QuietStep, Unfold, Zenon DEF OnTimer
  <2> QED
    BY <2>2, <2>3, Zenon
<1> QED
  BY <1>2, <1>3, <1>4, <1>5, Zenon

(* What other threads, peers and the clock do.                             *)
LEMMA OtherStep == ASSUME Inv, Others \/ Wakes \/ Clock PROVE Inv'
<1>1. ASSUME NEW c \in Callers, NEW w \in BOOLEAN, Push(c, w), UNCHANGED probeVars PROVE Inv'
  BY <1>1, QuietStep, Unfold, Zenon DEF Push, probeVars
<1>2. ASSUME StopLoop, UNCHANGED probeVars PROVE Inv'
  BY <1>2, QuietStep, Unfold, Zenon DEF StopLoop, probeVars
<1>3. ASSUME NEW c \in Callers, WakeControlLoop(c), UNCHANGED probeVars PROVE Inv'
  BY <1>3, QuietStep, Unfold, LoopAssumption, Zenon DEF WakeControlLoop, probeVars,
     Watched
<1>4. ASSUME NEW p \in Peers, Connect(p) PROVE Inv'
  BY <1>4, QuietStep, Unfold, ProbeAssumption, Zenon DEF Connect, Watched
<1>5. ASSUME NEW f \in Fds, Deliver(f) PROVE Inv'
  BY <1>5, QuietStep, Unfold, Zenon DEF Deliver, Watched
<1>6. ASSUME NEW f \in Fds, GoIdle(f) PROVE Inv'
  BY <1>6, QuietStep, Unfold, ProbeAssumption, Zenon DEF GoIdle, Watched
<1> QED
  BY <1>1, <1>2, <1>3, <1>4, <1>5, <1>6, ElapseStep, RebuildStep, Zenon DEF Others, Wakes,
     Clock

(* The start-up's timers have numbers and descriptors of their own.        *)
LEMMA BootTables ==
    ASSUME NEW boot, NEW next \in Nat, NEW C, LoopInit(boot, next, C),
           boot \subseteq Fds, boot \subseteq Ids, \A f \in boot : f < next
    PROVE  TablesOK(Tables)
<1> DEFINE e(f) == [id |-> f, fd |-> f, repeating |-> f = 1]
<1>1. \A f \in boot : e(f) \in Timers /\ e(f).fd = f /\ e(f).id = f
  <2> SUFFICES ASSUME NEW f \in boot PROVE e(f) \in Timers /\ e(f).fd = f /\ e(f).id = f
    BY Zenon
  <2>1. f \in Ids /\ f \in Fds /\ (f = 1) \in BOOLEAN
    OBVIOUS
  <2>2. e(f) \in Timers
    BY <2>1, Zenon DEF Timers
  <2> QED
    BY <2>2, Zenon
<1>2. /\ file = [f \in Fds |-> IF f \in boot THEN "timer" ELSE "closed"]
      /\ callback = [f \in Fds |-> IF f \in boot THEN "timer" ELSE "none"]
      /\ readable = {} /\ nextId = next
      /\ entries = {e(f) : f \in boot}
  BY Zenon DEF LoopInit
<1> HIDE DEF e
<1>3. entries \subseteq Timers /\ \A d \in entries : d.fd \in boot /\ d.id = d.fd
  BY <1>1, <1>2, Zenon
<1>4. \A c, d \in entries : c.fd = d.fd \/ c.id = d.id => c = d
  BY <1>1, <1>2
<1>5. \A f \in boot : \E d \in entries : d.fd = f
  BY <1>1, <1>2, Zenon
<1> QED
  BY <1>2, <1>3, <1>4, <1>5 DEF TablesOK, Tables, TableRecords, Kinds, Callbacks

(* The daemon starts in the invariant, with the test server or without.    *)
LEMMA InvInit == Init => Inv
<1> SUFFICES ASSUME Init PROVE Inv
  OBVIOUS
<1>1. TablesOK(Tables) /\ readable = {} /\ \A f \in Fds : file[f] # "client"
  <2>1. CASE LoopInit({}, MaxTimers + 1, {CHOOSE c \in Callers : TRUE})
    <3>1. TablesOK(Tables)
      BY <2>1, LoopAssumption, BootTables
    <3> QED
      BY <2>1, <3>1, Zenon DEF LoopInit
  <2>2. CASE LoopInit(1..(MaxTimers - 1), MaxTimers, Callers)
    <3>1. /\ 1..(MaxTimers - 1) \subseteq Ids /\ MaxTimers \in Nat
          /\ \A f \in 1..(MaxTimers - 1) : f < MaxTimers
      BY LoopAssumption DEF Ids
    <3>2. TablesOK(Tables)
      BY <2>2, <3>1, ProbeAssumption, BootTables, Zenon
    <3> QED
      BY <2>2, <3>2, Zenon DEF LoopInit
  <2>3. CASE LoopInit({1} \cap (1..(MaxTimers - 1)), MaxTimers, {CHOOSE c \in Callers : TRUE})
    <3> DEFINE boot == {1} \cap (1..(MaxTimers - 1))
    <3>1. /\ boot \subseteq Ids /\ MaxTimers \in Nat
          /\ \A f \in boot : f < MaxTimers
      BY LoopAssumption DEF Ids
    <3>2. boot \subseteq 1..(MaxTimers - 1)
      OBVIOUS
    <3>3. LoopInit(boot, MaxTimers, {CHOOSE c \in Callers : TRUE})
      BY <2>3, Zenon
    <3> HIDE DEF boot
    <3>4. TablesOK(Tables)
      BY <3>1, <3>2, <3>3, ProbeAssumption, BootTables, Zenon
    <3> QED
      BY <3>3, <3>4, Zenon DEF LoopInit
  <2> QED
    BY <2>1, <2>2, <2>3, Zenon DEF Init
<1>2. elapses = [i \in Ids |-> 0] /\ fires = [i \in Ids |-> 0]
  BY Zenon DEF Init, LoopInit
<1>3. CountInv
  BY <1>1, <1>2 DEF CountInv, FiresOnlyElapsed
<1>4. ClientFds = {} /\ clients = [f \in Fds |-> "absent"]
  BY Zenon DEF Init, ProbeInit, ClientFds
<1>5. ClientInv
  BY <1>1, <1>4, FS_EmptySet, ProbeAssumption DEF ClientInv
<1> QED
  BY <1>1, <1>3, <1>5, Zenon DEF Inv

(* Every step of the loop, the threads, the peers and the clock keeps it.  *)
LEMMA InvNext == Inv /\ [Next]_vars => Inv'
<1> SUFFICES ASSUME Inv, [Next]_vars PROVE Inv'
  OBVIOUS
<1>1. CASE UNCHANGED vars
  <2>1. UNCHANGED <<file, callback, readable, entries, nextId, clients, fires, elapses>>
    BY <1>1, Zenon DEF vars, loopVars, probeVars
  <2> QED
    BY <2>1, QuietStep, Unfold, Zenon
<1>2. CASE Next
  BY <1>2, LoopOwnStep, ListenerStep, ClientStep, SweepStep, OtherStep, Zenon DEF Next,
     LoopStep
<1> QED
  BY <1>1, <1>2, Zenon

(* The invariant holds in every state the daemon reaches.                  *)
LEMMA InvAlways == Spec => []Inv
  BY InvInit, InvNext, PTL DEF Spec

-------------------------------------------------------------------------------
(* The entries at a descriptor are one where a timer is open and none      *)
(* elsewhere.                                                              *)
LEMMA InvAgrees == Inv => TablesAgree
<1> SUFFICES ASSUME Inv PROVE TablesAgree
  OBVIOUS
<1>1. ASSUME NEW f \in Fds
      PROVE  Cardinality(EntryAt(f)) = (IF file[f] = "timer" THEN 1 ELSE 0)
  <2>1. CASE file[f] = "timer"
    <3>1. PICK e \in entries : e.fd = f
      BY <2>1, Unfold, Zenon
    <3>2. EntryAt(f) = {e}
      BY <3>1, Unfold DEF EntryAt
    <3> QED
      BY <2>1, <3>2, FS_Singleton, Zenon
  <2>2. CASE file[f] # "timer"
    <3>1. EntryAt(f) = {}
      BY <2>2, Unfold DEF EntryAt
    <3> QED
      BY <2>2, <3>1, FS_EmptySet, Zenon
  <2> QED
    BY <2>1, <2>2, Zenon
<1>2. \A f \in Fds : callback[f] = (IF file[f] = "closed" THEN "none" ELSE file[f])
  BY Unfold, Zenon
<1> QED
  BY <1>1, <1>2, Zenon DEF TablesAgree, Inv, ClientInv

(* However batches, cancellations and re-used descriptors interleave,      *)
(* on_timer() never runs a callback more often than its own period passed. *)
THEOREM NoEarlyFire == Spec => []FiresOnlyElapsed
<1>1. Inv => FiresOnlyElapsed
  BY Zenon DEF Inv, CountInv
<1> QED
  BY <1>1, InvAlways, PTL

(* With any number of descriptors, timers and connections, fd_entries_,    *)
(* the scheduler's entries, tcp_clients_ and the kernel's descriptors      *)
(* agree, and the clients never exceed kMaxTcpClients.                     *)
THEOREM TablesAlwaysAgree == Spec => []TablesAgree
  BY InvAgrees, InvAlways, PTL

-------------------------------------------------------------------------------
(* The executor: what ties the threads to the queue.  A worker holds a     *)
(* task exactly while it runs one; once a worker has left, the pool is     *)
(* stopping and the queue is empty for good; the join has seen every       *)
(* worker leave.                                                           *)
Coherent ==
    /\ \A w \in Workers : job[w] # NoTask <=> worker[w] = "running"
    /\ stopping <=> closer # "open"
    /\ \A w \in Workers : worker[w] = "exited" => stopping /\ queue = <<>>
    /\ closer = "joined" => \A w \in Workers : worker[w] = "exited"

IInv == TypeOK /\ OneCopy /\ Accounted /\ Coherent

(* q[i] = u for some place of q, and no element of q has two places.       *)
Holds(q, u) == \E i \in 1..Len(q) : q[i] = u
NoRepeat(q) == \A i, j \in 1..Len(q) : q[i] = q[j] => i = j

(* What pushing a new task does to the elements of the queue.              *)
LEMMA AppendElements ==
    ASSUME NEW S, NEW q \in Seq(S), NEW t \in S
    PROVE  /\ Append(q, t) \in Seq(S)
           /\ Len(Append(q, t)) = Len(q) + 1
           /\ \A u : Holds(Append(q, t), u) <=> (u = t \/ Holds(q, u))
           /\ NoRepeat(q) /\ ~Holds(q, t) => NoRepeat(Append(q, t))
<1> USE DEF Holds, NoRepeat
<1>1. /\ Append(q, t) \in Seq(S)
      /\ Len(Append(q, t)) = Len(q) + 1
      /\ \A i \in 1..Len(q) : Append(q, t)[i] = q[i]
      /\ Append(q, t)[Len(q) + 1] = t
      /\ Len(q) \in Nat
  OBVIOUS
<1> DEFINE a == Append(q, t)
<1>2. 1..Len(a) = 1..Len(q) \cup {Len(q) + 1} /\ Len(q) + 1 \notin 1..Len(q)
  BY <1>1
<1>3. \A u : (\E i \in 1..Len(a) : a[i] = u) <=> (u = t \/ \E i \in 1..Len(q) : q[i] = u)
  BY <1>1, <1>2, Zenon
<1>4. ASSUME \A i, j \in 1..Len(q) : q[i] = q[j] => i = j, \A i \in 1..Len(q) : q[i] # t,
             NEW i \in 1..Len(a), NEW j \in 1..Len(a), a[i] = a[j]
      PROVE  i = j
  BY <1>1, <1>2, <1>4, Zenon
<1> QED
  BY <1>1, <1>3, <1>4, Zenon

(* What taking the first task does to the elements of the queue.           *)
LEMMA TailElements ==
    ASSUME NEW S, NEW q \in Seq(S), q # <<>>, NoRepeat(q)
    PROVE  /\ Head(q) \in S
           /\ Tail(q) \in Seq(S)
           /\ Len(Tail(q)) <= Len(q)
           /\ Holds(q, Head(q))
           /\ NoRepeat(Tail(q))
           /\ \A u : Holds(Tail(q), u) <=> (u # Head(q) /\ Holds(q, u))
<1> USE DEF Holds, NoRepeat
<1>1. /\ Head(q) \in S
      /\ Tail(q) \in Seq(S)
      /\ Len(Tail(q)) = Len(q) - 1
      /\ \A i \in 1..Len(Tail(q)) : Tail(q)[i] = q[i + 1]
      /\ Len(q) \in Nat \ {0}
  OBVIOUS
<1>2. Head(q) = q[1]
  OBVIOUS
<1>3. \A i, j \in 1..Len(Tail(q)) : Tail(q)[i] = Tail(q)[j] => i = j
  BY <1>1
<1>4. ASSUME NEW u
      PROVE  (\E i \in 1..Len(Tail(q)) : Tail(q)[i] = u)
                <=> (u # Head(q) /\ \E i \in 1..Len(q) : q[i] = u)
  <2>1. ASSUME NEW i \in 1..Len(Tail(q)), Tail(q)[i] = u
        PROVE  u # Head(q) /\ \E k \in 1..Len(q) : q[k] = u
    <3>1. i + 1 \in 1..Len(q) /\ 1 \in 1..Len(q) /\ i + 1 # 1 /\ q[i + 1] = u
      BY <1>1, <2>1
    <3> QED
      BY <3>1, <1>2, Zenon
  <2>2. ASSUME u # Head(q), NEW i \in 1..Len(q), q[i] = u
        PROVE  \E k \in 1..Len(Tail(q)) : Tail(q)[k] = u
    <3>1. i # 1
      BY <1>2, <2>2, Zenon
    <3>2. i - 1 \in 1..Len(Tail(q)) /\ (i - 1) + 1 = i
      BY <3>1, <1>1
    <3> QED
      BY <3>2, <1>1, <2>2, Zenon
  <2> QED
    BY <2>1, <2>2, Zenon
<1>5. 1 \in 1..Len(q) /\ Len(Tail(q)) <= Len(q)
  BY <1>1
<1> QED
  BY <1>1, <1>2, <1>3, <1>4, <1>5, Zenon

(* The pool starts with idle workers, an empty queue and nothing handed.   *)
LEMMA InitIInv == ExecutorInit => IInv
<1> SUFFICES ASSUME ExecutorInit PROVE IInv
  OBVIOUS
<1> USE ExecutorAssumption DEF ExecutorInit
<1>1. TypeOK
  <2>1. queue \in Seq(Tasks) /\ Len(queue) = 0
    OBVIOUS
  <2>2. Len(queue) <= MaxQueueSize
    BY <2>1
  <2>3. /\ worker \in [Workers -> WorkerStates]
        /\ job \in [Workers -> Tasks \cup {NoTask}]
        /\ call \in [Tasks -> CallStates]
        /\ closer \in CloserStates
    BY Zenon DEF WorkerStates, CallStates, CloserStates
  <2> QED
    BY <2>1, <2>2, <2>3, Zenon DEF TypeOK
<1>2. OneCopy /\ Accounted
  BY DEF OneCopy, Accounted, InQueue, Running, Handed
<1>3. Coherent
  BY Zenon DEF Coherent
<1> QED
  BY <1>1, <1>2, <1>3, Zenon DEF IInv

(* Handing a task over: it is pushed and counted as handed, or neither.    *)
LEMMA PushKeepsIInv ==
    ASSUME IInv, NEW t \in Tasks, call[t] \in {"idle", "woken"}, PushOrRefuse(t),
           UNCHANGED <<stopping, worker, job, closer, finished>>
    PROVE  IInv'
<1> USE ExecutorAssumption
<1>1. CASE stopping \/ ~HasRoom
  <2>1. queue' = queue /\ call' = [call EXCEPT ![t] = "rejected"]
    BY <1>1, Zenon DEF PushOrRefuse
  <2>2. TypeOK'
    BY <2>1, Zenon DEF IInv, TypeOK, CallStates
  <2>3. OneCopy'
    BY <2>1, Zenon DEF IInv, OneCopy, InQueue, Running
  <2>4. Accounted'
    BY <2>1, Zenon DEF IInv, TypeOK, Accounted, InQueue, Running, Handed
  <2>5. Coherent'
    BY <2>1, Zenon DEF IInv, Coherent
  <2> QED
    BY <2>2, <2>3, <2>4, <2>5 DEF IInv
<1>2. CASE ~stopping /\ HasRoom
  <2>1. queue' = Append(queue, t) /\ call' = [call EXCEPT ![t] = "notify"]
    BY <1>2, Zenon DEF PushOrRefuse
  <2>2. queue \in Seq(Tasks) /\ ~Handed(t)
    BY Zenon DEF IInv, TypeOK, Handed
  <2>3. ~InQueue(t) /\ ~Running(t) /\ t \notin finished
    BY <2>2, Zenon DEF IInv, Accounted
  <2>4. /\ queue' \in Seq(Tasks)
        /\ Len(queue') = Len(queue) + 1
        /\ \A u : InQueue(u)' <=> (u = t \/ InQueue(u))
        /\ \A i, j \in 1..Len(queue') : queue'[i] = queue'[j] => i = j
    <3>1. NoRepeat(queue) /\ ~Holds(queue, t)
      BY <2>3, Zenon DEF IInv, OneCopy, InQueue, Holds, NoRepeat
    <3>2. /\ Append(queue, t) \in Seq(Tasks)
          /\ Len(Append(queue, t)) = Len(queue) + 1
          /\ \A u : Holds(Append(queue, t), u) <=> (u = t \/ Holds(queue, u))
          /\ NoRepeat(Append(queue, t))
      BY <2>2, <3>1, AppendElements, Zenon
    <3> QED
      BY <2>1, <3>2, Zenon DEF InQueue, Holds, NoRepeat
  <2>5. TypeOK'
    <3>1. Len(queue) \in Nat /\ Len(queue') <= MaxQueueSize
      BY <1>2, <2>2, <2>4 DEF HasRoom
    <3> QED
      BY <2>1, <2>4, <3>1, Zenon DEF IInv, TypeOK, CallStates
  <2>6. OneCopy'
    BY <2>3, <2>4, Zenon DEF IInv, OneCopy, Running
  <2>7. Accounted'
    BY <2>1, <2>3, <2>4, Zenon DEF IInv, TypeOK, Accounted, Running, Handed
  <2>8. Coherent'
    BY <1>2, Zenon DEF IInv, Coherent
  <2> QED
    BY <2>5, <2>6, <2>7, <2>8, Zenon DEF IInv
<1> QED
  BY <1>1, <1>2, Zenon

(* A step that changes only where callers wait keeps the invariant.        *)
LEMMA CallersKeepIInv ==
    ASSUME IInv, UNCHANGED <<queue, stopping, worker, job, closer, finished>>,
           call' \in [Tasks -> CallStates], \A t \in Tasks : Handed(t)' <=> Handed(t)
    PROVE  IInv'
<1>1. TypeOK' /\ OneCopy' /\ Coherent'
  BY DEF IInv, TypeOK, OneCopy, Coherent, InQueue, Running
<1>2. Accounted'
  BY Zenon DEF IInv, Accounted, InQueue, Running
<1> QED
  BY <1>1, <1>2, Zenon DEF IInv

(* A step that only parks or wakes workers keeps it.                       *)
LEMMA WorkersKeepIInv ==
    ASSUME IInv, UNCHANGED <<queue, stopping, job, closer, finished>>,
           call' \in [Tasks -> CallStates], \A t \in Tasks : Handed(t)' <=> Handed(t),
           worker' \in [Workers -> WorkerStates],
           \A w \in Workers : worker'[w] = "running" <=> worker[w] = "running",
           \A w \in Workers : worker'[w] = "exited" <=> worker[w] = "exited"
    PROVE  IInv'
<1>1. TypeOK' /\ OneCopy' /\ Coherent'
  BY DEF IInv, TypeOK, OneCopy, Coherent, InQueue, Running
<1>2. Accounted'
  BY Zenon DEF IInv, Accounted, InQueue, Running
<1> QED
  BY <1>1, <1>2, Zenon DEF IInv

(* notify_one touches only who waits.                                      *)
LEMMA NotifyOne ==
    ASSUME TypeOK
    PROVE  /\ NotifyWorker => /\ worker' \in [Workers -> WorkerStates]
                              /\ \A w \in Workers : worker'[w] = worker[w]
                                   \/ (worker[w] = "parked" /\ worker'[w] = "ready")
           /\ NotifyCaller => /\ call' \in [Tasks -> CallStates]
                              /\ \A t \in Tasks : call'[t] = call[t]
                                   \/ (call[t] = "parked" /\ call'[t] = "woken")
<1>1. ASSUME NotifyWorker
      PROVE  /\ worker' \in [Workers -> WorkerStates]
             /\ \A w \in Workers : worker'[w] = worker[w]
                  \/ (worker[w] = "parked" /\ worker'[w] = "ready")
  BY <1>1, Zenon DEF NotifyWorker, TypeOK, WorkerStates
<1>2. ASSUME NotifyCaller
      PROVE  /\ call' \in [Tasks -> CallStates]
             /\ \A t \in Tasks : call'[t] = call[t]
                  \/ (call[t] = "parked" /\ call'[t] = "woken")
  BY <1>2, Zenon DEF NotifyCaller, TypeOK, CallStates
<1> QED
  BY <1>1, <1>2, Zenon

(* Taking a task moves its one copy from the queue to the worker.          *)
LEMMA TakeKeepsIInv ==
    ASSUME IInv, NEW w \in Workers, Take(w)
    PROVE  IInv'
<1> USE ExecutorAssumption
<1> DEFINE t == Head(queue)
<1>1. /\ queue \in Seq(Tasks)
      /\ queue # <<>>
      /\ \A i, j \in 1..Len(queue) : queue[i] = queue[j] => i = j
      /\ queue' = Tail(queue)
      /\ job' = [job EXCEPT ![w] = t]
      /\ worker' = [worker EXCEPT ![w] = "running"]
      /\ worker[w] = "ready"
  BY Zenon DEF IInv, TypeOK, OneCopy, Take
<1>2. /\ t \in Tasks
      /\ queue' \in Seq(Tasks)
      /\ Len(queue') <= Len(queue)
      /\ InQueue(t)
      /\ \A i, j \in 1..Len(queue') : queue'[i] = queue'[j] => i = j
      /\ \A u : InQueue(u)' <=> (u # t /\ InQueue(u))
  <2> HIDE ExecutorAssumption
  <2>1. queue \in Seq(Tasks) /\ queue # <<>> /\ NoRepeat(queue)
    BY <1>1, Zenon DEF NoRepeat
  <2>2. /\ t \in Tasks
        /\ Tail(queue) \in Seq(Tasks)
        /\ Len(Tail(queue)) <= Len(queue)
        /\ Holds(queue, t)
        /\ NoRepeat(Tail(queue))
        /\ \A u : Holds(Tail(queue), u) <=> (u # t /\ Holds(queue, u))
    BY ONLY <2>1, TailElements, Zenon
  <2> QED
    BY <1>1, <2>2, Zenon DEF InQueue, Holds, NoRepeat
<1>3. /\ call' \in [Tasks -> CallStates]
      /\ \A u \in Tasks : Handed(u)' <=> Handed(u)
  BY NotifyOne, Zenon DEF IInv, Take, Handed
<1>4. job[w] = NoTask /\ ~Running(t) /\ t \notin finished
  BY <1>1, <1>2, Zenon DEF IInv, Coherent, OneCopy
<1>5. \A u \in Tasks : Running(u)' <=> (u = t \/ Running(u))
  BY <1>1, <1>2, <1>4, Zenon DEF IInv, TypeOK, Running
<1>6. TypeOK'
  <2>1. Len(queue) \in Nat /\ Len(queue') \in Nat
    BY <1>1, <1>2
  <2> QED
    BY <1>1, <1>2, <1>3, <2>1 DEF IInv, TypeOK, WorkerStates, Take
<1>7. OneCopy'
  <2>1. \A v, x \in Workers : job'[v] = job'[x] /\ job'[v] # NoTask => v = x
    BY <1>1, <1>2, <1>4, Zenon DEF IInv, TypeOK, OneCopy, Running
  <2>2. \A u \in Tasks : ~(InQueue(u)' /\ Running(u)')
    BY <1>2, <1>5, Zenon DEF IInv, OneCopy
  <2>3. \A u \in finished' : ~InQueue(u)' /\ ~Running(u)'
    BY <1>2, <1>4, <1>5, Zenon DEF IInv, TypeOK, OneCopy, Take
  <2> QED
    BY <1>2, <2>1, <2>2, <2>3, Zenon DEF OneCopy
<1>8. Accounted'
  BY <1>2, <1>3, <1>5, Zenon DEF IInv, Accounted, Take
<1>9. Coherent'
  BY <1>1, <1>2 DEF IInv, TypeOK, Coherent, Take
<1> QED
  BY <1>6, <1>7, <1>8, <1>9, Zenon DEF IInv

(* Finishing moves it from the worker to the finished tasks.               *)
LEMMA FinishKeepsIInv ==
    ASSUME IInv, NEW w \in Workers, Finish(w)
    PROVE  IInv'
<1> USE ExecutorAssumption
<1> DEFINE t == job[w]
<1>1. /\ t \in Tasks
      /\ t # NoTask
      /\ Running(t)
      /\ queue' = queue
      /\ job' = [job EXCEPT ![w] = NoTask]
      /\ worker' = [worker EXCEPT ![w] = "ready"]
      /\ finished' = finished \cup {t}
      /\ UNCHANGED <<stopping, call, closer>>
      /\ worker[w] = "running"
  BY Zenon DEF IInv, TypeOK, Coherent, Finish, Running
<1>2. \A u \in Tasks : Running(u)' <=> (u # t /\ Running(u))
  BY <1>1, Zenon DEF IInv, TypeOK, OneCopy, Running
<1>3. \A u : InQueue(u)' <=> InQueue(u)
  BY <1>1, Zenon DEF InQueue
<1>4. TypeOK'
  BY <1>1, Zenon DEF IInv, TypeOK, WorkerStates
<1>5. OneCopy'
  <2>1. \A v, x \in Workers : job'[v] = job'[x] /\ job'[v] # NoTask => v = x
    BY <1>1, Zenon DEF IInv, TypeOK, OneCopy
  <2>2. \A u \in finished' : ~InQueue(u)' /\ ~Running(u)'
    BY <1>1, <1>2, <1>3, Zenon DEF IInv, TypeOK, OneCopy
  <2>3. \A u \in Tasks : ~(InQueue(u)' /\ Running(u)')
    BY <1>2, <1>3, Zenon DEF IInv, OneCopy
  <2> QED
    BY <1>1, <2>1, <2>2, <2>3, Zenon DEF IInv, OneCopy
<1>6. Accounted'
  BY <1>1, <1>2, <1>3, Zenon DEF IInv, Accounted, Handed
<1>7. Coherent'
  BY <1>1, Zenon DEF IInv, TypeOK, Coherent
<1> QED
  BY <1>4, <1>5, <1>6, <1>7, Zenon DEF IInv

(* Every critical section and every notify keeps the invariant.            *)
LEMMA NextKeepsIInv == IInv /\ [ExecutorNext]_executorVars => IInv'
<1> SUFFICES ASSUME IInv, [ExecutorNext]_executorVars PROVE IInv'
  OBVIOUS
<1> USE ExecutorAssumption
<1>1. ASSUME NEW t \in Tasks, TryPost(t) PROVE IInv'
  BY <1>1, PushKeepsIInv, Zenon DEF TryPost
<1>2. ASSUME NEW t \in Tasks, Submit(t) PROVE IInv'
  <2>1. CASE stopping \/ HasRoom
    BY <1>2, <2>1, PushKeepsIInv, Zenon DEF Submit
  <2>2. CASE ~(stopping \/ HasRoom)
    BY <1>2, <2>2, CallersKeepIInv, Zenon DEF Submit, IInv, TypeOK, CallStates, Handed
  <2> QED
    BY <2>1, <2>2, Zenon
<1>3. ASSUME NEW t \in Tasks, Notify(t) PROVE IInv'
  <2>1. /\ worker' \in [Workers -> WorkerStates]
        /\ \A w \in Workers : worker'[w] = worker[w]
             \/ (worker[w] = "parked" /\ worker'[w] = "ready")
    BY <1>3, NotifyOne, Zenon DEF IInv, Notify
  <2>2. call' \in [Tasks -> CallStates] /\ \A u \in Tasks : Handed(u)' <=> Handed(u)
    BY <1>3, Zenon DEF Notify, IInv, TypeOK, CallStates, Handed
  <2> QED
    BY <1>3, <2>1, <2>2, WorkersKeepIInv DEF Notify
<1>4. ASSUME NEW t \in Tasks, SpuriousCaller(t) PROVE IInv'
  BY <1>4, CallersKeepIInv, Zenon DEF SpuriousCaller, IInv, TypeOK, CallStates, Handed
<1>5. ASSUME NEW w \in Workers, Park(w) PROVE IInv'
  BY <1>5, WorkersKeepIInv, Zenon DEF Park, IInv, TypeOK, WorkerStates, Handed
<1>6. ASSUME NEW w \in Workers, SpuriousWorker(w) PROVE IInv'
  BY <1>6, WorkersKeepIInv, Zenon DEF SpuriousWorker, IInv, TypeOK, WorkerStates, Handed
<1>7. ASSUME NEW w \in Workers, Exit(w) PROVE IInv'
  <2>1. TypeOK' /\ OneCopy'
    BY <1>7 DEF Exit, IInv, TypeOK, OneCopy, WorkerStates, InQueue, Running
  <2>2. Accounted'
    BY <1>7, Zenon DEF Exit, IInv, Accounted, InQueue, Running, Handed
  <2>3. Coherent'
    BY <1>7, Zenon DEF Exit, IInv, TypeOK, Coherent
  <2> QED
    BY <2>1, <2>2, <2>3, Zenon DEF IInv
<1>8. CASE CloserStep
  <2>1. /\ stopping' \in BOOLEAN
        /\ closer' \in CloserStates
        /\ worker' \in [Workers -> WorkerStates]
        /\ call' \in [Tasks -> CallStates]
        /\ UNCHANGED <<queue, job, finished>>
        /\ \A w \in Workers : /\ worker'[w] = "running" <=> worker[w] = "running"
                              /\ worker'[w] = "exited" <=> worker[w] = "exited"
    BY <1>8, Zenon DEF CloserStep, BeginShutdown, WakeWorkers, WakeCallers, Join, IInv, TypeOK,
                WorkerStates, CallStates, CloserStates
  <2>2. \A t \in Tasks : Handed(t)' <=> Handed(t)
    BY <1>8, Zenon DEF CloserStep, BeginShutdown, WakeWorkers, WakeCallers, Join, IInv,
       TypeOK, Handed
  <2>3. TypeOK' /\ OneCopy'
    BY <2>1 DEF IInv, TypeOK, OneCopy, InQueue, Running
  <2>4. Accounted'
    BY <2>1, <2>2, Zenon DEF IInv, Accounted, InQueue, Running
  <2>5. Coherent'
    BY <1>8, <2>1, Zenon DEF CloserStep, BeginShutdown, WakeWorkers, WakeCallers, Join,
       IInv, Coherent
  <2> QED
    BY <2>3, <2>4, <2>5, Zenon DEF IInv
<1>9. CASE UNCHANGED executorVars
  BY <1>9, CallersKeepIInv, Zenon DEF executorVars, IInv, TypeOK, Handed
<1> QED
  BY <1>1, <1>2, <1>3, <1>4, <1>5, <1>6, <1>7, <1>8, <1>9, TakeKeepsIInv, FinishKeepsIInv,
     Zenon DEF ExecutorNext, CallStep, WorkerStep

(* The inductive invariant of the pool.                                    *)
THEOREM Invariance == ExecutorSpec => []IInv
BY InitIInv, NextKeepsIInv, PTL DEF ExecutorSpec

(* The queue never exceeds max_queue_size_, whatever the threads do.       *)
THEOREM TypeCorrect == ExecutorSpec => []TypeOK
<1>1. IInv => TypeOK
  BY Zenon DEF IInv
<1> QED
  BY <1>1, Invariance, PTL

(* enqueue() answers true for exactly the tasks that worker_loop runs, and *)
(* it runs each of them once.                                              *)
THEOREM ExactlyOnce == ExecutorSpec => []RunExactlyOnce
<1>1. IInv => RunExactlyOnce
  BY Zenon DEF IInv, RunExactlyOnce
<1> QED
  BY <1>1, Invariance, PTL

(* shutdown() joins the workers only when every accepted task has run.     *)
THEOREM Drained == ExecutorSpec => []ShutdownDrains
<1>1. IInv => ShutdownDrains
  <2> SUFFICES ASSUME IInv, closer = "joined", NEW t \in Tasks, Handed(t)
               PROVE  t \in finished
    BY Zenon DEF ShutdownDrains
  <2>1. \A w \in Workers : worker[w] = "exited" /\ job[w] = NoTask
    BY Zenon DEF IInv, Coherent
  <2>2. queue = <<>>
    BY <2>1, ExecutorAssumption, Zenon DEF IInv, Coherent
  <2>3. ~InQueue(t) /\ ~Running(t)
    BY <2>1, <2>2, ExecutorAssumption DEF InQueue, Running
  <2> QED
    BY <2>3, Zenon DEF IInv, Accounted
<1> QED
  BY <1>1, Invariance, PTL

-------------------------------------------------------------------------------
(* Every step of the executor is a step of TaskPool or leaves what its     *)
(* users see alone.                                                        *)

(* A step that changes what the caller of one task knows is an update of   *)
(* Status at that task.                                                    *)
LEMMA StatusUpdated ==
    ASSUME NEW t \in Tasks, \A u \in Tasks \ {t} : StatusOf(u)' = StatusOf(u)
    PROVE  Status' = [Status EXCEPT ![t] = StatusOf(t)']
BY Zenon DEF Status

(* A step that changes it for nobody leaves Status alone.                  *)
LEMMA StatusKept ==
    ASSUME \A u \in Tasks : StatusOf(u)' = StatusOf(u)
    PROVE  Status' = Status
BY Zenon DEF Status

(* What a step leaves alone that touches neither calls nor results, or     *)
(* moves a waiting caller from "parked" to "woken".                        *)
LEMMA WaitingIsAsked ==
    ASSUME UNCHANGED finished,
           \A u \in Tasks : call'[u] = call[u] \/ (call[u] = "parked" /\ call'[u] = "woken")
    PROVE  Status' = Status
<1>1. \A u \in Tasks : StatusOf(u)' = StatusOf(u)
  BY Zenon DEF StatusOf, Handed
<1> QED
  BY <1>1, StatusKept, Zenon

(* notify_one wakes at most one caller.                                    *)
LEMMA WakesOne ==
    ASSUME TypeOK, NotifyCaller
    PROVE  \A u \in Tasks : call'[u] = call[u] \/ (call[u] = "parked" /\ call'[u] = "woken")
BY Zenon DEF TypeOK, NotifyCaller

(* enqueue() under the mutex answers its caller.                           *)
LEMMA PushAnswers ==
    ASSUME IInv, NEW t \in Tasks, call[t] \in {"idle", "woken"}, PushOrRefuse(t),
           UNCHANGED <<stopping, closer, finished>>
    PROVE  Pool!Answer(t)
<1>1. \A u \in Tasks \ {t} : call'[u] = call[u]
  BY Zenon DEF PushOrRefuse, IInv, TypeOK
<1>2. \A u \in Tasks \ {t} : StatusOf(u)' = StatusOf(u)
  BY <1>1, Zenon DEF StatusOf, Handed
<1>3. t \notin finished /\ StatusOf(t) \in {"none", "asked"}
  BY Zenon DEF IInv, Accounted, Handed, StatusOf
<1>4. Status[t] \in {"none", "asked"} /\ Phase' = Phase
  BY <1>3, Zenon DEF Status, Phase
<1>5. CASE stopping \/ ~HasRoom
  <2>1. StatusOf(t)' = "refused"
    BY <1>3, <1>5, Zenon DEF PushOrRefuse, StatusOf, Handed, IInv, TypeOK
  <2> QED
    BY <1>2, <1>4, <2>1, StatusUpdated DEF Pool!Answer
<1>6. CASE ~(stopping \/ ~HasRoom)
  <2>1. StatusOf(t)' = "accepted"
    BY <1>3, <1>6, Zenon DEF PushOrRefuse, StatusOf, Handed, IInv, TypeOK
  <2>2. Phase = "open"
    BY <1>6, Zenon DEF Phase, IInv, Coherent
  <2> QED
    BY <1>2, <1>4, <2>1, <2>2, StatusUpdated DEF Pool!Answer
<1> QED
  BY <1>5, <1>6, Zenon

(* submit() on a full queue: an idle caller begins to wait, one that was   *)
(* woken goes on waiting.                                                  *)
LEMMA ParkAsks ==
    ASSUME IInv, NEW t \in Tasks, call[t] \in {"idle", "woken"},
           call' = [call EXCEPT ![t] = "parked"], UNCHANGED <<stopping, closer, finished>>
    PROVE  Pool!Ask(t) \/ UNCHANGED Pool!vars
<1>1. \A u \in Tasks \ {t} : StatusOf(u)' = StatusOf(u)
  BY Zenon DEF StatusOf, Handed, IInv, TypeOK
<1>2. t \notin finished /\ StatusOf(t)' = "asked" /\ Phase' = Phase
  BY Zenon DEF IInv, TypeOK, Accounted, Handed, StatusOf, Phase
<1>3. CASE call[t] = "idle"
  <2>1. Status[t] = "none"
    BY <1>2, <1>3, Zenon DEF Status, StatusOf, Handed
  <2> QED
    BY <1>1, <1>2, <2>1, StatusUpdated DEF Pool!Ask
<1>4. CASE call[t] = "woken"
  <2>1. StatusOf(t) = "asked"
    BY <1>2, <1>4, Zenon DEF StatusOf, Handed
  <2> QED
    BY <1>1, <1>2, <2>1, StatusKept DEF Pool!vars
<1> QED
  BY <1>3, <1>4, Zenon

(* The end of a callback: its task was accepted and had not run.           *)
LEMMA FinishRuns ==
    ASSUME IInv, NEW w \in Workers, Finish(w)
    PROVE  \E t \in Tasks : Pool!Run(t)
<1>1. PICK t \in Tasks : t = job[w] /\ Running(t)
  BY Zenon DEF IInv, TypeOK, Coherent, Finish, Running
<1>2. Handed(t) /\ t \notin finished /\ finished' = finished \cup {t}
  BY <1>1, Zenon DEF IInv, Accounted, OneCopy, Finish
<1>3. Status[t] = "accepted"
  BY <1>1, <1>2, Zenon DEF Status, StatusOf
<1>4. StatusOf(t)' = "done" /\ Phase' = Phase
  BY <1>2, Zenon DEF Finish, StatusOf, Phase
<1>5. \A u \in Tasks \ {t} : StatusOf(u)' = StatusOf(u)
  BY <1>2, Zenon DEF Finish, StatusOf, Handed
<1> QED
  BY <1>1, <1>3, <1>4, <1>5, StatusUpdated DEF Pool!Run

(* The join: all workers have left an empty queue.                         *)
LEMMA JoinCloses ==
    ASSUME IInv, Join
    PROVE  Pool!EndClose
<1>1. Phase = "closing" /\ Phase' = "closed"
  BY Zenon DEF IInv, Coherent, Join, Phase
<1>2. \A w \in Workers : worker[w] = "exited" /\ job[w] = NoTask
  BY Zenon DEF IInv, Coherent, Join
<1>3. queue = <<>>
  BY <1>2, ExecutorAssumption, Zenon DEF IInv, Coherent
<1>4. \A t \in Tasks : ~InQueue(t) /\ ~Running(t)
  BY <1>2, <1>3, ExecutorAssumption DEF InQueue, Running
<1>5. \A t \in Tasks : Status[t] # "accepted"
  BY <1>4, Zenon DEF IInv, Accounted, Status, StatusOf
<1>6. Status' = Status
  BY WaitingIsAsked, Zenon DEF Join
<1> QED
  BY <1>1, <1>5, <1>6 DEF Pool!EndClose

(* Every step of the executor is a step of the pool or a stutter.          *)
LEMMA StepRefines == IInv /\ [ExecutorNext]_executorVars => [Pool!Next]_(Pool!vars)
<1> SUFFICES ASSUME IInv, [ExecutorNext]_executorVars PROVE Pool!Next \/ UNCHANGED Pool!vars
  OBVIOUS
<1>1. ASSUME NEW t \in Tasks, TryPost(t) PROVE Pool!Next
  BY <1>1, PushAnswers, Zenon DEF TryPost, Pool!Next
<1>2. ASSUME NEW t \in Tasks, Submit(t) PROVE Pool!Next \/ UNCHANGED Pool!vars
  <2>1. CASE stopping \/ HasRoom
    BY <1>2, <2>1, PushAnswers, Zenon DEF Submit, Pool!Next
  <2>2. CASE ~(stopping \/ HasRoom)
    BY <1>2, <2>2, ParkAsks, Zenon DEF Submit, Pool!Next
  <2> QED
    BY <2>1, <2>2, Zenon
<1>3. ASSUME NEW t \in Tasks, Notify(t) PROVE UNCHANGED Pool!vars
  <2>1. \A u \in Tasks : StatusOf(u)' = StatusOf(u)
    BY <1>3, Zenon DEF Notify, StatusOf, Handed, IInv, TypeOK
  <2> QED
    BY <1>3, <2>1, StatusKept, Zenon DEF Notify, Phase, Pool!vars
<1>4. ASSUME NEW t \in Tasks, SpuriousCaller(t) PROVE UNCHANGED Pool!vars
  BY <1>4, WaitingIsAsked, Zenon DEF SpuriousCaller, IInv, TypeOK, Phase, Pool!vars
<1>5. ASSUME NEW w \in Workers, Take(w) PROVE UNCHANGED Pool!vars
  BY <1>5, WaitingIsAsked, WakesOne, Zenon DEF Take, IInv, Phase, Pool!vars
<1>6. ASSUME NEW w \in Workers, Park(w) \/ Exit(w) \/ SpuriousWorker(w)
      PROVE  UNCHANGED Pool!vars
  BY <1>6, WaitingIsAsked DEF Park, Exit, SpuriousWorker, Phase, Pool!vars
<1>7. ASSUME NEW w \in Workers, Finish(w) PROVE Pool!Next
  BY <1>7, FinishRuns, Zenon DEF Pool!Next
<1>8. ASSUME BeginShutdown PROVE Pool!Next
  <2>1. Status' = Status
    BY <1>8, WaitingIsAsked, Zenon DEF BeginShutdown
  <2> QED
    BY <1>8, <2>1, Zenon DEF BeginShutdown, IInv, Coherent, Phase, Pool!BeginClose,
       Pool!Next
<1>9. ASSUME WakeWorkers \/ WakeCallers PROVE UNCHANGED Pool!vars
  <2>1. Status' = Status
    BY <1>9, WaitingIsAsked, Zenon DEF WakeWorkers, WakeCallers, IInv, TypeOK
  <2> QED
    BY <1>9, <2>1 DEF WakeWorkers, WakeCallers, Phase, Pool!vars
<1>10. ASSUME Join PROVE Pool!Next
  BY <1>10, JoinCloses, Zenon DEF Pool!Next
<1>11. CASE UNCHANGED executorVars
  BY <1>11, WaitingIsAsked, Zenon DEF executorVars, Phase, Pool!vars
<1> QED
  BY <1>1, <1>2, <1>3, <1>4, <1>5, <1>6, <1>7, <1>8, <1>9, <1>10, <1>11, Zenon DEF
     ExecutorNext, CallStep, WorkerStep, CloserStep

(* Whatever the threads do, the users of the executor see a TaskPool: an   *)
(* accepted task runs at most once, a refused one never, nothing is        *)
(* accepted once shutdown() began, and shutdown() returns only when every  *)
(* accepted task has run.                                                  *)
THEOREM RefinesPool == ExecutorSpec => Pool!Spec
<1>1. ExecutorInit => Pool!Init
  BY Zenon DEF ExecutorInit, Pool!Init, Status, StatusOf, Handed, Phase
<1> QED
  BY <1>1, StepRefines, Invariance, PTL DEF ExecutorSpec, Pool!Spec
===============================================================================
