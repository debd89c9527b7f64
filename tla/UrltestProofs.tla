---------------------------- MODULE UrltestProofs ----------------------------
(***************************************************************************)
(* Proofs about UrltestManager, for any children, groups and latencies and *)
(* any number of registrations, reloads and probes: whose results count,   *)
(* that the routing has the manager's selection, that no circuit breaker   *)
(* locks a child out, and that the selection is the best.                  *)
(***************************************************************************)
EXTENDS UrltestManager, Induction, TLAPS

(* The fields of a state and of a probe.  What is in the entries of the    *)
(* breaker, the results and the work to do is left open.                   *)
StateShape(s) ==
    s \in [groups : {s.groups}, res : {s.res}, cb : {s.cb}, sel : {s.sel},
           inflight : {s.inflight}, gen : {s.gen}]
ProbeShape(p) == p \in [gen : {p.gen}, todo : {p.todo}, res : {p.res}, epoch : {p.epoch}]

ShapeInv ==
    /\ generation \in Nat /\ epoch \in Nat
    /\ state # None => StateShape(state)
    /\ \A p \in probes : ProbeShape(p)
    /\ \E S : control \in Seq(S)

(* Generations are given out once, although states are forgotten: whatever *)
(* carries one carries an earlier one than the next.                       *)
Given(g) == g \in Nat /\ g < generation

GenerationInv ==
    /\ state # None => Given(state.gen)
    /\ \A p \in probes : Given(p.gen)
    /\ \A i \in DOMAIN control : control[i].kind = "commit" => Given(control[i].gen)

(* Nothing is out before the first registration.                           *)
FreshInv == epoch = 0 => state = None /\ probes = {} /\ control = <<>> /\ chosen = None

(* The last change that is posted carries the selection, or none is posted *)
(* and the routing has it.                                                 *)
LastChange(i) ==
    /\ control[i].kind = "change"
    /\ \A j \in DOMAIN control : j > i => control[j].kind # "change"

FollowInv ==
    state # None /\ (state.sel # None \/ epoch = 1) =>
        \/ chosen = state.sel /\ \A i \in DOMAIN control : control[i].kind # "change"
        \/ \E i \in DOMAIN control : LastChange(i) /\ control[i].sel = state.sel

Inv == ShapeInv /\ GenerationInv /\ FreshInv /\ StaleProbesNeverCount /\ FollowInv

-------------------------------------------------------------------------------
(* What taking the head does to the queue of the loop.                     *)
LEMMA TailFacts ==
    ASSUME NEW S, NEW s \in Seq(S), s # <<>>
    PROVE  /\ Tail(s) \in Seq(S)
           /\ \A i \in DOMAIN Tail(s) : i + 1 \in DOMAIN s /\ Tail(s)[i] = s[i + 1]
           /\ \A i \in DOMAIN s : i # 1 => i - 1 \in DOMAIN Tail(s)
           /\ 1 \in DOMAIN s /\ Head(s) = s[1]
           /\ \A i \in DOMAIN s : i \in Nat /\ i >= 1
  OBVIOUS

(* What posting a task does to the queue.                                  *)
LEMMA AppendFacts ==
    ASSUME NEW S, NEW s \in Seq(S), NEW x
    PROVE  /\ Append(s, x) \in Seq(S \cup {x})
           /\ DOMAIN Append(s, x) = DOMAIN s \cup {Len(s) + 1}
           /\ \A i \in DOMAIN s : Append(s, x)[i] = s[i] /\ i < Len(s) + 1 /\ i \in Nat
           /\ Append(s, x)[Len(s) + 1] = x
           /\ Len(s) + 1 \in Nat
  <1>1. s \in Seq(S \cup {x})
    OBVIOUS
  <1> QED
    BY <1>1

(* queue_probe_unlocked(), whether the executor takes the probe or not:    *)
(* the state and the probe have the generation that was next, nothing else *)
(* of the state but the breaker changes.                                   *)
LEMMA QueueProbeFacts ==
    ASSUME NEW s, StateShape(s), QueueProbe(s), generation \in Nat
    PROVE  /\ StateShape(state') /\ state'.gen = generation /\ state'.sel = s.sel
           /\ generation' = generation + 1
           /\ \A p \in probes' : \/ p \in probes
                                 \/ ProbeShape(p) /\ p.gen = generation /\ p.epoch = epoch'
<1> DEFINE w == Candidates(s)
           ended == EndAll(w.cb, w.todo)
           taken == [s EXCEPT !.inflight = TRUE, !.gen = generation, !.cb = w.cb]
           new == [gen |-> generation, todo |-> w.todo, res |-> [c \in Children |-> None],
                   epoch |-> epoch']
<1>1. /\ generation' = generation + 1
      /\ \/ state' = taken /\ probes' = probes \cup {new}
         \/ state' = [taken EXCEPT !.inflight = FALSE, !.cb = ended] /\ probes' = probes
  BY Zenon DEF QueueProbe
<1>2. ProbeShape(new) /\ new.gen = generation /\ new.epoch = epoch'
  BY Zenon DEF ProbeShape
<1> HIDE DEF w, ended, new
<1>3. StateShape(taken)
  BY Zenon DEF StateShape
<1>4. taken.gen = generation /\ taken.sel = s.sel
  BY Zenon DEF StateShape
<1> HIDE DEF taken
<1>5. StateShape([taken EXCEPT !.inflight = FALSE, !.cb = ended])
  BY <1>3, Zenon DEF StateShape
<1>6. LET e == [taken EXCEPT !.inflight = FALSE, !.cb = ended]
      IN  e.gen = taken.gen /\ e.sel = taken.sel
  BY <1>3, Zenon DEF StateShape
<1> QED
  BY <1>1, <1>2, <1>3, <1>4, <1>5, <1>6, Zenon

(* A conjunct of Inv in the next state, when a probe has been queued for   *)
(* the outbound as it is or for a new registration.                        *)
LEMMA QueueStep ==
    ASSUME Inv, NEW s, StateShape(s), QueueProbe(s), UNCHANGED <<control, chosen>>,
           \/ state # None /\ s = state /\ epoch' = epoch
           \/ state = None /\ s.sel = None /\ epoch' = epoch + 1
    PROVE  Inv'
<1> USE DEF Inv
<1>1. /\ StateShape(state') /\ state'.gen = generation /\ state'.sel = s.sel
      /\ generation' = generation + 1
      /\ \A p \in probes' : \/ p \in probes
                            \/ ProbeShape(p) /\ p.gen = generation /\ p.epoch = epoch'
  BY QueueProbeFacts, Zenon DEF ShapeInv
<1>2. \A g : Given(g) => Given(g)' /\ g # generation
  BY <1>1 DEF Given, ShapeInv
<1>3. ShapeInv'
  BY <1>1 DEF ShapeInv
<1>4. GenerationInv'
  BY <1>1, <1>2 DEF GenerationInv, ShapeInv, Given
<1>5. StaleProbesNeverCount'
  BY <1>1, <1>2 DEF StaleProbesNeverCount, GenerationInv, Tasks
<1>6. FreshInv'
  BY DEF FreshInv, ShapeInv
<1>7. FollowInv'
  <2>1. CASE state # None /\ s = state /\ epoch' = epoch
    BY <1>1, <2>1, Zenon DEF FollowInv, LastChange
  <2>2. CASE state = None /\ s.sel = None /\ epoch' = epoch + 1
    BY <1>1, <2>2 DEF FollowInv, FreshInv, ShapeInv
  <2> QED
    BY <2>1, <2>2, Zenon
<1> QED
  BY <1>3, <1>4, <1>5, <1>6, <1>7, Zenon

(* register_urltest(), for a tag that is new or registered already.        *)
LEMMA RegisterStep == ASSUME Inv, NEW groups, Register(groups) PROVE Inv'
<1>1. StateShape(NewState(groups)) /\ NewState(groups).sel = None
  BY Zenon DEF StateShape, NewState
<1>2. CASE state = None
  BY <1>1, <1>2, QueueStep, Zenon DEF Register
<1>3. CASE state # None /\ ~state.inflight
  BY <1>3, QueueStep, Zenon DEF Register, Inv, ShapeInv
<1>4. CASE state # None /\ state.inflight
  <2>1. UNCHANGED <<state, generation, probes, control, chosen, epoch>>
    BY <1>4, Zenon DEF Register
  <2> QED
    BY <2>1 DEF Inv, ShapeInv, GenerationInv, Given, FreshInv, StaleProbesNeverCount, Tasks,
                FollowInv, LastChange
<1> QED
  BY <1>2, <1>3, <1>4, Zenon

(* A timer queues a probe.                                                 *)
LEMMA RunTestsStep == ASSUME Inv, RunTests PROVE Inv'
  BY QueueStep, Zenon DEF RunTests, Inv, ShapeInv

(* The end of a cooldown concerns the breaker only.                        *)
LEMMA CooldownStep == ASSUME Inv, NEW c, Cooldown(c) PROVE Inv'
<1>1. StateShape(state') /\ state'.gen = state.gen /\ state'.sel = state.sel
  BY Zenon DEF Cooldown, Inv, ShapeInv, StateShape
<1> QED
  BY <1>1 DEF Cooldown, Inv, ShapeInv, GenerationInv, Given, FreshInv, StaleProbesNeverCount,
              Tasks, FollowInv, LastChange

(* A probe that goes on keeps its generation and registration.             *)
LEMMA TestStep == ASSUME Inv, NEW p \in probes, Test(p) PROVE Inv'
<1>1. \A r : LET q == [p EXCEPT !.todo = Tail(@), !.res = r]
             IN  ProbeShape(q)
  BY Zenon DEF Inv, ShapeInv, ProbeShape
<1>2. \A r : LET q == [p EXCEPT !.todo = Tail(@), !.res = r]
             IN  q.gen = p.gen /\ q.epoch = p.epoch
  BY Zenon DEF Inv, ShapeInv, ProbeShape
<1>3. \A q \in probes' : \/ q \in probes
                         \/ ProbeShape(q) /\ q.gen = p.gen /\ q.epoch = p.epoch
  <2>1. CASE IsProbeCurrent(p)
    <3>1. PICK r : probes' = (probes \ {p}) \cup {[p EXCEPT !.todo = Tail(@), !.res = r]}
      BY <2>1, Zenon DEF Test
    <3>2. PICK q : q = [p EXCEPT !.todo = Tail(@), !.res = r]
      BY Zenon
    <3>3. ProbeShape(q) /\ q.gen = p.gen /\ q.epoch = p.epoch
      BY <3>2, <1>1, <1>2, Zenon
    <3>4. probes' = (probes \ {p}) \cup {q}
      BY <3>1, <3>2, Zenon
    <3> QED
      BY <3>3, <3>4, Zenon
  <2>2. CASE ~IsProbeCurrent(p)
    <3>1. probes' = probes \ {p}
      BY <2>2, Zenon DEF Test
    <3> QED
      BY <3>1, Zenon
  <2> QED
    BY <2>1, <2>2, Zenon
<1>4. UNCHANGED <<state, generation, control, chosen, epoch>>
  BY Zenon DEF Test
<1>5. FreshInv'
  BY <1>4, Zenon DEF Inv, FreshInv
<1> QED
  BY <1>3, <1>4, <1>5 DEF Inv, ShapeInv, GenerationInv, Given, StaleProbesNeverCount,
                          Tasks, FollowInv, LastChange

(* The commit that is posted has the generation and the registration of    *)
(* its probe, and stands behind every change.                              *)
LEMMA PostCommitStep == ASSUME Inv, NEW p \in probes, PostCommit(p) PROVE Inv'
<1> DEFINE x == [kind |-> "commit", gen |-> p.gen, res |-> p.res, sel |-> None,
                 epoch |-> p.epoch]
<1>1. /\ probes' \subseteq probes /\ control' = Append(control, x)
      /\ UNCHANGED <<state, generation, chosen, epoch>>
  BY Zenon DEF PostCommit
<1>2. x.kind = "commit" /\ x.gen = p.gen /\ x.epoch = p.epoch
  OBVIOUS
<1> HIDE DEF x
<1>3. PICK S : control \in Seq(S)
  BY Zenon DEF Inv, ShapeInv
<1>4. /\ control' \in Seq(S \cup {x})
      /\ DOMAIN control' = DOMAIN control \cup {Len(control) + 1}
      /\ \A i \in DOMAIN control : control'[i] = control[i]
      /\ control'[Len(control) + 1] = x
  BY <1>1, <1>3, AppendFacts
<1>5. ShapeInv'
  BY <1>1, <1>4, Zenon DEF Inv, ShapeInv
<1>6. GenerationInv'
  BY <1>1, <1>2, <1>4 DEF Inv, GenerationInv, Given
<1>7. StaleProbesNeverCount'
  <2>1. Tasks' = Tasks \cup {x}
    BY <1>4 DEF Tasks
  <2> QED
    BY <2>1, <1>1, <1>2, Zenon DEF Inv, StaleProbesNeverCount
<1>8. FreshInv'
  BY <1>1, Zenon DEF Inv, FreshInv
<1>9. FollowInv'
  BY <1>1, <1>2, <1>4 DEF Inv, FollowInv, LastChange
<1> QED
  BY <1>5, <1>6, <1>7, <1>8, <1>9, Zenon DEF Inv

(* What the queue keeps when its head is taken.                            *)
LEMMA TakeFacts ==
    ASSUME Inv, control # <<>>, control' = Tail(control)
    PROVE  /\ \E S : control' \in Seq(S)
           /\ \A i \in DOMAIN control' : i + 1 \in DOMAIN control /\ control'[i] = control[i + 1]
           /\ \A i \in DOMAIN control : i # 1 => i - 1 \in DOMAIN control'
           /\ 1 \in DOMAIN control /\ Head(control) = control[1]
           /\ \A i \in DOMAIN control : i \in Nat /\ i >= 1
           /\ \A i \in DOMAIN control' : i \in Nat
           /\ Tasks' \subseteq Tasks
<1>1. PICK S : control \in Seq(S)
  BY Zenon DEF Inv, ShapeInv
<1>2. /\ Tail(control) \in Seq(S)
      /\ \A i \in DOMAIN Tail(control) : /\ i + 1 \in DOMAIN control
                                         /\ Tail(control)[i] = control[i + 1]
      /\ \A i \in DOMAIN control : i # 1 => i - 1 \in DOMAIN Tail(control)
      /\ 1 \in DOMAIN control /\ Head(control) = control[1]
      /\ \A i \in DOMAIN control : i \in Nat /\ i >= 1
  BY <1>1, TailFacts, Zenon
<1>3. \A i \in DOMAIN Tail(control) : i \in Nat
  BY <1>2
<1> QED
  BY <1>2, <1>3 DEF Tasks

(* The last change of the queue moves one place forward.                   *)
LEMMA LastMoves ==
    ASSUME Inv, control # <<>>, control' = Tail(control),
           NEW i \in DOMAIN control, i # 1, LastChange(i)
    PROVE  \E k \in DOMAIN control' : LastChange(k)' /\ control'[k] = control[i]
<1>1. i \in Nat /\ i - 1 \in DOMAIN control'
  BY TakeFacts, Zenon
<1>2. PICK k \in DOMAIN control' : k = i - 1
  BY <1>1, Zenon
<1>3. k + 1 = i /\ k \in Int
  BY <1>1, <1>2
<1>4. control'[k] = control[i]
  BY <1>3, TakeFacts, Zenon
<1>5. ASSUME NEW j \in DOMAIN control', j > k PROVE control'[j].kind # "change"
  <2>1. j + 1 \in DOMAIN control /\ control'[j] = control[j + 1]
    BY TakeFacts, Zenon
  <2>2. j \in Int
    BY TakeFacts
  <2>3. j + 1 > i
    BY <1>3, <1>5, <2>2
  <2> QED
    BY <2>1, <2>3, Zenon DEF LastChange
<1>6. LastChange(k)'
  BY <1>4, <1>5, Zenon DEF LastChange
<1> QED
  BY <1>4, <1>6, Zenon

(* A commit that is taken from the queue and changes no selection.         *)
LEMMA TakeCommit ==
    ASSUME Inv, control # <<>>, Head(control).kind = "commit", control' = Tail(control),
           UNCHANGED <<generation, probes, chosen, epoch>>,
           \/ state' = state
           \/ /\ state # None /\ StateShape(state')
              /\ state'.gen = state.gen /\ state'.sel = state.sel
    PROVE  Inv'
<1>1. ShapeInv'
  BY TakeFacts, Zenon DEF Inv, ShapeInv
<1>2. GenerationInv'
  BY TakeFacts DEF Inv, GenerationInv, Given
<1>3. StaleProbesNeverCount'
  BY TakeFacts, Zenon DEF Inv, StaleProbesNeverCount
<1>4. FreshInv'
  BY Zenon DEF Inv, FreshInv
<1>5. FollowInv'
  <2> SUFFICES ASSUME state # None, state.sel # None \/ epoch = 1
               PROVE  \/ /\ chosen = state.sel
                         /\ \A i \in DOMAIN control' : control'[i].kind # "change"
                      \/ \E i \in DOMAIN control' : LastChange(i)' /\ control'[i].sel = state.sel
    BY Zenon DEF FollowInv
  <2>1. CASE chosen = state.sel /\ \A i \in DOMAIN control : control[i].kind # "change"
    BY <2>1, TakeFacts
  <2>2. ASSUME NEW i \in DOMAIN control, LastChange(i), control[i].sel = state.sel
        PROVE  \E j \in DOMAIN control' : LastChange(j)' /\ control'[j].sel = state.sel
    <3>1. i # 1
      BY <2>2, TakeFacts, Zenon DEF LastChange
    <3> QED
      BY <3>1, <2>2, LastMoves, Zenon
  <2> QED
    BY <2>1, <2>2, Zenon DEF Inv, FollowInv
<1> QED
  BY <1>1, <1>2, <1>3, <1>4, <1>5, Zenon DEF Inv

(* commit_probe_results(): a result of another generation is dropped; one  *)
(* that changes the selection posts the change behind everything else.     *)
LEMMA CommitStep == ASSUME Inv, Commit PROVE Inv'
<1> DEFINE s == Recorded(state, Head(control).res)
           new == SelectOutbound(s)
           x == [kind |-> "change", gen |-> 0, res |-> [c \in Children |-> None],
                 sel |-> new, epoch |-> epoch]
<1>1. /\ control # <<>> /\ Head(control).kind = "commit"
      /\ UNCHANGED <<generation, probes, chosen, epoch>>
  BY Zenon DEF Commit
<1>2. CASE ~(state # None /\ Head(control).gen = state.gen)
  BY <1>1, <1>2, TakeCommit, Zenon DEF Commit
<1>3. CASE state # None /\ Head(control).gen = state.gen
  <2>1. /\ state' = [s EXCEPT !.sel = new]
        /\ control' = IF new = state.sel THEN Tail(control) ELSE Append(Tail(control), x)
    <3> HIDE DEF s
    <3>1. s \in {Recorded(state, Head(control).res)}
      BY Zenon DEF s
    <3> QED
      BY <1>3, <3>1, Zenon DEF Commit
  <2>2. StateShape(s)
    BY <1>3, Zenon DEF Inv, ShapeInv, StateShape, Recorded
  <2>3. s.gen = state.gen
    BY <1>3, Zenon DEF Inv, ShapeInv, StateShape, Recorded
  <2>4. x.kind = "change" /\ x.sel = new
    OBVIOUS
  <2> HIDE DEF s, new, x
  <2>5. StateShape(state')
    BY <2>1, <2>2, Zenon DEF StateShape
  <2>6. state'.gen = state.gen /\ state'.sel = new
    BY <2>1, <2>2, <2>3, Zenon DEF StateShape
  <2>7. CASE new = state.sel
    BY <1>1, <1>3, <2>1, <2>5, <2>6, <2>7, TakeCommit, Zenon
  <2>8. CASE new # state.sel
    <3>1. PICK S : control \in Seq(S)
      BY Zenon DEF Inv, ShapeInv
    <3>2. /\ Tail(control) \in Seq(S)
          /\ \A i \in DOMAIN Tail(control) : /\ i + 1 \in DOMAIN control
                                             /\ Tail(control)[i] = control[i + 1]
      BY <1>1, <3>1, TailFacts, Zenon
    <3>3. /\ control' \in Seq(S \cup {x})
          /\ DOMAIN control' = DOMAIN Tail(control) \cup {Len(Tail(control)) + 1}
          /\ \A i \in DOMAIN Tail(control) : /\ control'[i] = Tail(control)[i]
                                             /\ i < Len(Tail(control)) + 1 /\ i \in Nat
          /\ control'[Len(Tail(control)) + 1] = x
          /\ Len(Tail(control)) + 1 \in Nat
      BY <2>1, <2>8, <3>2, AppendFacts
    <3>4. \A i \in DOMAIN control' : control'[i] = x \/ control'[i] \in Tasks
      BY <3>2, <3>3, Zenon DEF Tasks
    <3>5. ShapeInv'
      BY <1>1, <2>5, <3>3, Zenon DEF Inv, ShapeInv
    <3>6. GenerationInv'
      BY <1>1, <1>3, <2>4, <2>6, <3>4, Zenon DEF Inv, GenerationInv, Given, Tasks
    <3>7. StaleProbesNeverCount'
      BY <1>1, <1>3, <2>4, <2>6, <3>4, Zenon DEF Inv, StaleProbesNeverCount, Tasks
    <3>8. FreshInv'
      BY <1>1, <1>3, Zenon DEF Inv, FreshInv
    <3>9. FollowInv'
      <4>1. PICK n : n = Len(Tail(control)) + 1
        BY Zenon
      <4>2. n \in DOMAIN control' /\ control'[n].sel = state'.sel
        BY <2>4, <2>6, <3>3, <4>1, Zenon
      <4>3. LastChange(n)'
        BY <2>4, <3>3, <4>1 DEF LastChange
      <4> QED
        BY <4>2, <4>3, Zenon DEF FollowInv
    <3> QED
      BY <3>5, <3>6, <3>7, <3>8, <3>9, Zenon DEF Inv
  <2> QED
    BY <2>7, <2>8, Zenon
<1> QED
  BY <1>2, <1>3, Zenon

(* The task that carries a change to the routing: the last one carries the *)
(* selection.                                                              *)
LEMMA ChangeStep == ASSUME Inv, Change PROVE Inv'
<1>1. /\ control # <<>> /\ control' = Tail(control)
      /\ Head(control).kind = "change" /\ chosen' = Head(control).sel
      /\ UNCHANGED <<state, generation, probes, epoch>>
  BY Zenon DEF Change
<1>2. ShapeInv'
  BY <1>1, TakeFacts, Zenon DEF Inv, ShapeInv
<1>3. GenerationInv'
  BY <1>1, TakeFacts DEF Inv, GenerationInv, Given
<1>4. StaleProbesNeverCount'
  BY <1>1, TakeFacts, Zenon DEF Inv, StaleProbesNeverCount
<1>5. FreshInv'
  BY <1>1, Zenon DEF Inv, FreshInv
<1>6. FollowInv'
  <2> SUFFICES ASSUME state # None, state.sel # None \/ epoch = 1
               PROVE  \/ /\ chosen' = state.sel
                         /\ \A i \in DOMAIN control' : control'[i].kind # "change"
                      \/ \E i \in DOMAIN control' : LastChange(i)' /\ control'[i].sel = state.sel
    BY <1>1, Zenon DEF FollowInv
  <2>1. PICK i \in DOMAIN control : LastChange(i) /\ control[i].sel = state.sel
    BY <1>1, TakeFacts, Zenon DEF Inv, FollowInv
  <2>2. CASE i = 1
    BY <1>1, <2>1, <2>2, TakeFacts DEF LastChange
  <2>3. CASE i # 1
    BY <1>1, <2>1, <2>3, LastMoves, Zenon
  <2> QED
    BY <2>2, <2>3, Zenon
<1> QED
  BY <1>2, <1>3, <1>4, <1>5, <1>6, Zenon DEF Inv

(* clear() forgets the state, and counts on.                               *)
LEMMA ClearStep == ASSUME Inv, Clear PROVE Inv'
<1>1. /\ state' = None /\ generation' = generation + 1
      /\ UNCHANGED <<probes, control, chosen, epoch>>
  BY Zenon DEF Clear
<1> QED
  BY <1>1 DEF Inv, ShapeInv, GenerationInv, Given, FreshInv, StaleProbesNeverCount, FollowInv

(* The invariant holds before anything is registered.                      *)
LEMMA InvInit == Init => Inv
<1> SUFFICES ASSUME Init PROVE Inv
  OBVIOUS
<1>1. control \in Seq({})
  BY DEF Init
<1> QED
  BY <1>1 DEF Init, Inv, ShapeInv, GenerationInv, FreshInv, StaleProbesNeverCount, FollowInv

(* Every step of the manager, its workers and the loop keeps it.           *)
LEMMA InvNext == Inv /\ [Next]_vars => Inv'
<1> SUFFICES ASSUME Inv, [Next]_vars PROVE Inv'
  OBVIOUS
<1>1. CASE UNCHANGED vars
  BY <1>1 DEF vars, Inv, ShapeInv, GenerationInv, Given, FreshInv, StaleProbesNeverCount,
              Tasks, FollowInv, LastChange
<1>2. ASSUME NEW gs \in Groups, Register(gs) PROVE Inv'
  BY <1>2, RegisterStep, Zenon
<1>3. ASSUME NEW c \in Children, Cooldown(c) PROVE Inv'
  BY <1>3, CooldownStep, Zenon
<1>4. ASSUME NEW p \in probes, Test(p) \/ PostCommit(p) PROVE Inv'
  BY <1>4, TestStep, PostCommitStep, Zenon
<1> QED
  BY <1>1, <1>2, <1>3, <1>4, RunTestsStep, ClearStep, CommitStep, ChangeStep, Zenon DEF
     Next

(* So it holds in every state.                                             *)
LEMMA InvAlways == Spec => []Inv
  BY InvInit, InvNext, PTL DEF Spec

(* What was measured for an earlier registration of the outbound is never  *)
(* taken for the present one, for any number of registrations, reloads,    *)
(* refused probes and queued commits (is_probe_current() and the           *)
(* generation test of commit_probe_results()).                             *)
THEOREM StaleNeverCounts == Spec => []StaleProbesNeverCount
<1>1. Inv => StaleProbesNeverCount
  BY Zenon DEF Inv
<1> QED
  BY <1>1, InvAlways, PTL

(* When no change is posted, firewall_state_ has the selection of the      *)
(* manager, for any number of commits, stale changes and reloads           *)
(* (handle_urltest_selection_change()).                                    *)
THEOREM RoutingHasSelection == Spec => []RoutingFollows
<1>1. Inv => RoutingFollows
  BY Zenon DEF Inv, FollowInv, LastChange, RoutingFollows, Changing, Tasks
<1> QED
  BY <1>1, InvAlways, PTL

-------------------------------------------------------------------------------
(* A half-open entry has at least one slot, and all that were configured.  *)
LEMMA SlotsFacts ==
    /\ Slots \in Nat \ {0}
    /\ HalfOpenMaxRequests > 0 => Slots = HalfOpenMaxRequests
    /\ \A n \in Nat : n < HalfOpenMaxRequests => n < Slots
  BY BreakerAssumption DEF Slots

(* What is_allowed() makes of an entry.                                    *)
LEMMA AllowedFacts ==
    ASSUME NEW e \in Entries
    PROVE  /\ AfterIsAllowed(e) \in Entries
           /\ IsAllowed(e) => /\ AfterIsAllowed(e).st # "open"
                              /\ AfterIsAllowed(e).st = "half_open"
                                   => AfterIsAllowed(e).active < Slots
           /\ ~IsAllowed(e) => AfterIsAllowed(e) = e
<1> DEFINE f == [e EXCEPT !.st = "half_open", !.successes = 0, !.active = 0, !.cooled = FALSE]
<1>1. f \in Entries /\ f.st = "half_open" /\ f.active = 0
  <2>1. 0 \in 0 .. SuccessThreshold /\ 0 \in 0 .. Slots
    BY BreakerAssumption, SlotsFacts
  <2> QED
    BY <2>1, Zenon DEF Entries
<1>2. AfterIsAllowed(e) = IF e.st = "open" /\ e.cooled THEN f ELSE e
  BY Zenon DEF AfterIsAllowed
<1> HIDE DEF f
<1>3. 0 < Slots
  BY SlotsFacts
<1>5. e.active < HalfOpenMaxRequests => e.active < Slots
  <2>1. e.active \in 0 .. Slots
    BY Zenon DEF Entries
  <2> QED
    BY <2>1, SlotsFacts
<1>4. e.st = "open" /\ e.cooled => IsAllowed(e)
  BY Zenon DEF IsAllowed
<1> QED
  BY <1>1, <1>2, <1>3, <1>4, <1>5, Zenon DEF IsAllowed

(* A request that begins takes a slot, one that ends gives one back.       *)
LEMMA RequestFacts ==
    ASSUME NEW e \in Entries
    PROVE  /\ (e.st = "half_open" => e.active < Slots)
              => BeginRequest(e) \in Entries /\ BeginRequest(e).st = e.st
           /\ EndRequest(e) \in Entries
           /\ EndRequest(e).st = e.st
           /\ EndRequest(e).active < Slots
           /\ EndRequest(e).active <= e.active
<1>0. e.active \in 0 .. Slots /\ Slots \in Nat \ {0}
  BY SlotsFacts, Zenon DEF Entries
<1>1. ASSUME e.st = "half_open" => e.active < Slots
      PROVE  BeginRequest(e) \in Entries /\ BeginRequest(e).st = e.st
  <2>1. CASE e.st = "half_open"
    <3>1. e.active + 1 \in 0 .. Slots
      BY <1>0, <1>1, <2>1
    <3>2. [e EXCEPT !.active = @ + 1] \in Entries /\ [e EXCEPT !.active = @ + 1].st = e.st
      BY <3>1, Zenon DEF Entries
    <3> QED
      BY <2>1, <3>2, Zenon DEF BeginRequest
  <2>2. CASE e.st # "half_open"
    BY <2>2, Zenon DEF BeginRequest
  <2> QED
    BY <2>1, <2>2, Zenon
<1>2. CASE e.active > 0
  <2>1. e.active - 1 \in 0 .. Slots
    BY <1>0, <1>2
  <2>2. /\ [e EXCEPT !.active = @ - 1] \in Entries
        /\ [e EXCEPT !.active = @ - 1].st = e.st
        /\ [e EXCEPT !.active = @ - 1].active = e.active - 1
    BY <2>1, Zenon DEF Entries
  <2>3. EndRequest(e) = [e EXCEPT !.active = @ - 1]
    BY <1>2, Zenon DEF EndRequest
  <2> QED
    BY <1>0, <1>1, <2>2, <2>3
<1>3. CASE ~(e.active > 0)
  BY <1>0, <1>1, <1>3 DEF EndRequest
<1> QED
  BY <1>2, <1>3, Zenon

(* What a result makes of an entry.                                        *)
LEMMA RecordFacts ==
    ASSUME NEW e \in Entries
    PROVE  /\ RecordSuccess(e) \in Entries
           /\ RecordSuccess(e).st = "open" => e.st = "open"
           /\ RecordSuccess(e).st = "half_open" => RecordSuccess(e).active = e.active
           /\ RecordFailure(e) \in Entries
           /\ RecordFailure(e).st # "half_open"
<1> USE BreakerAssumption, SlotsFacts
<1>9. 0 \in 0 .. FailureThreshold /\ 0 \in 0 .. SuccessThreshold /\ 0 \in 0 .. Slots
  OBVIOUS
<1>0. e.st \in {"closed", "open", "half_open"}
  BY Zenon DEF Entries
<1>1. /\ RecordSuccess(e) \in Entries
      /\ RecordSuccess(e).st = "open" => e.st = "open"
      /\ RecordSuccess(e).st = "half_open" => RecordSuccess(e).active = e.active
  <2>1. CASE e.st = "closed"
    <3>1. RecordSuccess(e) = [e EXCEPT !.failures = 0]
      BY <2>1, Zenon DEF RecordSuccess
    <3> QED
      BY <2>1, <3>1 DEF Entries
  <2>2. CASE e.st = "open"
    <3>1. RecordSuccess(e) = e
      BY <2>2, Zenon DEF RecordSuccess
    <3> QED
      BY <2>2, <3>1, Zenon
  <2>3. CASE e.st = "half_open" /\ e.successes + 1 < SuccessThreshold
    <3>1. RecordSuccess(e) = [e EXCEPT !.successes = @ + 1]
      BY <2>3 DEF RecordSuccess, Entries
    <3>2. e.successes + 1 \in 0 .. SuccessThreshold
      BY <2>3 DEF Entries
    <3> QED
      BY <2>3, <3>1, <3>2, Zenon DEF Entries
  <2>4. CASE e.st = "half_open" /\ ~(e.successes + 1 < SuccessThreshold)
    <3>1. RecordSuccess(e) = [e EXCEPT !.st = "closed", !.failures = 0, !.successes = 0, !.active = 0]
      BY <2>4 DEF RecordSuccess, Entries
    <3> QED
      BY <1>9, <3>1, Zenon DEF Entries
  <2> QED
    BY <1>0, <2>1, <2>2, <2>3, <2>4, Zenon
<1>2. Counted(e) \in Entries /\ Counted(e).st = e.st
  <2>1. (IF e.failures < FailureThreshold THEN e.failures + 1 ELSE e.failures) \in 0 .. FailureThreshold
    BY DEF Entries
  <2> QED
    BY <2>1, Zenon DEF Entries, Counted
<1>3. RecordFailure(e) \in Entries /\ RecordFailure(e).st # "half_open"
  <2> DEFINE f == Counted(e)
  <2>1. /\ [f EXCEPT !.st = "open", !.cooled = FALSE] \in Entries
        /\ [f EXCEPT !.st = "open", !.cooled = FALSE].st = "open"
    BY <1>2, Zenon DEF Entries
  <2>2. /\ [f EXCEPT !.st = "open", !.cooled = FALSE, !.successes = 0, !.active = 0] \in Entries
        /\ [f EXCEPT !.st = "open", !.cooled = FALSE, !.successes = 0, !.active = 0].st = "open"
    BY <1>2, <1>9, Zenon DEF Entries
  <2>3. f \in Entries /\ f.st = e.st
    BY <1>2, Zenon
  <2> HIDE DEF f
  <2>4. \/ RecordFailure(e) = [f EXCEPT !.st = "open", !.cooled = FALSE]
        \/ RecordFailure(e) = [f EXCEPT !.st = "open", !.cooled = FALSE, !.successes = 0, !.active = 0]
        \/ RecordFailure(e) = f /\ e.st # "half_open"
    BY Zenon DEF RecordFailure, f
  <2> QED
    BY <2>1, <2>2, <2>3, <2>4, Zenon
<1> QED
  BY <1>1, <1>3, Zenon

(* The tags in the order of the groups are tags of children.               *)
LEMMA ListedType == ASSUME NEW gs \in Groups PROVE Listed(gs) \in Seq(Children)
<1> DEFINE N == Len(gs)
           D == Seq(Children)
           Body(f, n) == IF n = 0 THEN <<>> ELSE f[n - 1] \o gs[n].outbounds
           step == [n \in 1 .. N |-> [d \in D |-> d \o gs[n].outbounds]]
<1>1. N \in Nat /\ \A n \in 1 .. N : gs[n].outbounds \in D
  <2> DEFINE G == [weight : Int, outbounds : Seq(Children)]
  <2>1. gs \in Seq(G)
    BY UrltestAssumption, Zenon
  <2>2. \A g \in G : g.outbounds \in Seq(Children)
    OBVIOUS
  <2> HIDE DEF G
  <2> QED
    BY <2>1, <2>2
<1>2. <<>> \in D /\ \A d \in D, n \in 1 .. N : d \o gs[n].outbounds \in D
  BY <1>1
<1>3. step \in [1 .. N -> [D -> D]]
  BY <1>2, Zenon
<1>4. \A n \in 1 .. N, d \in D : step[n][d] = d \o gs[n].outbounds
  OBVIOUS
<1>5. Listed(gs) = (CHOOSE f : f = [n \in 0 .. N |-> Body(f, n)])[N]
  BY Zenon DEF Listed
<1> HIDE DEF step, N, D
<1>6. \A n \in 1 .. N : n - 1 \in 0 .. N /\ n \in 0 .. N /\ n # 0
  BY <1>1
<1>7. \E f : f = [n \in 0 .. N |-> Body(f, n)]
  <2>1. PICK f \in [0 .. N -> D] : Iterates(f, N, <<>>, step)
    <3>1. N \in Nat /\ <<>> \in D
      BY <1>1, <1>2, Zenon
    <3> HIDE DEF Body
    <3> QED
      BY <3>1, <1>3, Recursion, Zenon
  <2>2. ASSUME NEW n \in 0 .. N PROVE f[n] = Body(f, n)
    <3>1. CASE n = 0
      BY <2>1, <3>1, Zenon DEF Iterates
    <3>2. CASE n \in 1 .. N
      BY <1>4, <1>6, <2>1, <3>2, Zenon DEF Iterates
    <3> QED
      BY <1>1, <3>1, <3>2
  <2> HIDE DEF Body
  <2> QED
    BY <2>1, <2>2, Zenon
<1>8. PICK g : g = [n \in 0 .. N |-> Body(g, n)] /\ Listed(gs) = g[N]
  <2> HIDE DEF Body
  <2> QED
    BY <1>5, <1>7, Zenon
<1>9. \A n \in 0 .. N : g[n] = Body(g, n)
  <2> HIDE DEF Body
  <2> QED
    BY <1>8, Zenon
<1>10. g[N] \in D
  <2> DEFINE S == {n \in 0 .. N : g[n] \in D}
  <2>1. g[0] \in D
    BY <1>1, <1>2, <1>9
  <2>2. ASSUME NEW n \in 0 .. N, n \in S, n < N PROVE n + 1 \in S
    <3>1. n + 1 \in 1 .. N /\ n + 1 \in 0 .. N /\ (n + 1) - 1 = n /\ n + 1 # 0
      BY <1>1, <2>2
    <3>2. g[n + 1] = g[n] \o gs[n + 1].outbounds
      BY <1>9, <3>1, Zenon
    <3> QED
      BY <1>2, <2>2, <3>1, <3>2, Zenon
  <2>3. 0 \in S
    BY <1>1, <2>1
  <2>4. \A n \in 0 .. N : n \in S
    <3> HIDE DEF S
    <3> QED
      BY <1>1, <2>2, <2>3, UpTo, Zenon
  <2> QED
    BY <1>1, <2>4
<1> QED
  BY <1>8, <1>10, Zenon DEF D

Works == [cb : [Children -> Entries], todo : Seq(Children)]
Full(e) == e.st = "half_open" /\ e.active = Slots

(* What queue_probe_unlocked() has done so far to a breaker that had cb:   *)
(* no circuit opens, the candidates' are not open, and who has no slot     *)
(* left is a candidate.                                                    *)
Queueing(cb, w) ==
    \A c \in Children :
        /\ w.cb[c].st = "open" => cb[c].st = "open"
        /\ c \in ToSet(w.todo) => w.cb[c].st # "open"
        /\ Full(w.cb[c]) => c \in ToSet(w.todo)

(* One child of the loop.                                                  *)
LEMMA ConsiderFacts ==
    ASSUME NEW cb, NEW w \in Works, NEW c \in Children, Queueing(cb, w)
    PROVE  Consider(w, c) \in Works /\ Queueing(cb, Consider(w, c))
<1> DEFINE e == w.cb[c]
           asked == AfterIsAllowed(e)
<1>1. e \in Entries /\ w.cb \in [Children -> Entries] /\ w.todo \in Seq(Children)
  BY Zenon DEF Works
<1>2. CASE c \notin Marked
  BY <1>2, Zenon DEF Consider
<1>3. CASE c \in Marked /\ IsAllowed(e)
  <2> DEFINE b == BeginRequest(asked)
             f == [w.cb EXCEPT ![c] = b]
             t == Append(w.todo, c)
  <2>1. b \in Entries /\ b.st # "open"
    <3>1. asked \in Entries /\ asked.st # "open"
          /\ (asked.st = "half_open" => asked.active < Slots)
      BY <1>1, <1>3, AllowedFacts, Zenon
    <3> HIDE DEF asked
    <3> QED
      BY <3>1, RequestFacts, Zenon
  <2>2. Consider(w, c) = [cb |-> f, todo |-> t]
    BY <1>3, Zenon DEF Consider
  <2>3. t \in Seq(Children) /\ ToSet(t) = ToSet(w.todo) \cup {c}
    BY <1>1, ToSetAppend
  <2> HIDE DEF b, t, asked
  <2>4. f \in [Children -> Entries] /\ f[c] = b /\ \A d \in Children : d # c => f[d] = w.cb[d]
    BY <1>1, <2>1, Zenon
  <2> HIDE DEF f
  <2>5. Consider(w, c) \in Works /\ Consider(w, c).cb = f /\ Consider(w, c).todo = t
    BY <2>2, <2>3, <2>4 DEF Works
  <2> QED
    BY <2>1, <2>3, <2>4, <2>5, Zenon DEF Queueing
<1>4. CASE c \in Marked /\ ~IsAllowed(e)
  <2>1. asked = e
    BY <1>1, <1>4, AllowedFacts, Zenon
  <2>2. Consider(w, c) = [w EXCEPT !.cb[c] = e]
    BY <1>4, <2>1, Zenon DEF Consider
  <2>3. [w.cb EXCEPT ![c] = e] = w.cb
    BY <1>1, Zenon
  <2>4. [w EXCEPT !.cb = w.cb] = w
    BY Zenon DEF Works
  <2>5. [w EXCEPT !.cb[c] = e] = [w EXCEPT !.cb = [w.cb EXCEPT ![c] = e]]
    BY Zenon DEF Works
  <2> QED
    BY <2>2, <2>3, <2>4, <2>5, Zenon
<1> QED
  BY <1>2, <1>3, <1>4, Zenon

(* The candidates of queue_probe_unlocked(), when every half-open circuit  *)
(* has a free slot before.                                                 *)
LEMMA CandidatesFacts ==
    ASSUME NEW s, s.cb \in [Children -> Entries], s.groups \in Groups,
           \A c \in Children : ~Full(s.cb[c])
    PROVE  Candidates(s) \in Works /\ Queueing(s.cb, Candidates(s))
<1> DEFINE tags == Listed(s.groups)
           N == Len(tags)
           D == {w \in Works : Queueing(s.cb, w)}
           x == [cb |-> s.cb, todo |-> <<>>]
           Body(f, n) == IF n = 0 THEN x ELSE Consider(f[n - 1], tags[n])
           step == [n \in 1 .. N |-> [d \in D |-> Consider(d, tags[n])]]
<1>1. N \in Nat /\ \A n \in 1 .. N : tags[n] \in Children
  <2>1. tags \in Seq(Children)
    BY ListedType, Zenon
  <2> HIDE DEF tags
  <2> QED
    BY <2>1
<1>2. x \in D
  <2>1. x \in Works /\ x.cb = s.cb /\ ToSet(x.todo) = {}
    BY DEF Works, ToSet
  <2> HIDE DEF x
  <2> QED
    BY <2>1, Zenon DEF Queueing
<1>3. \A d \in D, n \in 1 .. N : Consider(d, tags[n]) \in D
  BY <1>1, ConsiderFacts, Zenon
<1>4. Candidates(s) = (CHOOSE f : f = [n \in 0 .. N |-> Body(f, n)])[N]
  BY Zenon DEF Candidates
<1> HIDE DEF N, D, x, tags
<1>5. step \in [1 .. N -> [D -> D]]
  BY <1>3, Zenon
<1>6. \A n \in 1 .. N, d \in D : step[n][d] = Consider(d, tags[n])
  OBVIOUS
<1> HIDE DEF step
<1>7. \A n \in 1 .. N : n - 1 \in 0 .. N /\ n \in 0 .. N /\ n # 0
  BY <1>1
<1>8. \E f : f = [n \in 0 .. N |-> Body(f, n)]
  <2>1. PICK f \in [0 .. N -> D] : Iterates(f, N, x, step)
    <3> HIDE DEF Body
    <3> QED
      BY <1>1, <1>2, <1>5, Recursion, Zenon
  <2>2. ASSUME NEW n \in 0 .. N PROVE f[n] = Body(f, n)
    <3>1. CASE n = 0
      BY <2>1, <3>1, Zenon DEF Iterates
    <3>2. CASE n \in 1 .. N
      BY <1>6, <1>7, <2>1, <3>2, Zenon DEF Iterates
    <3> QED
      BY <1>1, <3>1, <3>2
  <2> HIDE DEF Body
  <2> QED
    BY <2>1, <2>2, Zenon
<1>9. PICK g : g = [n \in 0 .. N |-> Body(g, n)] /\ Candidates(s) = g[N]
  <2> HIDE DEF Body
  <2> QED
    BY <1>4, <1>8, Zenon
<1>10. \A n \in 0 .. N : g[n] = Body(g, n)
  <2> HIDE DEF Body
  <2> QED
    BY <1>9, Zenon
<1>11. g[N] \in D
  <2> DEFINE S == {n \in 0 .. N : g[n] \in D}
  <2>1. g[0] \in D
    BY <1>1, <1>2, <1>10
  <2>2. ASSUME NEW n \in 0 .. N, n \in S, n < N PROVE n + 1 \in S
    <3>1. n + 1 \in 1 .. N /\ n + 1 \in 0 .. N /\ (n + 1) - 1 = n /\ n + 1 # 0
      BY <1>1, <2>2
    <3>2. g[n + 1] = Consider(g[n], tags[n + 1])
      BY <1>10, <3>1, Zenon
    <3> QED
      BY <1>3, <2>2, <3>1, <3>2, Zenon
  <2>3. 0 \in S
    BY <1>1, <2>1
  <2>4. \A n \in 0 .. N : n \in S
    <3> HIDE DEF S
    <3> QED
      BY <1>1, <2>2, <2>3, UpTo, Zenon
  <2> QED
    BY <1>1, <2>4
<1> QED
  BY <1>9, <1>11, Zenon DEF D

(* The requests of the candidates end: no circuit changes its state, and   *)
(* every candidate has a free slot.                                        *)
LEMMA EndAllFacts ==
    ASSUME NEW cb \in [Children -> Entries], NEW todo \in Seq(Children)
    PROVE  /\ EndAll(cb, todo) \in [Children -> Entries]
           /\ \A c \in Children :
                /\ EndAll(cb, todo)[c].st = cb[c].st
                /\ EndAll(cb, todo)[c].active <= cb[c].active
                /\ c \in ToSet(todo) => EndAll(cb, todo)[c].active < Slots
<1> DEFINE N == Len(todo)
           D == [Children -> Entries]
           Ended(d, c) == [d EXCEPT ![c] = EndRequest(@)]
           Body(f, n) == IF n = 0 THEN cb ELSE [f[n - 1] EXCEPT ![todo[n]] = EndRequest(@)]
           step == [n \in 1 .. N |-> [d \in D |-> Ended(d, todo[n])]]
           Ends(d, n) ==
               /\ d \in D
               /\ \A c \in Children : d[c].st = cb[c].st /\ d[c].active <= cb[c].active
               /\ \A k \in 1 .. n : d[todo[k]].active < Slots
<1>1. N \in Nat /\ \A n \in 1 .. N : todo[n] \in Children
  OBVIOUS
<1>2. \A e \in Entries : e.active \in Nat
  BY SlotsFacts DEF Entries
<1>3. ASSUME NEW d \in D, NEW c \in Children
      PROVE  /\ Ended(d, c) \in D /\ Ended(d, c)[c] = EndRequest(d[c])
             /\ \A b \in Children : b # c => Ended(d, c)[b] = d[b]
  BY RequestFacts, Zenon
<1>4. EndAll(cb, todo) = (CHOOSE f : f = [n \in 0 .. N |-> Body(f, n)])[N]
  BY Zenon DEF EndAll
<1>5. step \in [1 .. N -> [D -> D]]
  <2> HIDE DEF D, Ended
  <2> QED
    BY <1>1, <1>3, Zenon
<1>6. \A n \in 1 .. N, d \in D : step[n][d] = Ended(d, todo[n])
  OBVIOUS
<1> HIDE DEF N, step
<1>7. \A n \in 1 .. N : n - 1 \in 0 .. N /\ n \in 0 .. N /\ n # 0
  BY <1>1
<1>8. \E f : f = [n \in 0 .. N |-> Body(f, n)]
  <2>1. PICK f \in [0 .. N -> D] : Iterates(f, N, cb, step)
    <3> HIDE DEF Body, D
    <3>1. cb \in D
      BY Zenon DEF D
    <3> QED
      BY <1>1, <1>5, <3>1, Recursion, Zenon
  <2>2. ASSUME NEW n \in 0 .. N PROVE f[n] = Body(f, n)
    <3>1. CASE n = 0
      BY <2>1, <3>1, Zenon DEF Iterates
    <3>2. CASE n \in 1 .. N
      BY <1>6, <1>7, <2>1, <3>2, Zenon DEF Iterates
    <3> QED
      BY <1>1, <3>1, <3>2
  <2> HIDE DEF Body
  <2> QED
    BY <2>1, <2>2, Zenon
<1>9. PICK g : g = [n \in 0 .. N |-> Body(g, n)] /\ EndAll(cb, todo) = g[N]
  <2> HIDE DEF Body
  <2> QED
    BY <1>4, <1>8, Zenon
<1>10. \A n \in 0 .. N : g[n] = Body(g, n)
  <2> HIDE DEF Body
  <2> QED
    BY <1>9, Zenon
<1>11. Ends(g[N], N)
  <2> DEFINE S == {n \in 0 .. N : Ends(g[n], n)}
  <2>1. Ends(g[0], 0)
    <3>1. 0 \in 0 .. N
      BY <1>1
    <3>2. g[0] = Body(g, 0)
      BY <1>10, <3>1, Zenon
    <3>3. g[0] = cb
      BY <3>2, Zenon
    <3>4. \A c \in Children : cb[c].active <= cb[c].active
      BY <1>2
    <3> QED
      BY <3>3, <3>4
  <2>2. ASSUME NEW n \in 0 .. N, n \in S, n < N PROVE n + 1 \in S
    <3>1. n + 1 \in 1 .. N /\ n + 1 \in 0 .. N /\ (n + 1) - 1 = n /\ n + 1 # 0
      BY <1>1, <2>2
    <3>2. g[n + 1] = Ended(g[n], todo[n + 1])
      BY <1>10, <3>1, Zenon
    <3> DEFINE c == todo[n + 1]
               e == g[n][c]
    <3>3. c \in Children /\ g[n] \in D
      BY <1>1, <2>2, <3>1, Zenon
    <3>4. /\ g[n + 1] \in D /\ g[n + 1][c] = EndRequest(e)
          /\ \A b \in Children : b # c => g[n + 1][b] = g[n][b]
      <4>1. g[n + 1] = Ended(g[n], c)
        BY <3>2, Zenon
      <4> HIDE DEF c, D, Ended
      <4>2. /\ Ended(g[n], c) \in D /\ Ended(g[n], c)[c] = EndRequest(g[n][c])
            /\ \A b \in Children : b # c => Ended(g[n], c)[b] = g[n][b]
        BY <1>3, <3>3, Zenon
      <4> QED
        BY <4>1, <4>2, Zenon
    <3>5. /\ EndRequest(e).st = e.st /\ EndRequest(e).active <= e.active
          /\ EndRequest(e).active < Slots
          /\ e \in Entries /\ EndRequest(e) \in Entries
      BY <3>3, RequestFacts, Zenon
    <3>6. \A b \in Children : g[n + 1][b].st = cb[b].st /\ g[n + 1][b].active <= cb[b].active
      <4>1. e.active \in Nat /\ EndRequest(e).active \in Nat /\ cb[c].active \in Nat
        BY <1>2, <3>3, <3>5, Zenon
      <4>2. e.st = cb[c].st /\ e.active <= cb[c].active
        BY <2>2, <3>3, Zenon
      <4> HIDE DEF e, c
      <4> QED
        BY <2>2, <3>4, <3>5, <4>1, <4>2
    <3>7. \A k \in 1 .. n + 1 : g[n + 1][todo[k]].active < Slots
      <4> TAKE k \in 1 .. n + 1
      <4>1. CASE todo[k] = c
        <5> HIDE DEF c, e
        <5> QED
          BY <3>4, <3>5, <4>1
      <4>2. CASE todo[k] # c
        <5>1. k \in 1 .. n /\ k \in 1 .. N
          BY <1>1, <2>2, <4>2
        <5>2. todo[k] \in Children /\ g[n][todo[k]].active < Slots
          BY <1>1, <2>2, <5>1, Zenon
        <5> HIDE DEF c
        <5> QED
          BY <3>4, <4>2, <5>2, Zenon
      <4> QED
        BY <4>1, <4>2, Zenon
    <3> QED
      BY <3>1, <3>4, <3>6, <3>7, Zenon
  <2>3. 0 \in S
    BY <1>1, <2>1
  <2>4. \A n \in 0 .. N : n \in S
    <3> HIDE DEF S
    <3> QED
      BY <1>1, <2>2, <2>3, UpTo, Zenon
  <2> QED
    BY <1>1, <2>4
<1>12. \A c \in ToSet(todo) : \E k \in 1 .. N : c = todo[k]
  BY DEF ToSet, N
<1> QED
  BY <1>9, <1>11, <1>12, Zenon

(* What select_outbound() reads of a state.                                *)
Selectable(s) ==
    /\ s.groups \in Groups
    /\ s.res \in [Children -> Results \cup {None}]

(* The groups are numbered, and list children.                             *)
LEMMA GroupsFacts ==
    ASSUME NEW s, Selectable(s)
    PROVE  /\ Len(s.groups) \in Nat /\ DOMAIN s.groups = 1 .. Len(s.groups)
           /\ DOMAIN s.groups \subseteq Nat
           /\ \A i \in DOMAIN s.groups :
                /\ Weight(s, i) \in Int
                /\ DOMAIN s.groups[i].outbounds \subseteq Nat
                /\ ToSet(s.groups[i].outbounds) \subseteq Children
<1> DEFINE G == [weight : Int, outbounds : Seq(Children)]
<1>1. s.groups \in Seq(G)
  BY UrltestAssumption, Zenon DEF Selectable
<1>2. \A g \in G : g.outbounds \in Seq(Children) /\ g.weight \in Int
  OBVIOUS
<1> HIDE DEF G
<1>3. /\ Len(s.groups) \in Nat /\ DOMAIN s.groups = 1 .. Len(s.groups)
      /\ \A i \in DOMAIN s.groups : i \in Nat /\ s.groups[i] \in G
  BY <1>1
<1>4. \A q \in Seq(Children) : DOMAIN q \subseteq Nat /\ ToSet(q) \subseteq Children
  BY DEF ToSet
<1>5. \A i \in DOMAIN s.groups : Weight(s, i) \in Int
  <2>1. \A n \in Int : n % Word \in Int
    BY UrltestAssumption
  <2> QED
    BY <1>2, <1>3, <2>1, Zenon DEF Weight
<1> QED
  BY <1>2, <1>3, <1>4, <1>5, Zenon

(* Of the groups with a child that is fast enough one goes before all      *)
(* others.                                                                 *)
LEMMA PreferredFacts ==
    ASSUME NEW s, Selectable(s), OpenGroups(s) # {}
    PROVE  /\ Preferred(s) \in OpenGroups(s)
           /\ \A j \in OpenGroups(s) : Before(s, Preferred(s), j)
<1> DEFINE O == OpenGroups(s)
           N == Len(s.groups)
           IsFirst(i, n) == i \in O /\ i <= n /\ \A j \in O : j <= n => Before(s, i, j)
           S == {n \in 0 .. N : (\E j \in O : j <= n) => \E i \in O : IsFirst(i, n)}
<1>1. /\ N \in Nat
      /\ \A i \in O : i \in 1 .. N /\ Weight(s, i) \in Int
  BY GroupsFacts, Zenon DEF OpenGroups
<1> HIDE DEF O, N
<1>2. 0 \in S
  BY <1>1
<1>3. \A n \in 0 .. N : n \in S /\ n < N => n + 1 \in S
  <2> SUFFICES ASSUME NEW n \in 0 .. N, n \in S, n < N, \E j \in O : j <= n + 1
               PROVE  \E i \in O : IsFirst(i, n + 1)
    BY <1>1
  <2>1. \A j \in O : j <= n + 1 <=> (j <= n \/ j = n + 1)
    BY <1>1
  <2>2. CASE n + 1 \notin O
    BY <2>1, <2>2
  <2>3. CASE n + 1 \in O /\ ~ \E j \in O : j <= n
    <3>1. Before(s, n + 1, n + 1)
      BY <1>1, <2>3 DEF Before
    <3> QED
      BY <2>1, <2>3, <3>1
  <2>4. CASE n + 1 \in O /\ \E j \in O : j <= n
    <3>1. PICK i \in O : IsFirst(i, n)
      BY <2>4
    <3>2. CASE Weight(s, i) <= Weight(s, n + 1)
      <4>1. Before(s, i, n + 1)
        BY <1>1, <2>4, <3>1, <3>2 DEF Before
      <4> QED
        BY <2>1, <3>1, <4>1
    <3>3. CASE Weight(s, n + 1) < Weight(s, i)
      <4>1. Before(s, n + 1, n + 1) /\ \A j \in O : Before(s, i, j) => Before(s, n + 1, j)
        BY <1>1, <2>4, <3>1, <3>3 DEF Before
      <4> QED
        BY <2>1, <2>4, <3>1, <4>1
    <3> QED
      BY <1>1, <2>4, <3>2, <3>3
  <2> QED
    BY <2>2, <2>3, <2>4
<1>4. N \in S
  <2> HIDE DEF S
  <2>1. \A n \in 0 .. N : n \in S
    BY <1>1, <1>2, <1>3, UpTo, Zenon
  <2> QED
    BY <1>1, <2>1
<1>5. PICK i \in O : IsFirst(i, N)
  BY <1>1, <1>4 DEF O
<1>6. \A j \in O : Before(s, i, j)
  BY <1>1, <1>5
<1> QED
  BY <1>5, <1>6, Zenon DEF Preferred, O

(* The sums with the tolerance: a group whose sum does not wrap around is  *)
(* open, and what is fast enough is within the tolerance.                  *)
LEMMA ToleranceFacts ==
    ASSUME NEW s, NEW i
    PROVE  /\ Comparable(s, i) => \E c \in GroupUsable(s, i) : FastEnough(s, i, c)
           /\ \A c : FastEnough(s, i, c) =>
                 \A d \in GroupUsable(s, i) : s.res[c] <= s.res[d] + ToleranceMs
<1>1. ToleranceMs \in Nat /\ Word \in Nat \ {0} /\ Latencies \subseteq Nat
  BY UrltestAssumption DEF ToleranceMs
<1>2. \A c \in GroupUsable(s, i) : Usable(s, c) /\ s.res[c] \in Nat
  BY <1>1, Zenon DEF GroupUsable, Usable
<1>3. \A n \in Nat : /\ n + ToleranceMs < Word => n <= (n + ToleranceMs) % Word
                      /\ (n + ToleranceMs) % Word <= n + ToleranceMs
                      /\ (n + ToleranceMs) % Word \in Nat
  BY <1>1
<1>4. ASSUME Comparable(s, i) PROVE \E c \in GroupUsable(s, i) : FastEnough(s, i, c)
  <2>1. PICK c \in GroupUsable(s, i) : Fastest(s, i, c) /\ s.res[c] + ToleranceMs < Word
    BY <1>4, Zenon DEF Comparable
  <2> QED
    BY <1>2, <1>3, <2>1, Zenon DEF FastEnough
<1>5. ASSUME NEW c, FastEnough(s, i, c), NEW d \in GroupUsable(s, i)
      PROVE  s.res[c] <= s.res[d] + ToleranceMs
  <2>1. PICK f \in GroupUsable(s, i) :
            Fastest(s, i, f) /\ s.res[c] <= (s.res[f] + ToleranceMs) % Word
    BY <1>5, Zenon DEF FastEnough
  <2>2. s.res[f] <= s.res[d] /\ s.res[f] \in Nat /\ s.res[d] \in Nat /\ s.res[c] \in Nat
    BY <1>1, <1>2, <1>5, <2>1, Zenon DEF Fastest, FastEnough, Usable
  <2>3. /\ (s.res[f] + ToleranceMs) % Word <= s.res[f] + ToleranceMs
        /\ (s.res[f] + ToleranceMs) % Word \in Nat
    BY <1>1, <2>2
  <2> QED
    BY <1>1, <2>1, <2>2, <2>3
<1> QED
  BY <1>4, <1>5, Zenon

(* Of an open group the first child that is fast enough is among its       *)
(* children.                                                               *)
LEMMA FirstFastFacts ==
    ASSUME NEW s, Selectable(s), NEW g \in OpenGroups(s)
    PROVE  /\ FirstFast(s, g) \in ToSet(s.groups[g].outbounds)
           /\ FastEnough(s, g, FirstFast(s, g))
<1> DEFINE outs == s.groups[g].outbounds
           fast == {k \in DOMAIN outs : FastEnough(s, g, outs[k])}
<1>1. g \in DOMAIN s.groups
  BY Zenon DEF OpenGroups
<1>4. PICK c \in GroupUsable(s, g) : FastEnough(s, g, c)
  BY Zenon DEF OpenGroups
<1>6. PICK k \in DOMAIN outs : c = outs[k]
  BY <1>4, Zenon DEF GroupUsable, ToSet
<1>7. fast # {} /\ fast \subseteq Nat
  BY <1>1, <1>4, <1>6, GroupsFacts, Zenon
<1>8. FirstFast(s, g) = outs[CHOOSE m \in fast : \A n \in fast : m <= n]
  BY Zenon DEF FirstFast
<1> HIDE DEF fast
<1>9. PICK m \in fast : FirstFast(s, g) = outs[m]
  <2>1. \E m \in fast : \A n \in fast : m <= n
    BY <1>7, Least, Zenon
  <2> QED
    BY <1>8, <2>1, Zenon
<1> QED
  BY <1>9, Zenon DEF fast, ToSet

(* What SelectionBest says of a state s and the selection sel.             *)
Best(s, sel) ==
    IF sel = None THEN \A i \in DOMAIN s.groups : ~Comparable(s, i)
    ELSE \E i \in DOMAIN s.groups :
            /\ sel \in GroupUsable(s, i)
            /\ \A d \in GroupUsable(s, i) : s.res[sel] <= s.res[d] + ToleranceMs
            /\ \A j \in DOMAIN s.groups : Comparable(s, j) => Before(s, i, j)

(* select_outbound() returns the best, if any group is comparable.         *)
LEMMA SelectFacts ==
    ASSUME NEW s, Selectable(s)
    PROVE  Best(s, SelectOutbound(s)) /\ SelectOutbound(s) \in Selections
<1>0. \A j \in DOMAIN s.groups : Comparable(s, j) => j \in OpenGroups(s)
  BY ToleranceFacts, Zenon DEF OpenGroups
<1>1. CASE OpenGroups(s) = {}
  BY <1>0, <1>1, Zenon DEF SelectOutbound, Best, Selections
<1>2. CASE OpenGroups(s) # {}
  <2> DEFINE i == Preferred(s)
             sel == SelectOutbound(s)
  <2>1. i \in OpenGroups(s) /\ \A j \in OpenGroups(s) : Before(s, i, j)
    BY <1>2, PreferredFacts, Zenon
  <2>2. sel \in ToSet(s.groups[i].outbounds) /\ FastEnough(s, i, sel)
    <3> HIDE DEF i
    <3>1. CASE s.sel \in ToSet(s.groups[i].outbounds) /\ FastEnough(s, i, s.sel)
      BY <1>2, <3>1, Zenon DEF SelectOutbound, i
    <3>2. CASE ~(s.sel \in ToSet(s.groups[i].outbounds) /\ FastEnough(s, i, s.sel))
      <4>1. sel = FirstFast(s, i)
        BY <1>2, <3>2, Zenon DEF SelectOutbound, i
      <4> HIDE DEF sel
      <4> QED
        BY <2>1, <4>1, FirstFastFacts, Zenon
    <3> QED
      BY <3>1, <3>2, Zenon
  <2> HIDE DEF i, sel
  <2>3. i \in DOMAIN s.groups
    BY <2>1, Zenon DEF OpenGroups
  <2>4. sel \in Children /\ sel # None
    BY <2>2, <2>3, GroupsFacts, UrltestAssumption, Zenon
  <2>5. /\ sel \in GroupUsable(s, i)
        /\ \A d \in GroupUsable(s, i) : s.res[sel] <= s.res[d] + ToleranceMs
    BY <2>2, ToleranceFacts, Zenon DEF FastEnough, GroupUsable
  <2>6. \A j \in DOMAIN s.groups : Comparable(s, j) => Before(s, i, j)
    BY <1>0, <2>1, Zenon
  <2>7. Best(s, sel)
    BY <2>3, <2>4, <2>5, <2>6, Zenon DEF Best
  <2> QED
    BY <2>4, <2>7, Zenon DEF sel, Selections
<1> QED
  BY <1>1, <1>2, Zenon

-------------------------------------------------------------------------------
Answers == [Children -> Results \cup {None}]
Answered(res) == {c \in Children : res[c] # None}
Asked(p) == ToSet(p.todo) \cup Answered(p.res)

(* An open circuit has a failed result.                                    *)
OpensFailed(s) == \A c \in Children : s.cb[c].st = "open" => s.res[c] = Failed

(* A state, its types and its selection.                                   *)
Sound(s) ==
    /\ StateShape(s)
    /\ s.cb \in [Children -> Entries] /\ s.res \in Answers /\ s.groups \in Groups
    /\ OpensFailed(s) /\ Best(s, s.sel)

(* Those that were asked are the ones with a slot taken, at least the ones *)
(* with none left, and no circuit of theirs opens meanwhile.               *)
Covers(s, asked) ==
    \A c \in Children : /\ Full(s.cb[c]) => c \in asked
                        /\ c \in asked => s.cb[c].st # "open"

AnswersInv ==
    /\ \A p \in probes : p.todo \in Seq(Children) /\ p.res \in Answers
    /\ \A i \in DOMAIN control : control[i].kind = "commit" => control[i].res \in Answers

(* A generation is probed once and committed once.                         *)
OnceInv ==
    /\ \A p, q \in probes : p.gen = q.gen => p = q
    /\ \A i, j \in DOMAIN control :
          control[i].kind = "commit" /\ control[j].kind = "commit"
            /\ control[i].gen = control[j].gen => i = j
    /\ \A p \in probes, i \in DOMAIN control :
          control[i].kind = "commit" => p.gen # control[i].gen

SlotInv ==
    state # None =>
        /\ Sound(state)
        /\ ~state.inflight =>
              /\ \A c \in Children : ~Full(state.cb[c])
              /\ \A p \in probes : p.gen # state.gen
              /\ \A i \in DOMAIN control :
                    control[i].kind = "commit" => control[i].gen # state.gen
        /\ \A p \in probes : p.gen = state.gen => Covers(state, Asked(p))
        /\ \A i \in DOMAIN control :
              control[i].kind = "commit" /\ control[i].gen = state.gen
                => Covers(state, Answered(control[i].res))

BreakerInv == AnswersInv /\ OnceInv /\ SlotInv

(* When no circuit opens or closes, what was best is best.                 *)
LEMMA BestKept ==
    ASSUME NEW s, NEW t, s.groups \in Groups, s.res \in Answers, OpensFailed(s), OpensFailed(t),
           t.groups = s.groups, t.res = s.res, NEW sel, Best(s, sel)
    PROVE  Best(t, sel)
<1>0. Selectable(s)
  BY Zenon DEF Selectable, Answers
<1>1. \A c \in Children : Usable(s, c) <=> Usable(t, c)
  BY UrltestAssumption, Zenon DEF Usable, OpensFailed
<1>2. \A i \in DOMAIN s.groups : GroupUsable(s, i) = GroupUsable(t, i)
  BY <1>0, <1>1, GroupsFacts, Zenon DEF GroupUsable
<1>3. \A i \in DOMAIN s.groups : Comparable(s, i) <=> Comparable(t, i)
  BY <1>2, Zenon DEF Comparable, Fastest
<1>4. \A i, j \in DOMAIN s.groups : Before(s, i, j) => Before(t, i, j)
  BY Zenon DEF Before, Weight
<1>5. CASE sel = None
  BY <1>3, <1>5, Zenon DEF Best
<1>6. CASE sel # None
  BY <1>2, <1>3, <1>4, <1>6, Zenon DEF Best
<1> QED
  BY <1>5, <1>6, Zenon

(* queue_probe_unlocked(), whether the executor takes the probe or not.    *)
LEMMA QueueKeeps ==
    ASSUME Inv, BreakerInv, NEW s, Sound(s), \A c \in Children : ~Full(s.cb[c]),
           QueueProbe(s), control' = control
    PROVE  BreakerInv'
<1> DEFINE w == Candidates(s)
           ended == EndAll(w.cb, w.todo)
           taken == [s EXCEPT !.inflight = TRUE, !.gen = generation, !.cb = w.cb]
           refused == [taken EXCEPT !.inflight = FALSE, !.cb = ended]
           new == [gen |-> generation, todo |-> w.todo, res |-> [c \in Children |-> None],
                   epoch |-> epoch']
<1>1. \/ state' = taken /\ probes' = probes \cup {new}
      \/ state' = refused /\ probes' = probes
  BY Zenon DEF QueueProbe
<1>2. w \in Works /\ Queueing(s.cb, w)
  BY CandidatesFacts, Zenon DEF Sound
<1>3. /\ new.gen = generation /\ new.todo = w.todo /\ new.res = [c \in Children |-> None]
  OBVIOUS
<1>4. new.res \in Answers /\ Answered(new.res) = {}
  BY <1>3, Zenon DEF Answers, Answered
<1> HIDE DEF w, new
<1>5. /\ w.cb \in [Children -> Entries] /\ w.todo \in Seq(Children)
      /\ ended \in [Children -> Entries]
      /\ \A c \in Children : ended[c].st = w.cb[c].st /\ ended[c].active <= w.cb[c].active
                             /\ (c \in ToSet(w.todo) => ended[c].active < Slots)
  <2>1. w.cb \in [Children -> Entries] /\ w.todo \in Seq(Children)
    BY <1>2, Zenon DEF Works
  <2> QED
    BY <2>1, EndAllFacts, Zenon
<1> HIDE DEF ended
<1>6. StateShape(taken)
  BY Zenon DEF StateShape, Sound
<1>7. /\ taken.gen = generation /\ taken.inflight = TRUE /\ taken.cb = w.cb
      /\ taken.res = s.res /\ taken.groups = s.groups /\ taken.sel = s.sel
  BY Zenon DEF StateShape, Sound
<1> HIDE DEF taken
<1>8. StateShape(refused)
  BY <1>6, Zenon DEF StateShape
<1>9. /\ refused.gen = generation /\ refused.cb = ended
      /\ refused.res = s.res /\ refused.groups = s.groups /\ refused.sel = s.sel
  BY <1>6, <1>7, Zenon DEF StateShape
<1> HIDE DEF refused
<1>10. \A c \in Children : w.cb[c].st = "open" => s.res[c] = Failed
  BY <1>2, Zenon DEF Sound, OpensFailed, Queueing
<1>11. Sound(taken)
  <2>1. OpensFailed(taken)
    BY <1>7, <1>10, Zenon DEF OpensFailed
  <2>2. Best(taken, s.sel)
    BY <1>7, <2>1, BestKept, Zenon DEF Sound
  <2> QED
    BY <1>5, <1>6, <1>7, <2>1, <2>2 DEF Sound
<1>12. Sound(refused)
  <2>1. OpensFailed(refused)
    BY <1>5, <1>9, <1>10, Zenon DEF OpensFailed
  <2>2. Best(refused, s.sel)
    BY <1>9, <2>1, BestKept, Zenon DEF Sound
  <2> QED
    BY <1>5, <1>8, <1>9, <2>1, <2>2, Zenon DEF Sound
<1>13. \A c \in Children : ~Full(refused.cb[c])
  <2> TAKE c \in Children
  <2>1. w.cb[c].active \in 0 .. Slots /\ ended[c].active \in 0 .. Slots
        /\ Slots \in Nat
    BY <1>5, SlotsFacts, Zenon DEF Entries
  <2>2. Full(w.cb[c]) => c \in ToSet(w.todo)
    BY <1>2, Zenon DEF Queueing
  <2> QED
    BY <1>5, <1>9, <2>1, <2>2 DEF Full
<1>14. Covers(taken, Asked(new))
  BY <1>2, <1>3, <1>4, <1>7 DEF Covers, Asked, Queueing
<1>15. /\ \A p \in probes : p.gen # generation
       /\ \A i \in DOMAIN control : control[i].kind = "commit" => control[i].gen # generation
  BY DEF Inv, GenerationInv, Given, ShapeInv
<1>16. AnswersInv'
  BY <1>1, <1>3, <1>4, <1>5, Zenon DEF BreakerInv, AnswersInv
<1>17. OnceInv'
  BY <1>1, <1>3, <1>15, Zenon DEF BreakerInv, OnceInv
<1>18. SlotInv'
  <2>1. CASE state' = taken /\ probes' = probes \cup {new}
    BY <2>1, <1>3, <1>7, <1>11, <1>14, <1>15 DEF SlotInv
  <2>2. CASE state' = refused /\ probes' = probes
    BY <2>2, <1>9, <1>12, <1>13, <1>15 DEF SlotInv
  <2> QED
    BY <1>1, <2>1, <2>2, Zenon
<1> QED
  BY <1>16, <1>17, <1>18, Zenon DEF BreakerInv

(* register_urltest(): a new tag starts with closed circuits.              *)
LEMMA RegisterKeeps == ASSUME Inv, BreakerInv, NEW gs \in Groups, Register(gs) PROVE BreakerInv'
<1> DEFINE s == NewState(gs)
<1>1. /\ StateShape(s) /\ s.groups = gs /\ s.sel = None
      /\ s.res = [c \in Children |-> None] /\ s.cb = [c \in Children |-> NewEntry]
  BY Zenon DEF NewState, StateShape
<1>2. NewEntry \in Entries /\ NewEntry.st = "closed"
  BY BreakerAssumption, SlotsFacts DEF NewEntry, Entries
<1> HIDE DEF s
<1>3. /\ s.cb \in [Children -> Entries] /\ s.res \in Answers
      /\ \A c \in Children : s.cb[c].st = "closed" /\ s.res[c] = None
  BY <1>1, <1>2, Zenon DEF Answers
<1>4. Selectable(s)
  BY <1>1, <1>3, Zenon DEF Selectable, Answers
<1>5. \A i \in DOMAIN s.groups : GroupUsable(s, i) = {}
  <2>1. \A c \in Children : ~Usable(s, c)
    BY <1>3, UrltestAssumption, Zenon DEF Usable
  <2> QED
    BY <1>4, <2>1, GroupsFacts, Zenon DEF GroupUsable
<1>6. Best(s, s.sel)
  BY <1>1, <1>5, Zenon DEF Best, Comparable
<1>7. OpensFailed(s) /\ \A c \in Children : ~Full(s.cb[c])
  BY <1>3, Zenon DEF OpensFailed, Full
<1>8. Sound(s)
  BY <1>1, <1>3, <1>6, <1>7, Zenon DEF Sound
<1>9. CASE state = None
  <2>1. QueueProbe(s) /\ control' = control
    BY <1>9, Zenon DEF Register, s
  <2> QED
    BY <1>7, <1>8, <2>1, QueueKeeps, Zenon
<1>10. CASE state # None /\ ~state.inflight
  <2>1. QueueProbe(state) /\ control' = control
    BY <1>10, Zenon DEF Register
  <2> QED
    BY <1>10, <2>1, QueueKeeps, Zenon DEF BreakerInv, SlotInv
<1>11. CASE state # None /\ state.inflight
  <2>1. UNCHANGED <<state, probes, control>>
    BY <1>11, Zenon DEF Register
  <2> QED
    BY <2>1, Zenon DEF BreakerInv, AnswersInv, OnceInv, SlotInv
<1> QED
  BY <1>9, <1>10, <1>11, Zenon

(* A timer queues a probe.                                                 *)
LEMMA RunTestsKeeps == ASSUME Inv, BreakerInv, RunTests PROVE BreakerInv'
  BY QueueKeeps, Zenon DEF RunTests, BreakerInv, SlotInv

(* The end of a cooldown opens and closes no circuit.                      *)
LEMMA CooldownKeeps ==
    ASSUME BreakerInv, NEW c \in Children, Cooldown(c) PROVE BreakerInv'
<1> DEFINE cool == [state.cb[c] EXCEPT !.cooled = TRUE]
           cb == [state.cb EXCEPT ![c] = cool]
<1>1. state # None /\ UNCHANGED <<probes, control>> /\ state' = [state EXCEPT !.cb[c].cooled = TRUE]
  BY Zenon DEF Cooldown
<1>2. Sound(state)
  BY <1>1, Zenon DEF BreakerInv, SlotInv
<1>3. cool \in Entries /\ cool.st = state.cb[c].st /\ cool.active = state.cb[c].active
  BY <1>2, Zenon DEF Sound, Entries
<1>4. state' = [state EXCEPT !.cb = cb]
  BY <1>1, <1>2, Zenon DEF Sound, StateShape
<1> HIDE DEF cool
<1>5. /\ cb \in [Children -> Entries]
      /\ \A d \in Children : cb[d].st = state.cb[d].st /\ cb[d].active = state.cb[d].active
  BY <1>2, <1>3, Zenon DEF Sound
<1> HIDE DEF cb
<1>6. StateShape(state')
  BY <1>2, <1>4, Zenon DEF Sound, StateShape
<1>7. /\ state'.cb = cb /\ state'.res = state.res /\ state'.groups = state.groups
      /\ state'.sel = state.sel /\ state'.inflight = state.inflight /\ state'.gen = state.gen
  BY <1>2, <1>4, Zenon DEF Sound, StateShape
<1>8. OpensFailed(state')
  BY <1>2, <1>5, <1>7, Zenon DEF Sound, OpensFailed
<1>9. Best(state', state.sel)
  BY <1>2, <1>7, <1>8, BestKept, Zenon DEF Sound
<1>10. Sound(state')
  BY <1>2, <1>5, <1>6, <1>7, <1>8, <1>9, Zenon DEF Sound
<1>11. \A d \in Children : Full(cb[d]) <=> Full(state.cb[d])
  BY <1>5, Zenon DEF Full
<1>12. \A asked : Covers(state, asked) => Covers(state', asked)
  BY <1>5, <1>7, <1>11, Zenon DEF Covers
<1>13. SlotInv'
  BY <1>1, <1>7, <1>10, <1>11, <1>12, Zenon DEF BreakerInv, SlotInv
<1> QED
  BY <1>1, <1>13, Zenon DEF BreakerInv, AnswersInv, OnceInv

(* A probe that goes on: whoever was asked is to be asked or has answered. *)
LEMMA TestKeeps ==
    ASSUME Inv, BreakerInv, NEW p \in probes, Test(p) PROVE BreakerInv'
<1>1. UNCHANGED <<state, control>> /\ p.todo # <<>>
  BY Zenon DEF Test
<1>2. p.todo \in Seq(Children) /\ p.res \in Answers /\ ProbeShape(p)
  BY Zenon DEF BreakerInv, AnswersInv, Inv, ShapeInv
<1>3. CASE ~IsProbeCurrent(p)
  <2>1. probes' \subseteq probes
    BY <1>3, Zenon DEF Test
  <2> QED
    BY <1>1, <2>1, Zenon DEF BreakerInv, AnswersInv, OnceInv, SlotInv
<1>4. CASE IsProbeCurrent(p)
  <2> DEFINE c == Head(p.todo)
             got(r) == IF p.res[c] = None THEN [p.res EXCEPT ![c] = r] ELSE p.res
             q(r) == [p EXCEPT !.todo = Tail(@), !.res = got(r)]
  <2>1. PICK r \in Results : probes' = (probes \ {p}) \cup {q(r)}
    BY <1>4, Zenon DEF Test
  <2>2. /\ c \in Children /\ Tail(p.todo) \in Seq(Children)
        /\ ToSet(p.todo) = ToSet(Tail(p.todo)) \cup {c}
    <3>1. c \in Children /\ Tail(p.todo) \in Seq(Children)
      BY <1>1, <1>2
    <3>2. /\ \A i \in DOMAIN Tail(p.todo) : i + 1 \in DOMAIN p.todo
                                            /\ Tail(p.todo)[i] = p.todo[i + 1]
          /\ \A i \in DOMAIN p.todo : i # 1 => i - 1 \in DOMAIN Tail(p.todo)
          /\ 1 \in DOMAIN p.todo /\ Head(p.todo) = p.todo[1]
          /\ \A i \in DOMAIN p.todo : i \in Nat /\ i >= 1
      BY <1>1, <1>2, TailFacts, Zenon
    <3>3. \A i \in DOMAIN p.todo : i # 1 => p.todo[i] \in ToSet(Tail(p.todo))
      <4> TAKE i \in DOMAIN p.todo
      <4> HAVE i # 1
      <4>1. i - 1 \in DOMAIN Tail(p.todo) /\ (i - 1) + 1 = i
        BY <3>2
      <4>2. Tail(p.todo)[i - 1] = p.todo[i]
        BY <3>2, <4>1, Zenon
      <4> QED
        BY <4>1, <4>2, Zenon DEF ToSet
    <3>4. ToSet(p.todo) \subseteq ToSet(Tail(p.todo)) \cup {c}
      BY <3>2, <3>3, Zenon DEF ToSet
    <3>5. ToSet(Tail(p.todo)) \cup {c} \subseteq ToSet(p.todo)
      BY <3>2 DEF ToSet
    <3> QED
      BY <3>1, <3>4, <3>5, Zenon
  <2>3. r # None
    BY UrltestAssumption, Zenon DEF Results
  <2>4. got(r) \in Answers /\ Answered(got(r)) = Answered(p.res) \cup {c}
    <3> HIDE DEF c
    <3> QED
      BY <1>2, <2>2, <2>3, Zenon DEF Answers, Answered
  <2> DEFINE res == got(r)
             n == q(r)
  <2> HIDE DEF res
  <2>5. n.gen = p.gen /\ n.todo = Tail(p.todo) /\ n.res = res
    BY <1>2, Zenon DEF ProbeShape, res
  <2>6. probes' = (probes \ {p}) \cup {n}
    BY <2>1, Zenon
  <2>7. res \in Answers /\ Answered(res) = Answered(p.res) \cup {c}
    BY <2>4, Zenon DEF res
  <2> HIDE DEF n, c
  <2>8. Asked(n) = Asked(p)
    BY <2>2, <2>5, <2>7, Zenon DEF Asked
  <2>9. AnswersInv'
    BY <1>1, <2>2, <2>5, <2>6, <2>7, Zenon DEF BreakerInv, AnswersInv
  <2>10. OnceInv'
    BY <1>1, <2>5, <2>6 DEF BreakerInv, OnceInv
  <2>11. SlotInv'
    BY <1>1, <2>5, <2>6, <2>8, Zenon DEF BreakerInv, SlotInv
  <2> QED
    BY <2>9, <2>10, <2>11, Zenon DEF BreakerInv
<1> QED
  BY <1>3, <1>4, Zenon

(* The commit has the answers of its probe, which asked nobody else.       *)
LEMMA PostCommitKeeps ==
    ASSUME Inv, BreakerInv, NEW p \in probes, PostCommit(p) PROVE BreakerInv'
<1> DEFINE x == [kind |-> "commit", gen |-> p.gen, res |-> p.res, sel |-> None,
                 epoch |-> p.epoch]
<1>1. /\ probes' = probes \ {p} /\ control' = Append(control, x) /\ state' = state
      /\ p.todo = <<>>
  BY Zenon DEF PostCommit
<1>2. x.kind = "commit" /\ x.gen = p.gen /\ x.res = p.res
  OBVIOUS
<1> HIDE DEF x
<1>3. PICK S : control \in Seq(S)
  BY Zenon DEF Inv, ShapeInv
<1>4. /\ DOMAIN control' = DOMAIN control \cup {Len(control) + 1}
      /\ \A i \in DOMAIN control : control'[i] = control[i]
      /\ control'[Len(control) + 1] = x
  BY <1>1, <1>3, AppendFacts
<1>5. Asked(p) = Answered(p.res)
  BY <1>1 DEF Asked, ToSet
<1>6. AnswersInv'
  BY <1>1, <1>2, <1>4 DEF BreakerInv, AnswersInv
<1>7. OnceInv'
  BY <1>1, <1>2, <1>4 DEF BreakerInv, OnceInv
<1>8. SlotInv'
  BY <1>1, <1>2, <1>4, <1>5 DEF BreakerInv, SlotInv
<1> QED
  BY <1>6, <1>7, <1>8, Zenon DEF BreakerInv

(* What the invariant keeps of the queue when its head is taken and at     *)
(* most a change is posted.                                                *)
CommitsMove ==
    \A i \in DOMAIN control' :
        control'[i].kind = "commit" =>
            i \in Nat /\ i + 1 \in DOMAIN control /\ control'[i] = control[i + 1]

(* Then every commit that is left has its place, and no other has its      *)
(* generation.                                                             *)
LEMMA QueueMoves ==
    ASSUME BreakerInv, CommitsMove, probes' = probes
    PROVE  AnswersInv' /\ OnceInv'
<1>1. AnswersInv'
  BY Zenon DEF BreakerInv, AnswersInv, CommitsMove
<1>2. ASSUME NEW i \in DOMAIN control', NEW j \in DOMAIN control',
             control'[i].kind = "commit", control'[j].kind = "commit",
             control'[i].gen = control'[j].gen
      PROVE  i = j
  <2>1. /\ i \in Nat /\ i + 1 \in DOMAIN control /\ control'[i] = control[i + 1]
        /\ j \in Nat /\ j + 1 \in DOMAIN control /\ control'[j] = control[j + 1]
    BY <1>2, Zenon DEF CommitsMove
  <2>2. i + 1 = j + 1
    BY <1>2, <2>1, Zenon DEF BreakerInv, OnceInv
  <2> QED
    BY <2>1, <2>2
<1>3. OnceInv'
  BY <1>2 DEF BreakerInv, OnceInv, CommitsMove
<1> QED
  BY <1>1, <1>3, Zenon

(* A task that is dropped, and one that only concerns the routing.         *)
LEMMA DropKeeps ==
    ASSUME Inv, BreakerInv, control # <<>>, control' = Tail(control), UNCHANGED <<state, probes>>
    PROVE  BreakerInv'
<1>1. CommitsMove
  BY TakeFacts, Zenon DEF CommitsMove
<1>2. SlotInv'
  BY <1>1 DEF BreakerInv, SlotInv, CommitsMove
<1> QED
  BY <1>1, <1>2, QueueMoves, Zenon DEF BreakerInv

(* The entry of a child after its result, and after none.                  *)
LEMMA RecordedFacts ==
    ASSUME NEW s, Sound(s), NEW res \in Answers, Covers(s, Answered(res))
    PROVE  LET t == Recorded(s, res)
           IN  /\ StateShape(t) /\ t.groups = s.groups /\ t.gen = s.gen /\ t.inflight = FALSE
               /\ t.cb \in [Children -> Entries] /\ t.res \in Answers
               /\ OpensFailed(t) /\ \A c \in Children : ~Full(t.cb[c])
<1> DEFINE Entry(c) == IF res[c] = None THEN s.cb[c]
                       ELSE IF res[c] = Failed THEN RecordFailure(EndRequest(s.cb[c]))
                       ELSE RecordSuccess(EndRequest(s.cb[c]))
           cb == [c \in Children |-> Entry(c)]
           rs == [c \in Children |-> IF res[c] = None THEN s.res[c] ELSE res[c]]
           t == Recorded(s, res)
<1>1. t = [s EXCEPT !.inflight = FALSE, !.cb = cb, !.res = rs]
  BY Zenon DEF Recorded
<1>2. s.cb \in [Children -> Entries] /\ s.res \in Answers
  BY Zenon DEF Sound
<1>3. ASSUME NEW c \in Children
      PROVE  /\ cb[c] \in Entries /\ ~Full(cb[c])
             /\ cb[c].st = "open" => rs[c] = Failed
  <2> DEFINE e == EndRequest(s.cb[c])
  <2>1. /\ e \in Entries /\ e.st = s.cb[c].st
        /\ e.active < Slots /\ e.active \in Nat /\ Slots \in Nat
    <3>1. s.cb[c] \in Entries
      BY <1>2, Zenon
    <3>2. e \in Entries /\ e.st = s.cb[c].st /\ e.active < Slots
      BY <3>1, RequestFacts, Zenon
    <3> HIDE DEF e
    <3>3. e.active \in 0 .. Slots
      BY <3>2, Zenon DEF Entries
    <3> QED
      BY <3>2, <3>3, SlotsFacts
  <2> HIDE DEF e
  <2>2. CASE res[c] = None
    <3>1. cb[c] = s.cb[c] /\ rs[c] = s.res[c]
      BY <2>2, Zenon
    <3>2. c \notin Answered(res)
      BY <2>2, Zenon DEF Answered
    <3> QED
      BY <1>2, <3>1, <3>2, Zenon DEF Covers, Sound, OpensFailed
  <2>3. CASE res[c] = Failed /\ res[c] # None
    <3>1. cb[c] = RecordFailure(e) /\ rs[c] = Failed
      BY <2>3, Zenon DEF e
    <3> HIDE DEF cb, rs
    <3> QED
      BY <2>1, <3>1, RecordFacts, Zenon DEF Full
  <2>4. CASE res[c] # Failed /\ res[c] # None
    <3>1. cb[c] = RecordSuccess(e)
      BY <2>4, Zenon DEF e
    <3>2. s.cb[c].st # "open"
      BY <2>4, Zenon DEF Covers, Answered
    <3> HIDE DEF cb, rs
    <3> QED
      BY <2>1, <3>1, <3>2, RecordFacts DEF Full
  <2> QED
    BY <2>2, <2>3, <2>4, Zenon
<1>4. rs \in Answers
  BY <1>2, Zenon DEF Answers
<1>5. cb \in [Children -> Entries]
  BY <1>3, Zenon
<1> HIDE DEF cb, rs, t
<1>6. StateShape(t)
  BY <1>1, Zenon DEF Sound, StateShape
<1>7. /\ t.groups = s.groups /\ t.gen = s.gen /\ t.inflight = FALSE
      /\ t.cb = cb /\ t.res = rs
  BY <1>1, Zenon DEF Sound, StateShape
<1>8. OpensFailed(t) /\ \A c \in Children : ~Full(t.cb[c])
  BY <1>3, <1>7, Zenon DEF OpensFailed
<1> QED
  BY <1>4, <1>5, <1>6, <1>7, <1>8, Zenon DEF t

(* commit_probe_results(): every slot that was taken is given back, and    *)
(* the best is selected.                                                   *)
LEMMA CommitKeeps == ASSUME Inv, BreakerInv, Commit PROVE BreakerInv'
<1> DEFINE res == Head(control).res
           t == Recorded(state, res)
           new == SelectOutbound(t)
           x == [kind |-> "change", gen |-> 0, res |-> [c \in Children |-> None],
                 sel |-> new, epoch |-> epoch]
<1>1. control # <<>> /\ Head(control).kind = "commit" /\ probes' = probes
  BY Zenon DEF Commit
<1>2. CASE ~(state # None /\ Head(control).gen = state.gen)
  BY <1>1, <1>2, DropKeeps, Zenon DEF Commit
<1>3. CASE state # None /\ Head(control).gen = state.gen
  <2>1. /\ state' = [t EXCEPT !.sel = new]
        /\ control' = IF new = state.sel THEN Tail(control) ELSE Append(Tail(control), x)
    BY <1>3, Zenon DEF Commit
  <2>2. PICK S : control \in Seq(S)
    BY Zenon DEF Inv, ShapeInv
  <2>3. /\ Tail(control) \in Seq(S)
        /\ \A i \in DOMAIN Tail(control) : /\ i + 1 \in DOMAIN control
                                           /\ Tail(control)[i] = control[i + 1]
        /\ 1 \in DOMAIN control /\ Head(control) = control[1]
        /\ \A i \in DOMAIN control : i \in Nat
    BY <1>1, <2>2, TailFacts, Zenon
  <2>4. \A i \in DOMAIN Tail(control) : i \in Nat /\ i >= 1
    BY <2>3
  <2>5. x.kind = "change"
    OBVIOUS
  <2> HIDE DEF x
  <2>6. CommitsMove
    <3>1. CASE new = state.sel
      BY <2>1, <2>3, <2>4, <3>1, Zenon DEF CommitsMove
    <3>2. CASE new # state.sel
      <4>1. /\ DOMAIN control' = DOMAIN Tail(control) \cup {Len(Tail(control)) + 1}
            /\ \A i \in DOMAIN Tail(control) : control'[i] = Tail(control)[i]
            /\ control'[Len(Tail(control)) + 1] = x
        BY <2>1, <2>3, <3>2, AppendFacts
      <4> QED
        BY <2>3, <2>4, <2>5, <4>1 DEF CommitsMove
    <3> QED
      BY <3>1, <3>2, Zenon
  <2>7. res \in Answers /\ Covers(state, Answered(res)) /\ Sound(state)
    BY <1>1, <1>3, <2>3, Zenon DEF BreakerInv, AnswersInv, SlotInv
  <2>8. /\ StateShape(t) /\ t.groups = state.groups /\ t.gen = state.gen /\ t.inflight = FALSE
        /\ t.cb \in [Children -> Entries] /\ t.res \in Answers
        /\ OpensFailed(t) /\ \A c \in Children : ~Full(t.cb[c])
    BY <2>7, RecordedFacts, Zenon
  <2>9. t.groups \in Groups
    BY <2>7, <2>8, Zenon DEF Sound
  <2>10. Best(t, new)
    BY <2>8, <2>9, SelectFacts, Zenon DEF Selectable, Answers
  <2> HIDE DEF t, new
  <2>11. StateShape(state')
    BY <2>1, <2>8, Zenon DEF StateShape
  <2>12. /\ state'.groups = t.groups /\ state'.gen = t.gen /\ state'.inflight = FALSE
         /\ state'.cb = t.cb /\ state'.res = t.res /\ state'.sel = new
    BY <2>1, <2>8, Zenon DEF StateShape
  <2>13. OpensFailed(state')
    BY <2>8, <2>12, Zenon DEF OpensFailed
  <2>14. Best(state', new)
    BY <2>8, <2>9, <2>10, <2>12, <2>13, BestKept, Zenon
  <2>15. Sound(state')
    BY <2>8, <2>9, <2>11, <2>12, <2>13, <2>14, Zenon DEF Sound
  <2>16. \A p \in probes : p.gen # state.gen
    BY <1>1, <1>3, <2>3 DEF BreakerInv, OnceInv
  <2>17. ASSUME NEW i \in DOMAIN control', control'[i].kind = "commit"
         PROVE  control'[i].gen # state.gen
    <3>1. i \in Nat /\ i + 1 \in DOMAIN control /\ control'[i] = control[i + 1]
      BY <2>6, <2>17, Zenon DEF CommitsMove
    <3>2. i + 1 # 1
      <4>1. i \in DOMAIN control'
        OBVIOUS
      <4> QED
        BY <2>1, <2>2, <2>3, <2>17, <3>1, <2>4
    <3> QED
      BY <1>1, <1>3, <2>3, <2>17, <3>1, <3>2 DEF BreakerInv, OnceInv
  <2>18. SlotInv'
    BY <1>1, <2>8, <2>12, <2>15, <2>16, <2>17, Zenon DEF SlotInv
  <2> QED
    BY <1>1, <2>6, <2>18, QueueMoves, Zenon DEF BreakerInv
<1> QED
  BY <1>2, <1>3, Zenon

(* The invariant of the breaker holds at first ...                         *)
LEMMA BreakerInit == Init => BreakerInv
  BY DEF Init, BreakerInv, AnswersInv, OnceInv, SlotInv

(* ... and in every step, given what was proved of generations.            *)
LEMMA BreakerNext == Inv /\ BreakerInv /\ [Next]_vars => BreakerInv'
<1> SUFFICES ASSUME Inv, BreakerInv, [Next]_vars PROVE BreakerInv'
  OBVIOUS
<1>1. CASE UNCHANGED vars
  BY <1>1, Zenon DEF vars, BreakerInv, AnswersInv, OnceInv, SlotInv
<1>2. ASSUME NEW gs \in Groups, Register(gs) PROVE BreakerInv'
  BY <1>2, RegisterKeeps, Zenon
<1>3. ASSUME NEW c \in Children, Cooldown(c) PROVE BreakerInv'
  BY <1>3, CooldownKeeps, Zenon
<1>4. ASSUME NEW p \in probes, Test(p) \/ PostCommit(p) PROVE BreakerInv'
  BY <1>4, TestKeeps, PostCommitKeeps, Zenon
<1>5. CASE Change
  BY <1>5, DropKeeps, Zenon DEF Change
<1>6. CASE Clear
  BY <1>6, Zenon DEF Clear, BreakerInv, AnswersInv, OnceInv, SlotInv
<1> QED
  BY <1>1, <1>2, <1>3, <1>4, <1>5, <1>6, RunTestsKeeps, CommitKeeps, Zenon DEF Next

(* So it holds in every state.                                             *)
LEMMA BreakerAlways == Spec => []BreakerInv
  BY InvAlways, BreakerInit, BreakerNext, PTL DEF Spec

(* Between probes a half-open circuit has a free slot, for any thresholds  *)
(* and any half_open_max_requests but 0, any groups and repetitions of a   *)
(* child in them, and any sequence of refused, stale and committed probes: *)
(* is_allowed() never locks a child out (circuit_breaker.cpp,              *)
(* queue_probe_unlocked()).                                                *)
THEOREM NeverStarves == Spec => []BreakerNeverStarves
<1>1. BreakerInv => BreakerNeverStarves
  <2> SUFFICES ASSUME BreakerInv, HalfOpenMaxRequests > 0, state # None, ~state.inflight,
                      NEW c \in Children, state.cb[c].st = "half_open"
               PROVE  state.cb[c].active < HalfOpenMaxRequests
    BY Zenon DEF BreakerNeverStarves
  <2>1. state.cb[c] \in Entries /\ ~Full(state.cb[c])
    BY Zenon DEF BreakerInv, SlotInv, Sound
  <2>2. state.cb[c].active \in 0 .. Slots
    BY <2>1, Zenon DEF Entries
  <2> QED
    BY <2>1, <2>2, SlotsFacts DEF Full
<1> QED
  BY <1>1, BreakerAlways, PTL

(* The selection is usable, within tolerance_ms of every usable child of   *)
(* its group, and no comparable group comes before it by weight, in every  *)
(* state and for any groups, weights, latencies and tolerance, those that  *)
(* wrap around as uint32_t included (select_outbound()).                   *)
THEOREM SelectsBest == Spec => []SelectionBest
<1>1. BreakerInv => SelectionBest
  BY Zenon DEF BreakerInv, SlotInv, Sound, Best, SelectionBest
<1> QED
  BY <1>1, BreakerAlways, PTL
===============================================================================
