----------------------------- MODULE ListProofs -----------------------------
(***************************************************************************)
(* The list cache and the sets and resolver configuration made from it,    *)
(* for any callers, lists, configurations and numbers of requests and      *)
(* failures.                                                               *)
(*                                                                         *)
(* One flight at a time makes one owner of the temporary files, from which *)
(* MetaDescribesBody follows.  For SetsFollowCache the proof follows every *)
(* list whose body was replaced: until it is in the sets, a caller carries *)
(* it, or an operation or a failure is under way that brings all of them.  *)
(*                                                                         *)
(* The last part is about the rows of domains that the generator of the    *)
(* resolver configuration makes from a list, for lists of any length and   *)
(* any limits of a row.                                                    *)
(***************************************************************************)
EXTENDS ListRefresh, DnsmasqGen, Induction

CallFields == {"at", "key", "todo", "awake", "done", "changed", "failed", "error"}

(* The functions and records the variables hold.                           *)
CacheShape ==
    /\ DOMAIN files = Lists /\ \A l \in Lists : DOMAIN files[l] = {"body", "meta"}
    /\ DOMAIN tmp = Lists /\ \A l \in Lists : DOMAIN tmp[l] = {"body", "meta"}
    /\ DOMAIN dl = Callers /\ \A c \in Callers : DOMAIN dl[c] = {"at", "list", "got"}
CallShape == DOMAIN call = Callers /\ \A c \in Callers : DOMAIN call[c] = CallFields
SnapShape ==
    DOMAIN snap = Callers /\ \A c \in Callers : DOMAIN snap[c] = {"active", "stale", "reload"}
RunShape ==
    /\ DOMAIN op = {"at", "cfg"}
    /\ runtime \in RuntimeStates \ {"shutting_down"}
    /\ active \in BOOLEAN
ShapeInv == CacheShape /\ CallShape /\ SnapShape /\ RunShape

(* Only the owner of the flight downloads; who has no result yet has no    *)
(* changed lists.                                                          *)
OwnerInv ==
    /\ \A c \in Callers : call[c].at = "own" => flight.owner = c
    /\ \A c \in Callers : dl[c].at # "none" => call[c].at = "own"
    /\ \A c \in Callers :
         \/ call[c].at \in {"out", "enter", "wait"}
         \/ call[c].at = "join" /\ ~call[c].done
         => call[c].changed = {}

(* A caller that may begin is in no call.                                  *)
BeginInv ==
    /\ loop \in {"idle", "ipc"}
    /\ loop = "idle" => call["ipc"].at = "out"
    /\ op.at # "prepare" => call["apply"].at = "out"
    /\ op.at # "lists" => call["boot"].at = "out"

(* What the owner has written and renamed so far is its own.               *)
CacheInv ==
    /\ MetaDescribesBody
    /\ \A c \in Callers, l \in Lists : dl[c].list = l =>
         /\ dl[c].at = "body" => /\ tmp[l].meta = dl[c].got
                                 /\ \/ tmp[l].body = BodyOf[dl[c].got]
                                    \/ tmp[l].body = Torn /\ l \in cut
         /\ dl[c].at = "meta" => /\ tmp[l].meta = dl[c].got
                                 /\ \/ files[l].body = BodyOf[dl[c].got]
                                    \/ files[l].body = Torn /\ l \in cut

(* The states in which the sets are meant to follow the cache.             *)
Healthy == runtime \in {"starting", "applying", "running"}

(* A refresh of the timer that is not outdated began with this             *)
(* configuration and this state of the runtime; the loop that downloads    *)
(* keeps the configuration.                                                *)
RunInv ==
    /\ Healthy => active
    /\ call["auto"].at # "out" /\ ~snap["auto"].stale =>
         snap["auto"].active = active /\ call["auto"].key.cfg = cfg
    /\ loop = "ipc" => call["ipc"].key.cfg = cfg

(* A caller has replaced the body of a list, or has the result of one that *)
(* has, and has not yet done with it.                                      *)
Carries(c, l) == l \in call[c].changed \/ (dl[c].list = l /\ dl[c].at \in {"meta", "updated"})
Carried(l) == \E c \in Callers : Carries(c, l)

(* A list that nobody carries is in the sets and the resolver's            *)
(* configuration as it is in the cache, unless an operation is under way   *)
(* that will bring it there, or dnsmasq was not reloaded for it.           *)
SyncInv ==
    Healthy =>
      \A l \in Lists \ (excused \cup cut) : ~Carried(l) =>
        /\ op.at \notin {"boot", "lists", "reconcile"} /\ l \in cfg.route
             => sets[l] = files[l].body
        /\ op.at \notin {"boot", "lists", "reconcile", "resolver"}
             => (l \in cfg.dns \/ (l \in cfg.route /\ l \notin behind) => dns[l] = files[l].body)

Inv == ShapeInv /\ OwnerInv /\ BeginInv /\ CacheInv /\ RunInv /\ SyncInv

-------------------------------------------------------------------------------
(* The callers have the names the actions use.                             *)
LEMMA Named == "auto" \in Callers /\ "api" \in Callers /\ "ipc" \in Callers
               /\ "apply" \in Callers /\ "boot" \in Callers
  BY CallersAssumption, Zenon

(* Breaking the runtime, and who may go on to "running".                   *)
LEMMA Moves ==
    ASSUME ShapeInv
    PROVE  /\ Moved(runtime, "broken") = "broken"
           /\ MayMove(runtime, "running") <=> runtime \in {"starting", "applying"}
  BY Zenon DEF ShapeInv, RunShape, Moved, MayMove, Successors, RuntimeStates

(* What a call looks like to everyone else after a step of caller c.       *)
CallMoves(c, at) ==
    /\ DOMAIN call' = Callers
    /\ \A d \in Callers :
         /\ DOMAIN call'[d] = CallFields
         /\ call'[d].at = IF d = c THEN at ELSE call[d].at
         /\ call'[d].key = call[d].key /\ call'[d].changed = call[d].changed
         /\ call'[d].done = call[d].done
DlMoves(c, at, list, got) ==
    /\ DOMAIN dl' = Callers
    /\ \A d \in Callers :
         /\ DOMAIN dl'[d] = {"at", "list", "got"}
         /\ dl'[d].at = IF d = c THEN at ELSE dl[d].at
         /\ dl'[d].list = IF d = c THEN list ELSE dl[d].list
         /\ dl'[d].got = IF d = c THEN got ELSE dl[d].got

(* The call of c after its place changed.                                  *)
LEMMA CallAt ==
    ASSUME ShapeInv, NEW c \in Callers, NEW at, call' = [call EXCEPT ![c].at = at]
    PROVE  CallMoves(c, at)
  BY Zenon DEF ShapeInv, CallShape, CallFields, CallMoves

(* The download of c after an answer.                                      *)
LEMMA AnswerAt ==
    ASSUME ShapeInv, NEW c \in Callers, NEW at, Answer(c, at)
    PROVE  DlMoves(c, at, dl[c].list, dl[c].got)
  BY Zenon DEF ShapeInv, CacheShape, Answer, DlMoves

(* Only one caller is the owner.                                           *)
LEMMA OneOwner ==
    ASSUME OwnerInv, NEW c \in Callers, NEW d \in Callers, call[c].at = "own"
    PROVE  /\ call[d].at = "own" => d = c
           /\ dl[d].at # "none" => d = c
  BY Zenon DEF OwnerInv

-------------------------------------------------------------------------------
(* Steps inside download_remote_lists() and download(), while the rest of  *)
(* the daemon stands still.                                                *)
Rest == UNCHANGED <<runVars, snap, loop, op, excused>>
CallsStay ==
    \A d \in Callers : /\ call'[d].key = call[d].key
                       /\ call'[d].at = "out" <=> call[d].at = "out"

(* A list that nobody carries after the step was carried by nobody before  *)
(* it either, and has the body it had.                                     *)
Tracks ==
    \A l \in Lists \ (excused \cup cut') :
        ~Carried(l)' => l \notin cut /\ ~Carried(l) /\ files'[l].body = files[l].body

(* What such a step has to keep.                                           *)
LEMMA ServiceKeeps ==
    ASSUME Inv, Rest,
           CacheShape', CallShape', OwnerInv', CacheInv', CallsStay, Tracks
    PROVE  Inv'
<1>0. ShapeInv /\ BeginInv /\ RunInv /\ SyncInv
  BY Zenon DEF Inv
<1>1. ShapeInv'
  BY <1>0, Zenon DEF ShapeInv, SnapShape, RunShape, Rest, runVars
<1>2. BeginInv'
  BY <1>0, Named, Zenon DEF BeginInv, CallsStay, Rest
<1>3. RunInv'
  BY <1>0, Named, Zenon DEF RunInv, Healthy, CallsStay, Rest, runVars
<1>4. SyncInv'
  BY <1>0, Zenon DEF SyncInv, Healthy, Tracks, Rest, runVars
<1> QED
  BY <1>1, <1>2, <1>3, <1>4, Zenon DEF Inv

(* A step that moves a call and leaves the cache alone.                    *)
LEMMA CallMovesKeeps ==
    ASSUME Inv, NEW c \in Callers, NEW at, CallMoves(c, at),
           UNCHANGED cacheVars, Rest,
           call[c].at = "out" <=> at = "out",
           OwnerInv'
    PROVE  Inv'
<1>0. ShapeInv /\ CacheInv
  BY Zenon DEF Inv
<1>1. CacheShape' /\ CallShape'
  BY <1>0, Zenon DEF ShapeInv, CacheShape, CallShape, CallMoves, cacheVars
<1>2. CacheInv'
  BY <1>0 DEF CacheInv, MetaDescribesBody, cacheVars
<1>3. CallsStay
  BY Zenon DEF CallsStay, CallMoves
<1>4. Tracks
  BY Zenon DEF Tracks, Carried, Carries, CallMoves, cacheVars
<1> QED
  BY <1>1, <1>2, <1>3, <1>4, ServiceKeeps, Zenon DEF cacheVars

(* A caller owns a flight, joins one, or sleeps.                           *)
LEMMA EnterKeeps ==
    ASSUME Inv, NEW c \in Callers, Enter(c), Rest
    PROVE  Inv'
<1>0. ShapeInv /\ OwnerInv
  BY Zenon DEF Inv
<1>1. CASE flight = NoFlight
  <2>1. CallMoves(c, "own") /\ flight' = [key |-> call[c].key, owner |-> c]
    BY <1>0, <1>1, CallAt, Zenon DEF Enter
  <2>2. OwnerInv'
    BY <1>0, <1>1, <2>1, CallersAssumption DEF OwnerInv, CallMoves, Enter, NoFlight, cacheVars
  <2> QED
    BY <2>1, <2>2, CallMovesKeeps, Zenon DEF Enter
<1>2. CASE flight # NoFlight
  <2>1. PICK at \in {"join", "wait"} : CallMoves(c, at)
    <3>1. CASE flight.key = call[c].key
      BY <1>0, <1>2, <3>1, CallAt, Zenon DEF Enter
    <3>2. CASE flight.key # call[c].key
      BY <1>0, <1>2, <3>2 DEF Enter, ShapeInv, CallShape, CallFields, CallMoves
    <3> QED
      BY <3>1, <3>2, Zenon
  <2>2. OwnerInv'
    BY <1>0, <1>2, <2>1 DEF OwnerInv, CallMoves, Enter, cacheVars
  <2> QED
    BY <2>1, <2>2, CallMovesKeeps, Zenon DEF Enter
<1> QED
  BY <1>1, <1>2, Zenon

(* A joiner takes the result or sleeps.                                    *)
LEMMA JoinedKeeps ==
    ASSUME Inv, NEW c \in Callers, Joined(c), Rest
    PROVE  Inv'
<1>0. ShapeInv /\ OwnerInv
  BY Zenon DEF Inv
<1>1. PICK at \in {"join", "back"} : CallMoves(c, at)
  <2>1. CASE call[c].done
    BY <1>0, <2>1, CallAt, Zenon DEF Joined
  <2>2. CASE ~call[c].done
    BY <1>0, <2>2, Zenon DEF Joined, ShapeInv, CallShape, CallFields, CallMoves
  <2> QED
    BY <2>1, <2>2, Zenon
<1>2. OwnerInv'
  BY <1>0, <1>1 DEF OwnerInv, CallMoves, Joined, cacheVars
<1> QED
  BY <1>1, <1>2, CallMovesKeeps, Zenon DEF Joined

(* A sleeper wakes up.                                                     *)
LEMMA WakesKeeps ==
    ASSUME Inv, NEW c \in Callers, Wakes(c), Rest
    PROVE  Inv'
<1>0. ShapeInv /\ OwnerInv
  BY Zenon DEF Inv
<1>1. CallMoves(c, call[c].at)
  BY <1>0, Zenon DEF Wakes, ShapeInv, CallShape, CallFields, CallMoves
<1>2. OwnerInv'
  BY <1>0, <1>1 DEF OwnerInv, CallMoves, Wakes, cacheVars
<1> QED
  BY <1>1, <1>2, CallMovesKeeps, Zenon DEF Wakes

(* The result is announced.                                                *)
LEMMA AnnounceKeeps ==
    ASSUME Inv, NEW c \in Callers, Announce(c), Rest
    PROVE  Inv'
<1>0. ShapeInv /\ OwnerInv
  BY Zenon DEF Inv
<1>1. CallMoves(c, "back")
  BY <1>0, Zenon DEF Announce, ShapeInv, CallShape, CallFields, CallMoves
<1>2. OwnerInv'
  BY <1>0, <1>1 DEF OwnerInv, CallMoves, Announce, cacheVars
<1> QED
  BY <1>1, <1>2, CallMovesKeeps, Zenon DEF Announce
-------------------------------------------------------------------------------
(* A step of the owner that moves its download and leaves its call alone.  *)
LEMMA DownloadKeeps ==
    ASSUME Inv, NEW c \in Callers, NEW at, NEW list, NEW got, DlMoves(c, at, list, got),
           call[c].at = "own", UNCHANGED <<flight, call>>, Rest,
           CacheShape', CacheInv', Tracks
    PROVE  Inv'
<1>0. ShapeInv /\ OwnerInv
  BY Zenon DEF Inv
<1>1. OwnerInv'
  BY <1>0, Zenon DEF OwnerInv, DlMoves
<1>2. CallShape' /\ CallsStay
  BY <1>0, Zenon DEF ShapeInv, CallShape, CallsStay
<1> QED
  BY <1>1, <1>2, ServiceKeeps, Zenon

(* The conditional request and its answer.                                 *)
LEMMA AskKeeps ==
    ASSUME Inv, NEW c \in Callers, Ask(c), UNCHANGED <<flight, call>>, Rest
    PROVE  Inv'
<1>0. ShapeInv /\ OwnerInv /\ CacheInv
  BY Zenon DEF Inv
<1>1. PICK at, got : /\ at \in {"unchanged", "write", "failed"}
                     /\ DlMoves(c, at, dl[c].list, got)
  <2>1. ASSUME NEW at \in {"unchanged", "failed"}, Answer(c, at)
        PROVE  DlMoves(c, at, dl[c].list, dl[c].got)
    BY <1>0, <2>1, AnswerAt
  <2>2. ASSUME NEW e, dl' = [dl EXCEPT ![c].at = "write", ![c].got = e]
        PROVE  DlMoves(c, "write", dl[c].list, e)
    BY <1>0, <2>2 DEF ShapeInv, CacheShape, DlMoves
  <2>3. \/ Answer(c, "unchanged") \/ Answer(c, "failed")
        \/ \E e : dl' = [dl EXCEPT ![c].at = "write", ![c].got = e]
    BY Zenon DEF Ask
  <2>4. \/ DlMoves(c, "unchanged", dl[c].list, dl[c].got)
        \/ DlMoves(c, "failed", dl[c].list, dl[c].got)
        \/ \E e : DlMoves(c, "write", dl[c].list, e)
    BY <2>1, <2>2, <2>3, Zenon
  <2> QED
    BY <2>4
<1>2. dl[c].at = "ask" /\ call[c].at = "own" /\ UNCHANGED <<files, tmp, cut>>
  BY <1>0, Zenon DEF Ask, OwnerInv
<1>3. CacheShape'
  BY <1>0, <1>1, <1>2, Zenon DEF ShapeInv, CacheShape, DlMoves
<1>4. CacheInv'
  BY <1>0, <1>1, <1>2 DEF CacheInv, MetaDescribesBody, DlMoves
<1>5. Tracks
  BY <1>1, <1>2 DEF Tracks, Carried, Carries, DlMoves
<1> QED
  BY <1>1, <1>2, <1>3, <1>4, <1>5, DownloadKeeps, Zenon

(* Both temporary files are written: nobody else's are there.              *)
LEMMA WriteKeeps ==
    ASSUME Inv, NEW c \in Callers, Write(c), UNCHANGED <<flight, call>>, Rest
    PROVE  Inv'
<1>0. ShapeInv /\ OwnerInv /\ CacheInv
  BY Zenon DEF Inv
<1> DEFINE l == dl[c].list
<1>1. dl[c].at = "write" /\ call[c].at = "own" /\ UNCHANGED files
  BY <1>0, Zenon DEF Write, OwnerInv
<1>2. PICK at \in {"body", "failed"} : DlMoves(c, at, l, dl[c].got)
  BY <1>0, AnswerAt, Zenon DEF Write
<1>3. CacheShape'
  BY <1>0, <1>1, <1>2, Zenon DEF ShapeInv, CacheShape, DlMoves, Write, NoFiles
<1>4. /\ cut \subseteq cut' /\ cut' \subseteq cut \cup {l}
      /\ at = "body" /\ l \in Lists =>
           /\ tmp'[l].meta = dl[c].got
           /\ tmp'[l].body = BodyOf[dl[c].got] \/ (tmp'[l].body = Torn /\ l \in cut')
  BY <1>0, <1>2 DEF ShapeInv, CacheShape, DlMoves, Write, NoFiles, Answer
<1>5. \A d \in Callers : d # c => dl[d].at = "none"
  BY <1>0, <1>1, OneOwner, Zenon
<1>6. CacheInv'
  BY <1>0, <1>1, <1>2, <1>4, <1>5 DEF CacheInv, MetaDescribesBody, DlMoves
<1>7. Tracks
  BY <1>1, <1>2, <1>4, Zenon DEF Tracks, Carried, Carries, DlMoves
<1> QED
  BY <1>1, <1>2, <1>3, <1>6, <1>7, DownloadKeeps, Zenon

(* The body is renamed: from here on the owner carries the list.           *)
LEMMA RenameBodyKeeps ==
    ASSUME Inv, NEW c \in Callers, RenameBody(c), UNCHANGED <<flight, call>>, Rest
    PROVE  Inv'
<1>0. ShapeInv /\ OwnerInv /\ CacheInv
  BY Zenon DEF Inv
<1> DEFINE l == dl[c].list
<1>1. dl[c].at = "body" /\ call[c].at = "own" /\ UNCHANGED cut
  BY <1>0, Zenon DEF RenameBody, OwnerInv
<1>2. \A d \in Callers : d # c => dl[d].at = "none"
  BY <1>0, <1>1, OneOwner, Zenon
<1>3. CacheShape'
  BY <1>0, Zenon DEF ShapeInv, CacheShape, RenameBody, NoFiles, Answer
<1>4. CASE files' = [files EXCEPT ![l].body = tmp[l].body]
           /\ tmp' = [tmp EXCEPT ![l].body = None] /\ Answer(c, "meta")
  <2>1. DlMoves(c, "meta", l, dl[c].got)
    BY <1>0, <1>4, AnswerAt, Zenon
  <2>2. \A m \in Lists : /\ files'[m].meta = files[m].meta /\ tmp'[m].meta = tmp[m].meta
                         /\ files'[m].body = IF m = l THEN tmp[l].body ELSE files[m].body
    BY <1>0, <1>4, Zenon DEF ShapeInv, CacheShape
  <2>3. CacheInv'
    BY <1>0, <1>1, <1>2, <2>1, <2>2 DEF CacheInv, MetaDescribesBody, DlMoves
  <2>4. Tracks
    BY <1>1, <2>1, <2>2 DEF Tracks, Carried, Carries, DlMoves
  <2> QED
    BY <1>1, <1>3, <2>1, <2>3, <2>4, DownloadKeeps, Zenon
<1>5. CASE UNCHANGED files /\ Answer(c, "failed")
  <2>1. DlMoves(c, "failed", l, dl[c].got)
    BY <1>0, <1>5, AnswerAt, Zenon
  <2>2. CacheInv'
    BY <1>0, <1>1, <1>2, <1>5, <2>1, Zenon DEF CacheInv, MetaDescribesBody, DlMoves
  <2>3. Tracks
    BY <1>1, <1>5, <2>1, Zenon DEF Tracks, Carried, Carries, DlMoves
  <2> QED
    BY <1>1, <1>3, <2>1, <2>2, <2>3, DownloadKeeps, Zenon
<1> QED
  BY <1>4, <1>5, Zenon DEF RenameBody

(* The metadata is renamed, or the files are given up as disagreeing.      *)
LEMMA RenameMetaKeeps ==
    ASSUME Inv, NEW c \in Callers, RenameMeta(c), UNCHANGED <<flight, call>>, Rest
    PROVE  Inv'
<1>0. ShapeInv /\ OwnerInv /\ CacheInv
  BY Zenon DEF Inv
<1> DEFINE l == dl[c].list
<1>1. dl[c].at = "meta" /\ call[c].at = "own"
  BY <1>0, Zenon DEF RenameMeta, OwnerInv
<1>2. \A d \in Callers : d # c => dl[d].at = "none"
  BY <1>0, <1>1, OneOwner, Zenon
<1>3. CacheShape'
  BY <1>0, Zenon DEF ShapeInv, CacheShape, RenameMeta, NoFiles, Answer
<1>4. CASE /\ files' = [files EXCEPT ![l].meta = tmp[l].meta]
           /\ Answer(c, "updated")
           /\ cut' = IF files[l].body = Torn THEN cut ELSE cut \ {l}
  <2>1. DlMoves(c, "updated", l, dl[c].got)
    BY <1>0, <1>4, AnswerAt, Zenon
  <2>2. \A m \in Lists : /\ files'[m].body = files[m].body
                         /\ files'[m].meta = IF m = l THEN tmp[l].meta ELSE files[m].meta
    BY <1>0, <1>4, Zenon DEF ShapeInv, CacheShape
  <2>3. CacheInv'
    BY <1>0, <1>1, <1>2, <1>4, <2>1, <2>2 DEF CacheInv, MetaDescribesBody, DlMoves
  <2>4. Tracks
    BY <1>1, <1>4, <2>1, <2>2 DEF Tracks, Carried, Carries, DlMoves
  <2> QED
    BY <1>1, <1>3, <2>1, <2>3, <2>4, DownloadKeeps, Zenon
<1>5. CASE UNCHANGED files /\ Answer(c, "failed") /\ cut' = cut \cup {l}
  <2>1. DlMoves(c, "failed", l, dl[c].got)
    BY <1>0, <1>5, AnswerAt, Zenon
  <2>2. CacheInv'
    BY <1>0, <1>1, <1>2, <1>5, <2>1 DEF CacheInv, MetaDescribesBody, DlMoves
  <2>3. Tracks
    BY <1>1, <1>5, <2>1, Zenon DEF Tracks, Carried, Carries, DlMoves
  <2> QED
    BY <1>1, <1>3, <2>1, <2>2, <2>3, DownloadKeeps, Zenon
<1> QED
  BY <1>4, <1>5, Zenon DEF RenameMeta

(* The owner skips a list or begins to download it.                        *)
LEMMA NextListKeeps ==
    ASSUME Inv, NEW c \in Callers, NextList(c), Rest
    PROVE  Inv'
<1>0. ShapeInv /\ OwnerInv /\ CacheInv
  BY Zenon DEF Inv
<1>1. /\ call[c].at = "own" /\ dl[c].at = "none"
      /\ UNCHANGED <<files, tmp, cut, trouble, flight>>
  BY Zenon DEF NextList
<1>2. CASE call' = [call EXCEPT ![c].todo = Tail(@)] /\ UNCHANGED dl
  <2>1. CallMoves(c, "own")
    BY <1>0, <1>1, <1>2, Zenon DEF ShapeInv, CallShape, CallFields, CallMoves
  <2>2. OwnerInv'
    BY <1>0, <1>1, <1>2, <2>1 DEF OwnerInv, CallMoves
  <2> QED
    BY <1>1, <1>2, <2>1, <2>2, CallMovesKeeps, Zenon DEF cacheVars
<1>3. CASE dl' = [dl EXCEPT ![c] = [NoDownload EXCEPT !.at = "ask",
                                                     !.list = Head(call[c].todo)]]
           /\ UNCHANGED call
  <2>1. DlMoves(c, "ask", Head(call[c].todo), None)
    BY <1>0, <1>3, Zenon DEF ShapeInv, CacheShape, NoDownload, DlMoves
  <2>2. CacheShape'
    BY <1>0, <1>1, <2>1, Zenon DEF ShapeInv, CacheShape, DlMoves
  <2>3. CacheInv'
    BY <1>0, <1>1, <2>1 DEF CacheInv, MetaDescribesBody, DlMoves
  <2>4. Tracks
    BY <1>1, <1>3, <2>1, Zenon DEF Tracks, Carried, Carries, DlMoves
  <2> QED
    BY <1>1, <1>3, <2>1, <2>2, <2>3, <2>4, DownloadKeeps, Zenon
<1> QED
  BY <1>2, <1>3, Zenon DEF NextList

(* The result of a list becomes part of the result of the flight.          *)
LEMMA ListDoneKeeps ==
    ASSUME Inv, NEW c \in Callers, ListDone(c), Rest
    PROVE  Inv'
<1>0. ShapeInv /\ OwnerInv /\ CacheInv
  BY Zenon DEF Inv
<1>1. call[c].at = "own" /\ dl[c].at \in Answers /\ UNCHANGED <<files, tmp, cut, flight>>
  BY <1>0, Zenon DEF ListDone, OwnerInv, Answers
<1>2. DlMoves(c, "none", None, None)
  BY <1>0, Zenon DEF ShapeInv, CacheShape, ListDone, NoDownload, DlMoves
<1>3. /\ DOMAIN call' = Callers
      /\ \A d \in Callers :
           /\ DOMAIN call'[d] = CallFields
           /\ call'[d].at = call[d].at /\ call'[d].key = call[d].key
           /\ call'[d].done = call[d].done
           /\ call'[d].changed = IF d = c /\ dl[c].at = "updated"
                                 THEN call[c].changed \cup {dl[c].list} ELSE call[d].changed
  BY <1>0, Zenon DEF ShapeInv, CallShape, CallFields, ListDone
<1>4. CacheShape' /\ CallShape' /\ CallsStay
  BY <1>0, <1>1, <1>2, <1>3, Zenon DEF ShapeInv, CacheShape, CallShape, CallsStay, DlMoves
<1>5. OwnerInv'
  BY <1>0, <1>1, <1>2, <1>3 DEF OwnerInv, DlMoves
<1>6. CacheInv'
  BY <1>0, <1>1, <1>2 DEF CacheInv, MetaDescribesBody, DlMoves, Answers
<1>7. Tracks
  BY <1>1, <1>2, <1>3 DEF Tracks, Carried, Carries, DlMoves, Answers
<1> QED
  BY <1>4, <1>5, <1>6, <1>7, ServiceKeeps, Zenon

(* The flight ends: its joiners, who had no result, have that of the owner. *)
LEMMA FinishKeeps ==
    ASSUME Inv, NEW c \in Callers, Finish(c), Rest
    PROVE  Inv'
<1>0. ShapeInv /\ OwnerInv /\ CacheInv
  BY Zenon DEF Inv
<1>1. call[c].at = "own" /\ UNCHANGED <<files, tmp, dl, cut>>
  BY Zenon DEF Finish
<1>2. /\ DOMAIN call' = Callers
      /\ \A d \in Callers :
           /\ DOMAIN call'[d] = CallFields
           /\ call'[d].at = IF d = c THEN "announce" ELSE call[d].at
           /\ call'[d].key = call[d].key
           /\ \/ call'[d].changed = call[d].changed /\ call'[d].done = call[d].done
              \/ call[d].at = "join" /\ ~call[d].done /\ call'[d].done /\ d # c
  <2>1. PICK error \in BOOLEAN : call' = Published(c, error)
    BY Zenon DEF Finish
  <2>2. ASSUME NEW d \in Callers
        PROVE  call'[d] = IF d = c THEN [call[c] EXCEPT !.at = "announce", !.error = error]
                          ELSE IF call[d].at = "join" /\ ~call[d].done
                          THEN [call[d] EXCEPT !.done = TRUE, !.changed = call[c].changed,
                                               !.failed = call[c].failed, !.error = error]
                          ELSE call[d]
    BY <2>1, Zenon DEF Published
  <2>3. DOMAIN call' = Callers
    BY <2>1, Zenon DEF Published
  <2>4. ASSUME NEW d \in Callers
        PROVE  /\ DOMAIN call'[d] = CallFields
               /\ call'[d].at = IF d = c THEN "announce" ELSE call[d].at
               /\ call'[d].key = call[d].key
               /\ \/ call'[d].changed = call[d].changed /\ call'[d].done = call[d].done
                  \/ call[d].at = "join" /\ ~call[d].done /\ call'[d].done /\ d # c
    <3>1. DOMAIN call[d] = CallFields
      BY <1>0, Zenon DEF ShapeInv, CallShape
    <3>2. CASE d = c
      BY <2>2, <3>1, <3>2, Zenon DEF CallFields
    <3>3. CASE d # c /\ call[d].at = "join" /\ ~call[d].done
      <4>1. call'[d] = [call[d] EXCEPT !.done = TRUE, !.changed = call[c].changed,
                                       !.failed = call[c].failed, !.error = error]
        BY <2>2, <3>3, Zenon
      <4>2. call'[d].done = TRUE /\ call'[d].at = call[d].at /\ call'[d].key = call[d].key
            /\ DOMAIN call'[d] = CallFields
        BY <3>1, <4>1, SMT DEF CallFields
      <4> QED
        BY <3>3, <4>2, Zenon
    <3>4. CASE d # c /\ ~(call[d].at = "join" /\ ~call[d].done)
      BY <2>2, <3>1, <3>4, Zenon
    <3> QED
      BY <3>2, <3>3, <3>4, Zenon
  <2> QED
    BY <2>3, <2>4, Zenon
<1>3. CacheShape' /\ CallShape' /\ CallsStay
  BY <1>0, <1>1, <1>2, Zenon DEF ShapeInv, CacheShape, CallShape, CallsStay
<1>4. OwnerInv'
  <2>1. \A d \in Callers : call[d].at = "own" => d = c
    BY <1>0, <1>1, OneOwner, Zenon
  <2>2. \A d \in Callers : dl[d].at = "none"
    BY <1>0, <2>1, Zenon DEF OwnerInv, Finish
  <2> QED
    BY <1>0, <1>1, <1>2, <2>1, <2>2 DEF OwnerInv
<1>5. CacheInv'
  BY <1>0, <1>1 DEF CacheInv, MetaDescribesBody
<1>6. Tracks
  BY <1>0, <1>1, <1>2 DEF OwnerInv, Tracks, Carried, Carries
<1> QED
  BY <1>3, <1>4, <1>5, <1>6, ServiceKeeps, Zenon

(* Every step of a call, and waking up.                                    *)
LEMMA ServesKeeps ==
    ASSUME Inv, NEW c \in Callers, Serves(c) \/ SpuriousWakeup(c)
    PROVE  Inv'
<1>1. Rest
  BY Zenon DEF Serves, SpuriousWakeup, Rest
<1> QED
  BY <1>1, EnterKeeps, JoinedKeeps, NextListKeeps, AskKeeps, WriteKeeps, RenameBodyKeeps,
     RenameMetaKeeps, ListDoneKeeps, FinishKeeps, AnnounceKeeps, WakesKeeps, Zenon DEF
     Serves, SpuriousWakeup, Progress, Download

-------------------------------------------------------------------------------
(* Steps of the loop and the threads that begin or end a call: the cache   *)
(* stays as it is.                                                         *)
CacheStays == UNCHANGED <<files, tmp, dl, cut, flight>>

(* A step that leaves the files and the downloads alone keeps CacheInv.    *)
LEMMA CacheKept ==
    ASSUME ShapeInv, CacheInv, CacheStays
    PROVE  CacheShape' /\ CacheInv'
  BY DEF ShapeInv, CacheShape, CacheInv, MetaDescribesBody, CacheStays

(* Who had no call has one, and the others have theirs.                    *)
LEMMA Begun ==
    ASSUME Inv, CacheStays, NEW c \in Callers, NEW key, NEW order, NEW reload,
           call[c].at = "out", Begins(c, key, order, reload)
    PROVE  /\ CallShape' /\ SnapShape' /\ OwnerInv'
           /\ \A d \in Callers \ {c} : call'[d] = call[d] /\ snap'[d] = snap[d]
           /\ call'[c].at = "enter" /\ call'[c].key = key
           /\ snap'[c].active = active
           /\ \A l \in Lists : Carried(l)' <=> Carried(l)
<1>0. ShapeInv /\ OwnerInv
  BY Zenon DEF Inv
<1>1. /\ DOMAIN call' = Callers
      /\ \A d \in Callers : call'[d] = IF d = c THEN CallFor(key, order) ELSE call[d]
  BY <1>0, Zenon DEF Begins, ShapeInv, CallShape
<1>2. LET k == CallFor(key, order)
      IN  DOMAIN k = CallFields /\ k.at = "enter" /\ k.key = key /\ k.changed = {}
  BY Zenon DEF CallFor, NoCall, CallFields
<1>3. /\ SnapShape'
      /\ \A d \in Callers :
           snap'[d] = IF d = c
                      THEN [active |-> active, stale |-> FALSE, reload |-> reload]
                      ELSE snap[d]
  BY <1>0, Zenon DEF Begins, ShapeInv, SnapShape
<1>4. CallShape'
  BY <1>0, <1>1, <1>2, Zenon DEF ShapeInv, CallShape
<1>5. dl[c].at = "none" /\ call[c].changed = {}
  BY <1>0, Zenon DEF OwnerInv
<1>6. OwnerInv'
  BY <1>0, <1>1, <1>2, <1>5 DEF OwnerInv, CacheStays
<1>7. \A l \in Lists : Carried(l)' <=> Carried(l)
  BY <1>1, <1>2, <1>5, Zenon DEF Carried, Carries, CacheStays
<1> QED
  BY <1>1, <1>2, <1>3, <1>4, <1>6, <1>7

(* Who has its result is in no call any more.                              *)
LEMMA Ended ==
    ASSUME Inv, CacheStays, NEW c \in Callers, Returned(c), Ends(c)
    PROVE  /\ CallShape' /\ SnapShape' /\ OwnerInv'
           /\ \A d \in Callers \ {c} : call'[d] = call[d] /\ snap'[d] = snap[d]
           /\ call'[c].at = "out"
           /\ \A l \in Lists : ~Carried(l)' => ~Carried(l) \/ l \in call[c].changed
<1>0. ShapeInv /\ OwnerInv
  BY Zenon DEF Inv
<1>1. /\ DOMAIN call' = Callers
      /\ \A d \in Callers : call'[d] = IF d = c THEN NoCall ELSE call[d]
  BY <1>0, Zenon DEF Ends, ShapeInv, CallShape
<1>2. DOMAIN NoCall = CallFields /\ NoCall.at = "out" /\ NoCall.changed = {}
  BY Zenon DEF NoCall, CallFields
<1>3. SnapShape' /\ \A d \in Callers : snap'[d] = IF d = c THEN NoSnap ELSE snap[d]
  BY <1>0, Zenon DEF Ends, ShapeInv, SnapShape, NoSnap
<1>4. CallShape'
  BY <1>0, <1>1, <1>2, Zenon DEF ShapeInv, CallShape
<1>5. dl[c].at = "none"
  BY <1>0, Zenon DEF OwnerInv, Returned
<1>6. OwnerInv'
  BY <1>0, <1>1, <1>2, <1>5 DEF OwnerInv, CacheStays
<1>7. \A l \in Lists : ~Carried(l)' => ~Carried(l) \/ l \in call[c].changed
  BY <1>1, <1>2, <1>5, Zenon DEF Carried, Carries, CacheStays
<1> QED
  BY <1>1, <1>2, <1>3, <1>4, <1>6, <1>7, Zenon

(* A call begins, and the operation it belongs to, if any, with it.        *)
LEMMA BeginsKeeps ==
    ASSUME Inv, CacheStays, NEW c \in Callers, NEW key, NEW order, NEW reload,
           call[c].at = "out", Begins(c, key, order, reload), UNCHANGED <<runVars, excused>>,
           c \in {"auto", "ipc"} => key.cfg = cfg,
           loop' = "ipc" => c = "ipc" \/ loop = "ipc",
           loop' \in {"idle", "ipc"}, loop' = "idle" => loop = "idle" /\ c # "ipc",
           \/ op' = op /\ c \notin {"apply", "boot"}
           \/ op.at = "idle" /\ op' = [at |-> "prepare", cfg |-> key.cfg] /\ c # "boot"
           \/ op.at = "boot" /\ op' = [op EXCEPT !.at = "lists"] /\ c # "apply"
    PROVE  Inv'
<1>0. ShapeInv /\ OwnerInv /\ BeginInv /\ CacheInv /\ RunInv /\ SyncInv
  BY Zenon DEF Inv
<1> DEFINE Others == \A d \in Callers \ {c} : call'[d] = call[d] /\ snap'[d] = snap[d]
           Mine == call'[c].at = "enter" /\ call'[c].key = key /\ snap'[c].active = active
           Same == \A l \in Lists : Carried(l)' <=> Carried(l)
<1>1. CallShape' /\ SnapShape' /\ OwnerInv' /\ Others /\ Mine /\ Same
  BY Begun, Zenon
<1>2. CacheShape' /\ CacheInv'
  BY <1>0, CacheKept, Zenon
<1>3. DOMAIN op' = {"at", "cfg"}
  BY <1>0, Zenon DEF ShapeInv, RunShape
<1>4. \/ op' = op /\ c \notin {"apply", "boot"}
      \/ op.at = "idle" /\ op'.at = "prepare" /\ c # "boot"
      \/ op.at = "boot" /\ op'.at = "lists" /\ c # "apply"
  BY <1>0 DEF ShapeInv, RunShape
<1>5. ShapeInv'
  BY <1>0, <1>1, <1>2, <1>3, Zenon DEF ShapeInv, RunShape, runVars
<1>6. BeginInv'
  BY <1>0, <1>1, <1>4, Named, Zenon DEF BeginInv
<1>7. RunInv'
  BY <1>0, <1>1, Named DEF RunInv, Healthy, runVars
<1>8. SyncInv'
  BY <1>0, <1>1, <1>4, Zenon DEF SyncInv, Healthy, CacheStays, runVars
<1> QED
  BY <1>1, <1>2, <1>5, <1>6, <1>7, <1>8, Zenon DEF Inv

(* Nothing of this moves.                                                  *)
LEMMA StillKeeps ==
    ASSUME Inv, CacheStays, UNCHANGED call, Rest
    PROVE  Inv'
<1>0. ShapeInv /\ OwnerInv /\ CacheInv
  BY Zenon DEF Inv
<1>1. CacheShape' /\ CacheInv'
  BY <1>0, CacheKept, Zenon
<1>2. CallShape' /\ OwnerInv' /\ CallsStay
  BY <1>0, Zenon DEF ShapeInv, CallShape, OwnerInv, CallsStay, CacheStays
<1>3. Tracks
  BY Zenon DEF Tracks, Carried, Carries, CacheStays
<1> QED
  BY <1>1, <1>2, <1>3, ServiceKeeps, Zenon

(* A refresh is committed.  Those of its lists that are not excused are of *)
(* this configuration: they are brought into the sets, or no rule uses     *)
(* them, or the runtime is broken.                                         *)
LEMMA CommitKeeps ==
    ASSUME Inv, CacheStays, NEW c \in {"auto", "api", "ipc"}, Returned(c), Ends(c),
           UNCHANGED <<cfg, store, active, op>>,
           loop' = "idle", c # "ipc" => loop = "idle",
           excused \subseteq excused',
           Healthy => call[c].changed \subseteq excused' \/ call[c].key.cfg = cfg,
           \/ ListsReconciled(c)
           \/ ListsReconcileFails(c)
           \/ /\ UNCHANGED <<runtime, sets, dns, behind>>
              /\ Healthy => call[c].changed \subseteq excused' \/ ChangedFor(c) = {}
    PROVE  Inv'
<1>0. ShapeInv /\ BeginInv /\ CacheInv /\ RunInv /\ SyncInv
  BY Zenon DEF Inv
<1>c. c \in Callers
  BY Named, Zenon
<1> DEFINE Others == \A d \in Callers \ {c} : call'[d] = call[d] /\ snap'[d] = snap[d]
           Done == \A l \in Lists : ~Carried(l)' => ~Carried(l) \/ l \in call[c].changed
<1>1. CallShape' /\ SnapShape' /\ OwnerInv' /\ Others /\ call'[c].at = "out" /\ Done
  BY <1>c, Ended, Zenon
<1>2. CacheShape' /\ CacheInv'
  BY <1>0, CacheKept, Zenon
<1>3. runtime' = runtime \/ runtime' = "broken"
  BY <1>0, Moves, Zenon DEF ListsReconciled, ListsReconcileFails
<1>4. ShapeInv'
  BY <1>0, <1>1, <1>2, <1>3, Zenon DEF ShapeInv, RunShape, RuntimeStates
<1>5. BeginInv'
  BY <1>0, <1>1, Named, Zenon DEF BeginInv
<1>6. RunInv'
  BY <1>0, <1>1, <1>3, Named, Zenon DEF RunInv, Healthy
<1>7. SyncInv'
  <2>1. CASE ListsReconciled(c)
    <3>1. \A l \in Lists : l \in cfg.route => sets'[l] = files[l].body
      BY <2>1, Zenon DEF ListsReconciled, SetsFrom
    <3>2. ChangesDns(c) => \A l \in Lists : l \in cfg.dns \cup cfg.route => dns'[l] = files[l].body
      BY <2>1, Zenon DEF ListsReconciled, DnsFrom, Relevant
    <3>3. ~ChangesDns(c) => /\ dns' = dns /\ behind' = behind \cup call[c].changed
                            /\ call[c].changed \cap call[c].key.cfg.dns = {}
      BY <2>1, Zenon DEF ListsReconciled, ChangesDns
    <3>4. runtime' = runtime
      BY <2>1, Zenon DEF ListsReconciled
    <3>5. CASE ChangesDns(c)
      BY <1>0, <1>1, <3>1, <3>2, <3>5, Zenon DEF SyncInv, CacheStays
    <3>6. CASE ~ChangesDns(c)
      BY <1>0, <1>1, <3>1, <3>3, <3>4, <3>6, Zenon DEF SyncInv, Healthy, CacheStays
    <3> QED
      BY <3>5, <3>6, Zenon
  <2>2. CASE ListsReconcileFails(c)
    BY <1>0, <2>2, Moves, Zenon DEF ListsReconcileFails, SyncInv, RunInv, Healthy
  <2>3. CASE /\ UNCHANGED <<runtime, sets, dns, behind>>
             /\ Healthy => call[c].changed \subseteq excused' \/ ChangedFor(c) = {}
    BY <1>0, <1>1, <2>3, Zenon DEF SyncInv, Healthy, CacheStays, ChangedFor, Relevant
  <2> QED
    BY <2>1, <2>2, <2>3, Zenon
<1> QED
  BY <1>1, <1>2, <1>4, <1>5, <1>6, <1>7, Zenon DEF Inv

(* The timer fires.                                                        *)
LEMMA AutoFiresKeeps ==
    ASSUME Inv, AutoFires
    PROVE  Inv'
<1>0. CacheStays /\ UNCHANGED <<runVars, loop, op, excused>> /\ loop = "idle"
  BY Zenon DEF AutoFires, CacheStays
<1>1. CASE UNCHANGED <<call, snap>>
  BY <1>0, <1>1, StillKeeps, Zenon DEF Rest
<1>2. CASE call["auto"].at = "out" /\ Begins("auto", RefreshKey(cfg, None), cfg.lists, FALSE)
  <2>1. RefreshKey(cfg, None).cfg = cfg
    BY Zenon DEF RefreshKey
  <2> QED
    BY <1>0, <1>2, <2>1, Named, BeginsKeeps, Zenon
<1> QED
  BY <1>1, <1>2, Zenon DEF AutoFires

(* The commit of the timer's refresh.                                      *)
LEMMA AutoCommitKeeps ==
    ASSUME Inv, AutoCommit
    PROVE  Inv'
<1>0. RunInv
  BY Zenon DEF Inv
<1> DEFINE skips == snap["auto"].stale \/ call["auto"].error
<1>1. /\ CacheStays /\ UNCHANGED <<cfg, store, active, op, loop>> /\ loop = "idle"
      /\ Returned("auto") /\ Ends("auto")
      /\ excused' = IF skips THEN excused \cup call["auto"].changed ELSE excused
  BY Zenon DEF AutoCommit, CacheStays
<1>2. ~skips /\ Healthy => snap["auto"].active /\ call["auto"].key.cfg = cfg
  BY <1>0, <1>1, Zenon DEF RunInv, Returned
<1>3. \/ ListsReconciled("auto")
      \/ ListsReconcileFails("auto")
      \/ /\ UNCHANGED <<runtime, sets, dns, behind>>
         /\ ~(~skips /\ snap["auto"].active /\ ChangedFor("auto") # {})
  BY Zenon DEF AutoCommit
<1> HIDE DEF skips
<1> QED
  BY <1>1, <1>2, <1>3, CommitKeeps, Zenon

(* A request of the API begins, is posted and is committed.                *)
LEMMA ApiBeginsKeeps ==
    ASSUME Inv, ApiBegins
    PROVE  Inv'
<1>1. PICK key, order : Begins("api", key, order, TRUE)
  BY Zenon DEF ApiBegins
<1>2. CacheStays /\ UNCHANGED <<runVars, loop, op, excused>> /\ call["api"].at = "out"
  BY Zenon DEF ApiBegins, CacheStays, cacheVars
<1>3. loop \in {"idle", "ipc"}
  BY Zenon DEF Inv, BeginInv
<1> QED
  BY <1>1, <1>2, <1>3, Named, BeginsKeeps, Zenon

(* The API's refresh posts its result to the loop.                         *)
LEMMA ApiPostsKeeps ==
    ASSUME Inv, ApiPosts
    PROVE  Inv'
<1>0. ShapeInv /\ OwnerInv /\ BeginInv /\ CacheInv /\ RunInv /\ SyncInv
  BY Zenon DEF Inv
<1>1. CacheStays /\ UNCHANGED <<runVars, loop, op>> /\ Returned("api")
  BY Zenon DEF ApiPosts, CacheStays, cacheVars
<1>2. CASE call["api"].error
  <2>1. Ends("api") /\ excused' = excused \cup call["api"].changed
    BY <1>2, Zenon DEF ApiPosts
  <2>2. CallShape' /\ SnapShape' /\ OwnerInv'
    BY <1>1, <2>1, Named, Ended, Zenon
  <2>3. \A d \in Callers \ {"api"} : call'[d] = call[d] /\ snap'[d] = snap[d]
    BY <1>1, <2>1, Named, Ended, Zenon
  <2>4. \A l \in Lists : ~Carried(l)' => ~Carried(l) \/ l \in call["api"].changed
    BY <1>1, <2>1, Named, Ended, Zenon
  <2>5. CacheShape' /\ CacheInv'
    BY <1>0, <1>1, CacheKept, Zenon
  <2>6. ShapeInv'
    BY <1>0, <1>1, <2>2, <2>5, Zenon DEF ShapeInv, RunShape, runVars
  <2>7. BeginInv' /\ RunInv'
    BY <1>0, <1>1, <2>3, Named, Zenon DEF BeginInv, RunInv, Healthy, runVars
  <2>8. SyncInv'
    BY <1>0, <1>1, <2>1, <2>4, Zenon DEF SyncInv, Healthy, CacheStays, runVars
  <2> QED
    BY <2>2, <2>5, <2>6, <2>7, <2>8, Zenon DEF Inv
<1>3. CASE ~call["api"].error
  <2>1. /\ UNCHANGED <<call, excused>>
        /\ snap' = [snap EXCEPT !["api"].stale = FALSE, !["api"].reload = FALSE]
    BY <1>3, Zenon DEF ApiPosts
  <2>2. SnapShape' /\ snap'["auto"] = snap["auto"]
    BY <1>0, <2>1, Named, Zenon DEF ShapeInv, SnapShape
  <2>3. CacheShape' /\ CacheInv'
    BY <1>0, <1>1, CacheKept, Zenon
  <2>4. ShapeInv'
    BY <1>0, <1>1, <2>1, <2>2, <2>3, Zenon DEF ShapeInv, CallShape, RunShape, runVars
  <2>5. OwnerInv' /\ BeginInv' /\ RunInv'
    BY <1>0, <1>1, <2>1, <2>2, Zenon DEF OwnerInv, BeginInv, RunInv, Healthy, CacheStays,
       runVars
  <2>6. SyncInv'
    BY <1>0, <1>1, <2>1, Zenon DEF SyncInv, Healthy, Carried, Carries, CacheStays, runVars
  <2> QED
    BY <2>3, <2>4, <2>5, <2>6, Zenon DEF Inv
<1> QED
  BY <1>2, <1>3, Zenon

(* The loop commits the result of the API's refresh.                       *)
LEMMA ApiCommitKeeps ==
    ASSUME Inv, ApiCommit
    PROVE  Inv'
<1>0. RunInv
  BY Zenon DEF Inv
<1> DEFINE s == snap["api"]
           leaves == s.stale \/ ~s.active \/ call["api"].key.cfg # cfg
<1>1. /\ CacheStays /\ UNCHANGED <<cfg, store, active, op, loop>> /\ loop = "idle"
      /\ Returned("api") /\ Ends("api")
      /\ excused' = IF leaves THEN excused \cup call["api"].changed ELSE excused
  BY Zenon DEF ApiCommit, CacheStays
<1>2. \/ ListsReconciled("api")
      \/ ListsReconcileFails("api")
      \/ /\ UNCHANGED <<runtime, sets, dns, behind>>
         /\ ~(~s.stale /\ s.active /\ ChangedFor("api") # {})
  BY Zenon DEF ApiCommit
<1> QED
  BY <1>1, <1>2, CommitKeeps, Zenon

(* The loop begins and ends a download.                                    *)
LEMMA IpcBeginsKeeps ==
    ASSUME Inv, NEW reload \in BOOLEAN, IpcBegins(reload)
    PROVE  Inv'
<1>1. /\ CacheStays /\ UNCHANGED <<runVars, op, excused>>
      /\ loop = "idle" /\ loop' = "ipc"
      /\ Begins("ipc", RefreshKey(cfg, None), cfg.lists, reload)
  BY Zenon DEF IpcBegins, CacheStays, cacheVars
<1>2. call["ipc"].at = "out"
  BY <1>1, Zenon DEF Inv, BeginInv
<1>3. RefreshKey(cfg, None).cfg = cfg
  BY Zenon DEF RefreshKey
<1> QED
  BY <1>1, <1>2, <1>3, Named, BeginsKeeps, Zenon

(* The refresh that the control channel asked for ends.                    *)
LEMMA IpcEndsKeeps ==
    ASSUME Inv, IpcEnds
    PROVE  Inv'
<1>0. RunInv
  BY Zenon DEF Inv
<1> DEFINE leaves == ~snap["ipc"].reload \/ call["ipc"].error
<1>1. /\ CacheStays /\ UNCHANGED <<cfg, store, active, op>> /\ loop = "ipc" /\ loop' = "idle"
      /\ Returned("ipc") /\ Ends("ipc")
      /\ excused' = IF leaves THEN excused \cup call["ipc"].changed ELSE excused
  BY Zenon DEF IpcEnds, CacheStays
<1>2. call["ipc"].key.cfg = cfg /\ (Healthy => active)
  BY <1>0, <1>1, Zenon DEF RunInv
<1>3. \/ ListsReconciled("ipc")
      \/ ListsReconcileFails("ipc")
      \/ /\ UNCHANGED <<runtime, sets, dns, behind>>
         /\ ~(~leaves /\ active /\ ChangedFor("ipc") # {})
  BY Zenon DEF IpcEnds
<1> HIDE DEF leaves
<1> QED
  BY <1>1, <1>2, <1>3, CommitKeeps, Zenon

-------------------------------------------------------------------------------
(* A lifecycle operation begins with the lists its configuration lacks.    *)
LEMMA ApplyBeginsKeeps ==
    ASSUME Inv, NEW config, ApplyBegins(config)
    PROVE  Inv'
<1> DEFINE key == [cfg |-> config, uncached |-> TRUE, targets |-> None]
<1>1. /\ CacheStays /\ UNCHANGED <<runVars, loop, excused>>
      /\ op.at = "idle" /\ op' = [at |-> "prepare", cfg |-> key.cfg]
      /\ Begins("apply", key, config.lists, FALSE)
  BY Zenon DEF ApplyBegins, CacheStays, cacheVars
<1>2. call["apply"].at = "out" /\ loop \in {"idle", "ipc"}
  BY <1>1, Zenon DEF Inv, BeginInv
<1> HIDE DEF key
<1> QED
  BY <1>1, <1>2, Named, BeginsKeeps, Zenon

(* It has them, or is given up.                                            *)
LEMMA ApplyPreparedKeeps ==
    ASSUME Inv, ApplyPrepared
    PROVE  Inv'
<1>0. ShapeInv /\ OwnerInv /\ BeginInv /\ CacheInv /\ RunInv /\ SyncInv
  BY Zenon DEF Inv
<1>1. /\ CacheStays /\ UNCHANGED <<runVars, loop>> /\ op.at = "prepare"
      /\ Returned("apply") /\ Ends("apply")
  BY Zenon DEF ApplyPrepared, CacheStays, cacheVars
<1>2. /\ DOMAIN op' = {"at", "cfg"}
      /\ \/ op'.at = "idle" /\ excused' = excused \cup call["apply"].changed
         \/ op'.at = "reconcile"
  BY <1>0, Zenon DEF ApplyPrepared, NoOp, ShapeInv, RunShape
<1>3. CallShape' /\ SnapShape' /\ OwnerInv' /\ call'["apply"].at = "out"
  BY <1>1, Named, Ended, Zenon
<1>4. \A d \in Callers \ {"apply"} : call'[d] = call[d] /\ snap'[d] = snap[d]
  BY <1>1, Named, Ended, Zenon
<1>5. \A l \in Lists : ~Carried(l)' => ~Carried(l) \/ l \in call["apply"].changed
  BY <1>1, Named, Ended, Zenon
<1>6. CacheShape' /\ CacheInv'
  BY <1>0, <1>1, CacheKept, Zenon
<1>7. ShapeInv'
  BY <1>0, <1>1, <1>2, <1>3, <1>6, Zenon DEF ShapeInv, RunShape, runVars
<1>8. BeginInv' /\ RunInv'
  BY <1>0, <1>1, <1>2, <1>3, <1>4, Named, Zenon DEF BeginInv, RunInv, Healthy, runVars
<1>9. SyncInv'
  BY <1>0, <1>1, <1>2, <1>5, Zenon DEF SyncInv, Healthy, CacheStays, runVars
<1> QED
  BY <1>3, <1>6, <1>7, <1>8, <1>9, Zenon DEF Inv

(* Steps of an operation that leave the calls alone.                       *)
LEMMA OperationKeeps ==
    ASSUME Inv, CacheStays, UNCHANGED call, SnapShape', RunShape', BeginInv', RunInv', SyncInv'
    PROVE  Inv'
<1>0. ShapeInv /\ OwnerInv /\ CacheInv
  BY Zenon DEF Inv
<1>1. CacheShape' /\ CacheInv'
  BY <1>0, CacheKept, Zenon
<1>2. CallShape' /\ OwnerInv'
  BY <1>0, Zenon DEF ShapeInv, CallShape, OwnerInv, CacheStays
<1> QED
  BY <1>1, <1>2, Zenon DEF Inv, ShapeInv

(* When the generation moves, every refresh is outdated.                   *)
LEMMA OutdatedShape ==
    ASSUME ShapeInv, snap' = Outdated
    PROVE  SnapShape' /\ snap'["auto"].stale = TRUE
  BY Named, Zenon DEF ShapeInv, SnapShape, Outdated

(* The prepared configuration is applied.                                  *)
LEMMA ApplyReconcilesKeeps ==
    ASSUME Inv, ApplyReconciles
    PROVE  Inv'
<1>0. ShapeInv /\ BeginInv /\ RunInv
  BY Zenon DEF Inv
<1>1. /\ CacheStays /\ UNCHANGED <<call, loop>> /\ loop = "idle" /\ op.at = "reconcile"
      /\ cfg' = op.cfg
  BY Zenon DEF ApplyReconciles, CacheStays
<1>2. SnapShape' /\ snap'["auto"].stale = TRUE
  BY <1>0, OutdatedShape, Zenon DEF ApplyReconciles
<1>3. CASE /\ sets' = SetsFrom(op.cfg) /\ active' = TRUE /\ runtime' = "applying"
           /\ op' = [op EXCEPT !.at = "resolver"]
  <2>1. op'.at = "resolver" /\ RunShape'
    BY <1>0, <1>3, Zenon DEF ShapeInv, RunShape, RuntimeStates
  <2>2. BeginInv' /\ RunInv'
    BY <1>0, <1>1, <1>2, <1>3, <2>1, Zenon DEF BeginInv, RunInv
  <2>3. \A l \in Lists : l \in cfg'.route => sets'[l] = files'[l].body
    BY <1>1, <1>3, Zenon DEF SetsFrom, CacheStays
  <2>4. SyncInv'
    BY <2>1, <2>3, Zenon DEF SyncInv
  <2> QED
    BY <1>1, <1>2, <2>1, <2>2, <2>4, OperationKeeps, Zenon
<1>4. CASE runtime' = Moved(runtime, "broken") /\ op' = NoOp /\ UNCHANGED active
  <2>1. op'.at = "idle" /\ RunShape' /\ runtime' = "broken"
    BY <1>0, <1>4, Moves, Zenon DEF ShapeInv, RunShape, RuntimeStates, NoOp
  <2>2. BeginInv' /\ RunInv' /\ SyncInv'
    BY <1>0, <1>1, <1>2, <2>1, Zenon DEF BeginInv, RunInv, SyncInv, Healthy
  <2> QED
    BY <1>1, <1>2, <2>1, <2>2, OperationKeeps, Zenon
<1> QED
  BY <1>3, <1>4, Zenon DEF ApplyReconciles

(* The startup asks for the lists it lacks.                                *)
LEMMA StartupBeginsKeeps ==
    ASSUME Inv, StartupBegins
    PROVE  Inv'
<1> DEFINE key == [cfg |-> cfg, uncached |-> TRUE, targets |-> {}]
<1>1. /\ CacheStays /\ UNCHANGED <<runVars, loop, excused>> /\ loop = "idle"
      /\ op.at = "boot" /\ op' = [op EXCEPT !.at = "lists"]
      /\ Begins("boot", key, cfg.lists, FALSE)
  BY Zenon DEF StartupBegins, CacheStays, cacheVars
<1>2. call["boot"].at = "out"
  BY <1>1, Zenon DEF Inv, BeginInv
<1> HIDE DEF key
<1> QED
  BY <1>1, <1>2, Named, BeginsKeeps, Zenon

(* It sets up the runtime with what there is.                              *)
LEMMA StartupContinuesKeeps ==
    ASSUME Inv, StartupContinues
    PROVE  Inv'
<1>0. ShapeInv /\ OwnerInv /\ BeginInv /\ CacheInv /\ RunInv
  BY Zenon DEF Inv
<1>1. /\ CacheStays /\ UNCHANGED <<cfg, active, loop>> /\ op.at = "lists"
      /\ Returned("boot") /\ Ends("boot")
  BY Zenon DEF StartupContinues, CacheStays
<1>2. /\ DOMAIN op' = {"at", "cfg"}
      /\ \/ op'.at = "resolver" /\ runtime' = runtime /\ sets' = SetsFrom(cfg)
         \/ op'.at = "idle" /\ runtime' = "broken"
  BY <1>0, Moves DEF StartupContinues, NoOp, ShapeInv, RunShape
<1>3. CallShape' /\ SnapShape' /\ OwnerInv' /\ call'["boot"].at = "out"
  BY <1>1, Named, Ended, Zenon
<1>4. \A d \in Callers \ {"boot"} : call'[d] = call[d] /\ snap'[d] = snap[d]
  BY <1>1, Named, Ended, Zenon
<1>5. CacheShape' /\ CacheInv'
  BY <1>0, <1>1, CacheKept, Zenon
<1>6. ShapeInv'
  BY <1>0, <1>1, <1>2, <1>3, <1>5, Zenon DEF ShapeInv, RunShape, RuntimeStates
<1>7. BeginInv' /\ RunInv'
  BY <1>0, <1>1, <1>2, <1>3, <1>4, Named, Zenon DEF BeginInv, RunInv, Healthy
<1>8. sets' = SetsFrom(cfg) => \A l \in Lists : l \in cfg.route => sets'[l] = files[l].body
  BY Zenon DEF SetsFrom
<1>9. SyncInv'
  BY <1>1, <1>2, <1>8, Zenon DEF SyncInv, Healthy, CacheStays
<1> QED
  BY <1>3, <1>5, <1>6, <1>7, <1>9, Zenon DEF Inv

(* The resolver has the lists of the rules.                                *)
LEMMA ResolverKeeps ==
    ASSUME Inv, Resolver
    PROVE  Inv'
<1>0. ShapeInv /\ BeginInv /\ RunInv /\ SyncInv
  BY Zenon DEF Inv
<1>1. /\ CacheStays /\ UNCHANGED <<call, snap, loop, cfg, active, sets, excused>>
      /\ op.at = "resolver"
  BY Zenon DEF Resolver, CacheStays
<1>2. /\ DOMAIN op' = {"at", "cfg"}
      /\ \/ op'.at = "complete" /\ runtime' = runtime /\ dns' = DnsFrom(cfg)
         \/ op'.at = "idle" /\ runtime' = "broken"
  BY <1>0, Moves DEF Resolver, NoOp, ShapeInv, RunShape
<1>3. SnapShape' /\ RunShape'
  BY <1>0, <1>1, <1>2, Zenon DEF ShapeInv, SnapShape, RunShape, RuntimeStates
<1>4. BeginInv' /\ RunInv'
  BY <1>0, <1>1, <1>2, Zenon DEF BeginInv, RunInv, Healthy
<1>5. dns' = DnsFrom(cfg) =>
          \A l \in Lists : l \in cfg.dns \cup cfg.route => dns'[l] = files[l].body
  BY Zenon DEF DnsFrom, Relevant
<1>6. SyncInv'
  BY <1>0, <1>1, <1>2, <1>5, Zenon DEF SyncInv, Healthy, Carried, Carries, CacheStays
<1> QED
  BY <1>1, <1>3, <1>4, <1>6, OperationKeeps, Zenon

(* The operation ends.                                                     *)
LEMMA CompletesKeeps ==
    ASSUME Inv, Completes
    PROVE  Inv'
<1>0. ShapeInv /\ BeginInv /\ RunInv /\ SyncInv
  BY Zenon DEF Inv
<1>1. /\ CacheStays /\ UNCHANGED <<call, snap, loop, cfg, active, sets, dns, behind, excused>>
      /\ op.at = "complete" /\ op' = NoOp
  BY Zenon DEF Completes, CacheStays, cacheVars
<1>2. runtime' = "broken" \/ (runtime' = "running" /\ Healthy)
  BY <1>0, Moves, Zenon DEF Completes, Healthy
<1>3. SnapShape' /\ RunShape' /\ op'.at = "idle"
  BY <1>0, <1>1, <1>2, Zenon DEF ShapeInv, SnapShape, RunShape, RuntimeStates, NoOp
<1>4. BeginInv' /\ RunInv'
  BY <1>0, <1>1, <1>2, <1>3, Zenon DEF BeginInv, RunInv, Healthy
<1>5. SyncInv'
  BY <1>0, <1>1, <1>2, <1>3, Zenon DEF SyncInv, Healthy, Carried, Carries, CacheStays
<1> QED
  BY <1>1, <1>3, <1>4, <1>5, OperationKeeps, Zenon

(* The runtime is started: it was active, or is set up, or that fails.     *)
LEMMA StartsKeeps ==
    ASSUME Inv, Starts
    PROVE  Inv'
<1>0. ShapeInv /\ BeginInv /\ RunInv /\ SyncInv
  BY Zenon DEF Inv
<1>1. CacheStays /\ UNCHANGED <<call, loop, cfg, dns, behind>> /\ loop = "idle" /\ op.at = "idle"
  BY Zenon DEF Starts, CacheStays
<1>2. CASE active /\ op' = [at |-> "resolver", cfg |-> cfg]
           /\ UNCHANGED <<runtime, active, sets, excused>>
  <2>1. UNCHANGED snap
    BY <1>2, Zenon DEF Starts
  <2>2. SnapShape' /\ RunShape' /\ op'.at = "resolver"
    BY <1>0, <1>2, <2>1, Zenon DEF ShapeInv, SnapShape, RunShape
  <2>3. BeginInv' /\ RunInv'
    BY <1>0, <1>1, <1>2, <2>1, <2>2, Zenon DEF BeginInv, RunInv, Healthy
  <2>4. SyncInv'
    BY <1>0, <1>1, <1>2, <2>2, Zenon DEF SyncInv, Healthy, Carried, Carries, CacheStays
  <2> QED
    BY <1>1, <2>2, <2>3, <2>4, OperationKeeps, Zenon
<1>3. CASE /\ ~active /\ sets' = SetsFrom(cfg) /\ active' = TRUE /\ runtime' = "applying"
           /\ op' = [at |-> "resolver", cfg |-> cfg]
  <2>1. SnapShape' /\ snap'["auto"].stale = TRUE
    BY <1>0, <1>3, OutdatedShape, Zenon DEF Starts
  <2>2. RunShape' /\ op'.at = "resolver"
    BY <1>3, Zenon DEF RunShape, RuntimeStates
  <2>3. BeginInv' /\ RunInv'
    BY <1>0, <1>1, <1>3, <2>1, <2>2, Zenon DEF BeginInv, RunInv
  <2>4. \A l \in Lists : l \in cfg'.route => sets'[l] = files'[l].body
    BY <1>1, <1>3, Zenon DEF SetsFrom, CacheStays
  <2>5. SyncInv'
    BY <2>2, <2>4, Zenon DEF SyncInv
  <2> QED
    BY <1>1, <2>1, <2>2, <2>3, <2>5, OperationKeeps, Zenon
<1>4. CASE ~active /\ runtime' = Moved(runtime, "broken") /\ UNCHANGED <<active, op>>
  <2>1. SnapShape' /\ snap'["auto"].stale = TRUE
    BY <1>0, <1>4, OutdatedShape, Zenon DEF Starts
  <2>2. RunShape' /\ runtime' = "broken"
    BY <1>0, <1>4, Moves, Zenon DEF ShapeInv, RunShape, RuntimeStates
  <2>3. BeginInv' /\ RunInv' /\ SyncInv'
    BY <1>0, <1>1, <1>4, <2>1, <2>2, Zenon DEF BeginInv, RunInv, SyncInv, Healthy
  <2> QED
    BY <1>1, <2>1, <2>2, <2>3, OperationKeeps, Zenon
<1> QED
  BY <1>2, <1>3, <1>4, Zenon DEF Starts

(* The runtime is stopped.                                                 *)
LEMMA StopsKeeps ==
    ASSUME Inv, Stops
    PROVE  Inv'
<1>0. ShapeInv /\ BeginInv /\ RunInv
  BY Zenon DEF Inv
<1>1. CacheStays /\ UNCHANGED <<call, loop, cfg, op>> /\ loop = "idle" /\ active' = FALSE
  BY Zenon DEF Stops, CacheStays
<1>2. RunShape' /\ ~Healthy'
  BY <1>0, <1>1, Moves, Zenon DEF Stops, ShapeInv, RunShape, RunInv, Healthy,
     RuntimeStates
<1>3. CASE active
  <2>1. SnapShape' /\ snap'["auto"].stale = TRUE
    BY <1>0, <1>3, OutdatedShape, Zenon DEF Stops
  <2>2. BeginInv' /\ RunInv' /\ SyncInv'
    BY <1>0, <1>1, <1>2, <2>1, Zenon DEF BeginInv, RunInv, SyncInv
  <2> QED
    BY <1>1, <1>2, <2>1, <2>2, OperationKeeps, Zenon
<1>4. CASE ~active
  <2>1. UNCHANGED snap
    BY <1>4, Zenon DEF Stops
  <2>2. SnapShape' /\ active = FALSE
    BY <1>0, <1>4, <2>1, Zenon DEF ShapeInv, SnapShape, RunShape
  <2>3. BeginInv' /\ RunInv' /\ SyncInv'
    BY <1>0, <1>1, <1>2, <2>1, <2>2, Zenon DEF BeginInv, RunInv, SyncInv
  <2> QED
    BY <1>1, <1>2, <2>2, <2>3, OperationKeeps, Zenon
<1> QED
  BY <1>3, <1>4, Zenon

(* The daemon dies.                                                        *)
LEMMA CrashKeeps ==
    ASSUME Inv, Crash
    PROVE  Inv'
<1>0. ShapeInv /\ CacheInv
  BY Zenon DEF Inv
<1>1. /\ UNCHANGED <<files, tmp>>
      /\ dl' = [c \in Callers |-> NoDownload]
      /\ cut' = cut \cup {dl[c].list : c \in {d \in Callers : dl[d].at = "meta"}}
      /\ call' = [c \in Callers |-> NoCall]
  BY Zenon DEF Crash, DownloadsDie
<1>2. /\ CacheShape'
      /\ \A c \in Callers : dl'[c].at = "none"
  BY <1>0, <1>1, Zenon DEF ShapeInv, CacheShape, NoDownload
<1>3. /\ CallShape'
      /\ \A c \in Callers : call'[c].at = "out" /\ call'[c].changed = {}
  BY <1>1, Zenon DEF CallShape, CallFields, NoCall
<1>4. SnapShape' /\ RunShape' /\ op'.at = "boot" /\ loop' = "idle" /\ active' = TRUE
  BY Zenon DEF Crash, SnapShape, NoSnap, RunShape, RuntimeStates, Startup
<1>5. OwnerInv' /\ BeginInv' /\ RunInv' /\ SyncInv'
  BY <1>2, <1>3, <1>4, Named, Zenon DEF OwnerInv, BeginInv, RunInv, SyncInv
<1>6. CacheInv'
  <2>1. MetaDescribesBody'
    BY <1>0, <1>1 DEF CacheInv, MetaDescribesBody
  <2> QED
    BY <1>2, <2>1, Zenon DEF CacheInv
<1> QED
  BY <1>2, <1>3, <1>4, <1>5, <1>6, Zenon DEF Inv, ShapeInv

-------------------------------------------------------------------------------
(* The invariant holds at first.                                           *)
LEMMA InvInit == Init => Inv
<1> SUFFICES ASSUME Init PROVE Inv
  OBVIOUS
<1>1. /\ CacheShape
      /\ \A c \in Callers : dl[c].at = "none"
      /\ \A l \in Lists : files[l].meta = None
  BY Zenon DEF Init, ServiceInit, CacheInit, CacheShape, NoFiles, NoDownload
<1>2. /\ CallShape
      /\ \A c \in Callers : call[c].at = "out" /\ call[c].changed = {}
  BY Zenon DEF Init, ServiceInit, CallShape, CallFields, NoCall
<1>3. SnapShape /\ RunShape /\ op.at = "boot" /\ loop = "idle" /\ active = TRUE
  BY Zenon DEF Init, SnapShape, NoSnap, RunShape, RuntimeStates, Startup
<1>4. OwnerInv /\ BeginInv /\ RunInv /\ SyncInv
  BY <1>1, <1>2, <1>3, Named, Zenon DEF OwnerInv, BeginInv, RunInv, SyncInv
<1>5. CacheInv
  BY <1>1, Zenon DEF CacheInv, MetaDescribesBody
<1> QED
  BY <1>1, <1>2, <1>3, <1>4, <1>5, Zenon DEF Inv, ShapeInv

(* Every step keeps the invariant.                                         *)
LEMMA InvNext == Inv /\ [Next]_vars => Inv'
<1> SUFFICES ASSUME Inv, [Next]_vars PROVE Inv'
  OBVIOUS
<1>1. CASE Next
  BY <1>1, ServesKeeps, AutoFiresKeeps, ApiBeginsKeeps, IpcBeginsKeeps, ApplyBeginsKeeps,
     AutoCommitKeeps, ApiPostsKeeps, ApiCommitKeeps, IpcEndsKeeps, ApplyPreparedKeeps,
     ApplyReconcilesKeeps, StartupBeginsKeeps, StartupContinuesKeeps, ResolverKeeps,
     CompletesKeeps, StartsKeeps, StopsKeeps, CrashKeeps, Zenon
     DEF Next, Proceeds
<1>2. CASE UNCHANGED vars
  BY <1>2, StillKeeps, Zenon DEF vars, serviceVars, cacheVars, CacheStays, Rest
<1> QED
  BY <1>1, <1>2, Zenon

(* The invariant holds in every state the lists can get into.              *)
THEOREM Invariance == Spec => []Inv
  BY InvInit, InvNext, PTL DEF Spec

(* The ETag that the next request sends belongs to the body in the cache,  *)
(* unless a write of the two was cut off: however the callers of           *)
(* download_remote_lists() are interleaved, one at a time writes the       *)
(* temporary files of CacheManager::download().                            *)
THEOREM EtagBelongsToBody == Spec => []MetaDescribesBody
<1>1. Inv => MetaDescribesBody
  BY Zenon DEF Inv, CacheInv
<1> QED
  BY <1>1, Invariance, PTL

(* When nothing is under way and the runtime is running, the sets and      *)
(* dnsmasq hold what is in the cache, whoever downloaded it: the commits   *)
(* of the timer, the API and IPC, the applies and the startup bring every  *)
(* list into the sets, and every list of a DNS rule to dnsmasq, that they  *)
(* have not been excused from; a list that route rules alone use is what   *)
(* dnsmasq was last reloaded with (list_service.cpp:85).                   *)
THEOREM SetsAreCurrent == Spec => []SetsFollowCache
<1>1. Inv => SetsFollowCache
  <2> SUFFICES ASSUME Inv, Quiet, runtime = "running" PROVE SetsFollowCache
    BY Zenon DEF SetsFollowCache
  <2>1. \A c \in Callers : dl[c].at = "none" /\ call[c].changed = {}
    BY Zenon DEF Inv, OwnerInv, Quiet
  <2>2. \A l \in Lists : ~Carried(l)
    BY <2>1, Zenon DEF Carried, Carries
  <2> QED
    BY <2>2, Zenon DEF Inv, SyncInv, Healthy, Quiet, SetsFollowCache
<1> QED
  BY <1>1, Invariance, PTL
-----------------------------------------------------------------------------
(* The loop of PathLen                                                     *)
LengthRounds(g, row) == g[0] = 0 /\ \A n \in 1 .. Len(row) : g[n] = g[n - 1] + 1 + row[n].len

(* The length of a row is computed domain by domain.                       *)
LEMMA LengthLoop ==
    ASSUME NEW row \in Seq(DomainSet)
    PROVE  \E g \in [0 .. Len(row) -> Nat] :
               LengthRounds(g, row) /\ PathLen(row) = g[Len(row)]
<1> DEFINE N == Len(row)
           Round(q, n) == q + 1 + row[n].len
           Body(f, n) == IF n = 0 THEN 0 ELSE f[n - 1] + 1 + row[n].len
           step == [n \in 1 .. N |-> [q \in Nat |-> Round(q, n)]]
<1>1. N \in Nat /\ (\A n \in 1 .. N : row[n].len \in Nat) /\ 0 \in Nat
  <2>1. N \in Nat /\ \A n \in 1 .. N : row[n] \in DomainSet
    BY SeqFacts, Zenon
  <2>2. \A d \in DomainSet : d.len \in Nat
    BY DEF DomainSet
  <2> QED
    BY <2>1, <2>2
<1>2. ASSUME NEW q \in Nat, NEW n \in 1 .. N PROVE Round(q, n) \in Nat
  BY <1>1
<1>3. PathLen(row) = (CHOOSE f : f = [n \in 0 .. N |-> Body(f, n)])[N]
  BY Zenon DEF PathLen
<1>4. \A f, n : n # 0 => Body(f, n) = Round(f[n - 1], n)
  BY Zenon
<1>5. \A f : Body(f, 0) = 0
  BY Zenon
<1>6. \A n, f : n # 0 => (Body(f, n) = f[n - 1] + 1 + row[n].len)
  BY Zenon
<1> HIDE DEF N, Round, Body
<1>7. step \in [1 .. N -> [Nat -> Nat]]
  BY <1>2, Zenon
<1>8. \A n \in 1 .. N, q \in Nat : step[n][q] = Round(q, n)
  OBVIOUS
<1> HIDE DEF step
<1>9. \A n \in 1 .. N : n - 1 \in 0 .. N /\ n \in 0 .. N /\ n # 0
  BY <1>1
<1>10. 0 \in 0 .. N /\ N \in 0 .. N
  BY <1>1
<1>11. PICK f \in [0 .. N -> Nat] : Iterates(f, N, 0, step)
  BY <1>1, <1>7, Recursion, Zenon
<1>12. ASSUME NEW n \in 0 .. N PROVE f[n] = Body(f, n)
  <2>1. CASE n = 0
    BY <2>1, <1>5, <1>11, Zenon DEF Iterates
  <2>2. CASE n # 0
    <3>1. n \in 1 .. N
      BY <2>2, <1>1
    <3>2. f[n] = step[n][f[n - 1]] /\ f[n - 1] \in Nat
      BY <3>1, <1>9, <1>11, Zenon DEF Iterates
    <3>3. step[n][f[n - 1]] = Round(f[n - 1], n)
      BY <3>1, <3>2, <1>8, Zenon
    <3>4. Body(f, n) = Round(f[n - 1], n)
      BY <2>2, <1>4, Zenon
    <3> QED
      BY <3>2, <3>3, <3>4, Zenon
  <2> QED
    BY <2>1, <2>2, Zenon
<1>13. f = [n \in 0 .. N |-> Body(f, n)]
  BY <1>11, <1>12, Zenon
<1> DEFINE g == CHOOSE h : h = [n \in 0 .. N |-> Body(h, n)]
<1>14. g = [n \in 0 .. N |-> Body(g, n)]
  BY <1>13, Zenon
<1>15. PathLen(row) = g[N]
  BY <1>3, Zenon
<1> HIDE DEF g
<1>16. \A n \in 0 .. N : g[n] = Body(g, n)
  BY <1>14, Zenon
<1>17. g[0] = 0
  BY <1>5, <1>10, <1>16, Zenon
<1>18. \A n \in 1 .. N : g[n] = Round(g[n - 1], n) /\ g[n] = g[n - 1] + 1 + row[n].len
  BY <1>4, <1>6, <1>9, <1>16, Zenon
<1> DEFINE T == {n \in 0 .. N : g[n] \in Nat}
<1>19. \A n \in 0 .. N : n \in T /\ n < N => n + 1 \in T
  <2> SUFFICES ASSUME NEW n \in 0 .. N, n \in T, n < N PROVE n + 1 \in T
    OBVIOUS
  <2>1. n + 1 \in 1 .. N /\ (n + 1) - 1 = n /\ n + 1 \in 0 .. N
    BY <1>1
  <2> QED
    BY <2>1, <1>2, <1>18, Zenon
<1>20. 0 \in T
  BY <1>1, <1>10, <1>17, Zenon
<1>21. \A n \in 0 .. N : g[n] \in Nat
  <2> HIDE DEF T
  <2>1. \A n \in 0 .. N : n \in T
    BY <1>1, <1>19, <1>20, UpTo
  <2> QED
    BY <2>1 DEF T
<1>22. g \in [0 .. N -> Nat]
  BY <1>14, <1>21, Zenon
<1> QED
  <2>1. LengthRounds(g, row)
    BY <1>17, <1>18, Zenon DEF N, LengthRounds
  <2> QED
    BY <2>1, <1>15, <1>22, Zenon DEF N

(* A row is as long as its domains, with a slash before each.              *)
LEMMA LengthFacts ==
    ASSUME NEW row \in Seq(DomainSet), NEW d \in DomainSet
    PROVE  /\ PathLen(row) \in Nat /\ PathLen(<<>>) = 0 /\ d.len \in Nat
           /\ PathLen(Append(row, d)) = PathLen(row) + 1 + d.len
<1> DEFINE N == Len(row)
           more == Append(row, d)
<1>1. /\ more \in Seq(DomainSet) /\ Len(more) = N + 1 /\ more[N + 1] = d /\ N \in Nat
      /\ \A n \in 1 .. N : more[n] = row[n]
  OBVIOUS
<1>2. d.len \in Nat
  BY DEF DomainSet
<1>3. PathLen(<<>>) = 0
  <2>1. <<>> \in Seq(DomainSet) /\ Len(<<>>) = 0
    OBVIOUS
  <2>2. PICK e \in [0 .. Len(<<>>) -> Nat] : LengthRounds(e, <<>>) /\ PathLen(<<>>) = e[Len(<<>>)]
    BY <2>1, LengthLoop, Zenon
  <2> QED
    BY <2>1, <2>2, Zenon DEF LengthRounds
<1>4. PICK g \in [0 .. N -> Nat] : LengthRounds(g, row) /\ PathLen(row) = g[N]
  BY LengthLoop, Zenon
<1>5. PICK h \in [0 .. Len(more) -> Nat] : LengthRounds(h, more) /\ PathLen(more) = h[Len(more)]
  BY <1>1, LengthLoop, Zenon
<1> HIDE DEF N, more
<1> DEFINE T == {n \in 0 .. N : h[n] = g[n]}
<1>6. /\ g[0] = 0 /\ h[0] = 0
      /\ \A n \in 1 .. N : g[n] = g[n - 1] + 1 + row[n].len /\ h[n] = h[n - 1] + 1 + row[n].len
      /\ h[N + 1] = h[N] + 1 + d.len
  <2>1. \A n \in 1 .. N : n \in 1 .. Len(more)
    BY <1>1
  <2>2. N + 1 \in 1 .. Len(more) /\ (N + 1) - 1 = N
    BY <1>1
  <2>3. h[N + 1] = h[(N + 1) - 1] + 1 + d.len
    BY <2>2, <1>1, <1>5, Zenon DEF LengthRounds
  <2>4. \A n \in 1 .. N : h[n] = h[n - 1] + 1 + row[n].len
    BY <2>1, <1>1, <1>5, Zenon DEF LengthRounds
  <2> QED
    BY <2>2, <2>3, <2>4, <1>4, <1>5, Zenon DEF LengthRounds, N
<1>7. 0 \in T /\ N \in 0 .. N
  BY <1>1, <1>6
<1>8. \A n \in 0 .. N : n \in T /\ n < N => n + 1 \in T
  <2> SUFFICES ASSUME NEW n \in 0 .. N, n \in T, n < N PROVE n + 1 \in T
    BY Zenon
  <2>1. n + 1 \in 1 .. N /\ (n + 1) - 1 = n /\ n + 1 \in 0 .. N
    BY <1>1
  <2>2. g[n + 1] = g[(n + 1) - 1] + 1 + row[n + 1].len /\ h[n + 1] = h[(n + 1) - 1] + 1 + row[n + 1].len
    BY <2>1, <1>6, Zenon
  <2> QED
    BY <2>1, <2>2, Zenon
<1>9. \A n \in 0 .. N : n \in T
  <2> HIDE DEF T
  <2> QED
    BY <1>1, <1>7, <1>8, UpTo
<1>10. h[N] = g[N]
  BY <1>7, <1>9, Zenon
<1>11. PathLen(more) = PathLen(row) + 1 + d.len /\ PathLen(row) \in Nat
  BY <1>1, <1>4, <1>5, <1>6, <1>7, <1>10, Zenon
<1> QED
  BY <1>2, <1>3, <1>11, Zenon DEF more

(* A sequence more, behind the others                                      *)
LEMMA FlattenAppend ==
    ASSUME NEW X, NEW ss \in Seq(Seq(X)), NEW s \in Seq(X)
    PROVE  FlattenSeq(Append(ss, s)) = FlattenSeq(ss) \o s /\ FlattenSeq(<<>>) = <<>>
<1> DEFINE N == Len(ss)
           more == Append(ss, s)
           D == Seq(X)
<1>1. /\ more \in Seq(D) /\ Len(more) = N + 1 /\ more[N + 1] = s /\ N \in Nat
      /\ \A n \in 1 .. N : more[n] = ss[n]
  <2> HIDE DEF D
  <2>1. ss \in Seq(D) /\ s \in D
    BY DEF D
  <2> QED
    BY <2>1
<1>2. FlattenSeq(<<>>) = <<>>
  <2>1. <<>> \in Seq(D) /\ Len(<<>>) = 0
    OBVIOUS
  <2>2. PICK e \in [0 .. Len(<<>>) -> D] : FlattenRounds(e, <<>>) /\ FlattenSeq(<<>>) = e[Len(<<>>)]
    BY <2>1, FlattenLoop, Zenon
  <2> QED
    BY <2>1, <2>2, Zenon DEF FlattenRounds
<1>3. PICK g \in [0 .. N -> D] : FlattenRounds(g, ss) /\ FlattenSeq(ss) = g[N]
  BY FlattenLoop, Zenon
<1>4. PICK h \in [0 .. Len(more) -> D] : FlattenRounds(h, more) /\ FlattenSeq(more) = h[Len(more)]
  BY <1>1, FlattenLoop, Zenon
<1> HIDE DEF N, more, D
<1> DEFINE T == {n \in 0 .. N : h[n] = g[n]}
<1>5. /\ g[0] = <<>> /\ h[0] = <<>>
      /\ \A n \in 1 .. N : g[n] = g[n - 1] \o ss[n] /\ h[n] = h[n - 1] \o ss[n]
      /\ h[N + 1] = h[N] \o s
  <2>1. \A n \in 1 .. N : n \in 1 .. Len(more)
    BY <1>1
  <2>2. N + 1 \in 1 .. Len(more) /\ (N + 1) - 1 = N
    BY <1>1
  <2>3. h[N + 1] = h[(N + 1) - 1] \o s
    BY <2>2, <1>1, <1>4, Zenon DEF FlattenRounds
  <2>4. \A n \in 1 .. N : h[n] = h[n - 1] \o ss[n]
    BY <2>1, <1>1, <1>4, Zenon DEF FlattenRounds
  <2> QED
    BY <2>2, <2>3, <2>4, <1>3, <1>4, Zenon DEF FlattenRounds, N
<1>6. 0 \in T /\ N \in 0 .. N
  BY <1>1, <1>5
<1>7. \A n \in 0 .. N : n \in T /\ n < N => n + 1 \in T
  <2> SUFFICES ASSUME NEW n \in 0 .. N, n \in T, n < N PROVE n + 1 \in T
    BY Zenon
  <2>1. n + 1 \in 1 .. N /\ (n + 1) - 1 = n /\ n + 1 \in 0 .. N
    BY <1>1
  <2>2. g[n + 1] = g[(n + 1) - 1] \o ss[n + 1] /\ h[n + 1] = h[(n + 1) - 1] \o ss[n + 1]
    BY <2>1, <1>5, Zenon
  <2> QED
    BY <2>1, <2>2, Zenon
<1>8. \A n \in 0 .. N : n \in T
  <2> HIDE DEF T
  <2> QED
    BY <1>1, <1>6, <1>7, UpTo
<1>9. FlattenSeq(more) = FlattenSeq(ss) \o s
  BY <1>1, <1>3, <1>4, <1>5, <1>6, <1>8, Zenon
<1> QED
  BY <1>2, <1>9, Zenon DEF more

(* Appending behind a concatenation                                        *)
LEMMA ConcatAppend ==
    ASSUME NEW X, NEW s \in Seq(X), NEW t \in Seq(X), NEW x \in X
    PROVE  /\ s \o t \in Seq(X) /\ s \o <<>> = s /\ <<>> \o s = s /\ Append(t, x) \in Seq(X)
           /\ s \o Append(t, x) = Append(s \o t, x) /\ <<x>> = Append(<<>>, x)
  OBVIOUS

-------------------------------------------------------------------------------
(* The rows that are written and the one that is being filled              *)
Batches == [rows : Seq(Seq(DomainSet)), path : Seq(DomainSet)]

CarriedBy(b) == FlattenSeq(b.rows) \o b.path

RowFits(row, room) == Len(row) \in 0 .. BatchSize /\ PathLen(row) <= room

BatchFits(b, room) ==
    /\ RowFits(b.path, room)
    /\ \A i \in DOMAIN b.rows : RowFits(b.rows[i], room) /\ b.rows[i] # <<>>

(* A flush moves the row behind the others.                                *)
LEMMA FlushFacts ==
    ASSUME NEW b \in Batches, NEW room, BatchFits(b, room)
    PROVE  /\ FlushBatch(b) \in Batches /\ FlushBatch(b).path = <<>>
           /\ CarriedBy(FlushBatch(b)) = CarriedBy(b) /\ FlattenSeq(FlushBatch(b).rows) = CarriedBy(b)
           /\ \A i \in DOMAIN FlushBatch(b).rows :
                  RowFits(FlushBatch(b).rows[i], room) /\ FlushBatch(b).rows[i] # <<>>
<1> DEFINE D == Seq(DomainSet)
           after == [rows |-> Append(b.rows, b.path), path |-> <<>>]
<1>1. b.rows \in Seq(D) /\ b.path \in D /\ <<>> \in D
  BY DEF Batches
<1>2. CarriedBy(b) = FlattenSeq(b.rows) \o b.path /\ FlattenSeq(b.rows) \in D
  BY <1>1, FlattenFacts, Zenon DEF CarriedBy
<1>3. CASE b.path = <<>>
  <2>1. FlushBatch(b) = b
    BY <1>3, Zenon DEF FlushBatch
  <2>2. FlattenSeq(b.rows) \o <<>> = FlattenSeq(b.rows)
    BY <1>2
  <2> QED
    BY <2>1, <2>2, <1>2, <1>3, Zenon DEF BatchFits
<1>4. CASE b.path # <<>>
  <2>1. FlushBatch(b) = after /\ after.rows = Append(b.rows, b.path) /\ after.path = <<>>
    BY <1>4 DEF FlushBatch
  <2>2. Append(b.rows, b.path) \in Seq(D)
    <3> HIDE DEF D
    <3> QED
      BY <1>1
  <2>3. after \in Batches
    BY <1>1, <2>2 DEF Batches
  <2> HIDE DEF after
  <2>4. FlattenSeq(after.rows) = CarriedBy(b)
    BY <2>1, <1>1, <1>2, FlattenAppend, Zenon
  <2>5. CarriedBy(after) = FlattenSeq(after.rows)
    <3>1. FlattenSeq(after.rows) \in D
      BY <2>1, <2>2, FlattenFacts, Zenon
    <3>2. FlattenSeq(after.rows) \o <<>> = FlattenSeq(after.rows)
      BY <3>1
    <3> QED
      BY <3>2, <2>1, Zenon DEF CarriedBy
  <2>6. \A i \in DOMAIN after.rows :
            (i \in DOMAIN b.rows /\ after.rows[i] = b.rows[i]) \/ after.rows[i] = b.path
    <3> HIDE DEF D
    <3> QED
      BY <1>1, <2>1
  <2> QED
    BY <2>1, <2>3, <2>4, <2>5, <2>6, <1>4, Zenon DEF BatchFits
<1> QED
  BY <1>3, <1>4, Zenon

(* A domain that fits a row by itself is put behind the others; the rest   *)
(* stays as it was.                                                        *)
LEMMA PushFacts ==
    ASSUME NEW b \in Batches, NEW d \in DomainSet, NEW room \in Nat, BatchFits(b, room)
    PROVE  /\ PushBatch(b, d, room) \in Batches /\ BatchFits(PushBatch(b, d, room), room)
           /\ CarriedBy(PushBatch(b, d, room)) =
                  IF PathLen(<<d>>) <= room THEN Append(CarriedBy(b), d) ELSE CarriedBy(b)
<1> DEFINE D == Seq(DomainSet)
           longer == Append(b.path, d)
           flushed == FlushBatch(b)
           fits == Len(b.path) < BatchSize /\ PathLen(longer) <= room
           alone == PathLen(<<d>>) <= room
<1>1. /\ b.rows \in Seq(D) /\ b.path \in D /\ <<>> \in D /\ longer \in D
      /\ Len(longer) = Len(b.path) + 1 /\ Len(b.path) \in Nat /\ BatchSize \in Nat /\ BatchSize # 0
  BY GeneratorAssumption DEF Batches
<1>2. /\ PathLen(longer) = PathLen(b.path) + 1 + d.len /\ PathLen(b.path) \in Nat /\ d.len \in Nat
      /\ PathLen(<<>>) = 0 /\ PathLen(Append(<<>>, d)) = 0 + 1 + d.len
  BY <1>1, LengthFacts, Zenon
<1>3. <<d>> = Append(<<>>, d) /\ <<d>> \in D /\ Len(<<d>>) = 1 /\ Len(<<>>) = 0
  OBVIOUS
<1>4. CarriedBy(b) = FlattenSeq(b.rows) \o b.path /\ FlattenSeq(b.rows) \in D
  BY <1>1, FlattenFacts, Zenon DEF CarriedBy
<1>5. /\ flushed \in Batches /\ flushed.path = <<>>
      /\ CarriedBy(flushed) = CarriedBy(b) /\ FlattenSeq(flushed.rows) = CarriedBy(b)
      /\ \A i \in DOMAIN flushed.rows : RowFits(flushed.rows[i], room) /\ flushed.rows[i] # <<>>
  BY FlushFacts, Zenon
<1> HIDE DEF flushed, longer
<1>6. CASE fits
  <2> DEFINE p == [b EXCEPT !.path = longer]
  <2>1. PushBatch(b, d, room) = p
    BY <1>6, Zenon DEF PushBatch, longer
  <2>2. p \in Batches /\ p.rows = b.rows /\ p.path = longer
    BY <1>1 DEF Batches
  <2> HIDE DEF p
  <2>3. alone
    BY <1>2, <1>3, <1>6
  <2>4. RowFits(longer, room)
    BY <1>1, <1>6 DEF RowFits
  <2>5. BatchFits(p, room)
    BY <2>2, <2>4, Zenon DEF BatchFits
  <2>6. FlattenSeq(b.rows) \o longer = Append(FlattenSeq(b.rows) \o b.path, d)
    <3>1. \A s, t \in Seq(DomainSet) : s \o Append(t, d) = Append(s \o t, d)
      OBVIOUS
    <3> QED
      BY <3>1, <1>1, <1>4, Zenon DEF longer
  <2> QED
    BY <2>1, <2>2, <2>3, <2>5, <2>6, <1>4, Zenon DEF CarriedBy
<1>7. CASE ~fits /\ alone
  <2> DEFINE p == [flushed EXCEPT !.path = <<d>>]
  <2>1. PushBatch(b, d, room) = p
    BY <1>7, Zenon DEF PushBatch, longer, flushed
  <2>2. p \in Batches /\ p.rows = flushed.rows /\ p.path = <<d>>
    BY <1>3, <1>5 DEF Batches
  <2> HIDE DEF p
  <2>3. RowFits(<<d>>, room)
    BY <1>1, <1>3, <1>7 DEF RowFits
  <2>4. BatchFits(p, room)
    BY <2>2, <2>3, <1>5, Zenon DEF BatchFits
  <2>5. CarriedBy(p) = Append(CarriedBy(b), d)
    <3>1. CarriedBy(b) \in D
      BY <1>1, <1>4
    <3>2. CarriedBy(b) \o <<d>> = Append(CarriedBy(b), d)
      BY <3>1
    <3> QED
      BY <3>2, <2>2, <1>5, Zenon DEF CarriedBy
  <2> QED
    BY <2>1, <2>2, <2>4, <2>5, <1>7, Zenon
<1>8. CASE ~fits /\ ~alone
  <2>1. PushBatch(b, d, room) = flushed
    BY <1>8, Zenon DEF PushBatch, longer, flushed
  <2>2. RowFits(<<>>, room)
    BY <1>1, <1>2, <1>3 DEF RowFits
  <2>3. BatchFits(flushed, room)
    BY <2>2, <1>5, Zenon DEF BatchFits
  <2> QED
    BY <2>1, <2>3, <1>5, <1>8, Zenon
<1> QED
  BY <1>6, <1>7, <1>8, Zenon

(* The batches of a loop that has met no domain that cannot be cut         *)
Fitting(room) == {b \in Batches : BatchFits(b, room)}

NoBatch == [rows |-> <<>>, path |-> <<>>]

(* The loop begins with nothing.                                           *)
LEMMA NoBatchFits ==
    ASSUME NEW room \in Nat
    PROVE  NoBatch \in Fitting(room) /\ CarriedBy(NoBatch) = <<>>
<1>1. NoBatch \in Batches /\ NoBatch.rows = <<>> /\ NoBatch.path = <<>>
  BY DEF Batches, NoBatch
<1>2. <<>> \in Seq(DomainSet) /\ <<>> \in Seq(Seq(DomainSet)) /\ Len(<<>>) = 0 /\ <<>> \o <<>> = <<>>
  OBVIOUS
<1>3. PathLen(<<>>) = 0 /\ FlattenSeq(<<>>) = <<>>
  <2>1. PICK g \in [0 .. Len(<<>>) -> Nat] : LengthRounds(g, <<>>) /\ PathLen(<<>>) = g[Len(<<>>)]
    BY <1>2, LengthLoop, Zenon
  <2> QED
    BY <2>1, <1>2, FlattenAppend, Zenon DEF LengthRounds
<1>4. RowFits(<<>>, room)
  BY <1>2, <1>3, GeneratorAssumption DEF RowFits
<1>5. \A i \in DOMAIN <<>> : FALSE
  OBVIOUS
<1> QED
  BY <1>1, <1>2, <1>3, <1>4, <1>5, Zenon DEF Fitting, BatchFits, CarriedBy

(* The loop of Rows                                                        *)
RowRounds(g, domains, room) ==
    /\ g[0] = NoBatch
    /\ \A n \in 1 .. Len(domains) : g[n] = PushBatch(g[n - 1], domains[n], room)

(* Rows are filled domain by domain, and fit after every one of them.      *)
LEMMA RowsLoop ==
    ASSUME NEW domains \in Seq(DomainSet), NEW room \in Nat
    PROVE  \E g \in [0 .. Len(domains) -> Fitting(room)] :
               RowRounds(g, domains, room) /\ Rows(domains, room) = FlushBatch(g[Len(domains)]).rows
<1> DEFINE N == Len(domains)
           D == Fitting(room)
           Round(q, n) == PushBatch(q, domains[n], room)
           Body(f, n) == IF n = 0 THEN NoBatch ELSE PushBatch(f[n - 1], domains[n], room)
           step == [n \in 1 .. N |-> [q \in D |-> Round(q, n)]]
<1>1. N \in Nat /\ (\A n \in 1 .. N : domains[n] \in DomainSet) /\ NoBatch \in D
  BY NoBatchFits, SeqFacts, Zenon
<1>2. ASSUME NEW q \in D, NEW n \in 1 .. N PROVE Round(q, n) \in D
  BY <1>1, PushFacts, Zenon DEF Fitting
<1>3. Rows(domains, room) = FlushBatch((CHOOSE f : f = [n \in 0 .. N |-> Body(f, n)])[N]).rows
  BY Zenon DEF Rows, NoBatch
<1>4. \A f, n : n # 0 => Body(f, n) = Round(f[n - 1], n)
  BY Zenon
<1>5. \A f : Body(f, 0) = NoBatch
  BY Zenon
<1>6. \A n, f : n # 0 => (Body(f, n) = PushBatch(f[n - 1], domains[n], room))
  BY Zenon
<1> HIDE DEF N, D, Round, Body
<1>7. step \in [1 .. N -> [D -> D]]
  BY <1>2, Zenon
<1>8. \A n \in 1 .. N, q \in D : step[n][q] = Round(q, n)
  OBVIOUS
<1> HIDE DEF step
<1>9. \A n \in 1 .. N : n - 1 \in 0 .. N /\ n \in 0 .. N /\ n # 0
  BY <1>1
<1>10. 0 \in 0 .. N /\ N \in 0 .. N
  BY <1>1
<1>11. PICK f \in [0 .. N -> D] : Iterates(f, N, NoBatch, step)
  BY <1>1, <1>7, Recursion, Zenon
<1>12. ASSUME NEW n \in 0 .. N PROVE f[n] = Body(f, n)
  <2>1. CASE n = 0
    BY <2>1, <1>5, <1>11, Zenon DEF Iterates
  <2>2. CASE n # 0
    <3>1. n \in 1 .. N
      BY <2>2, <1>1
    <3>2. f[n] = step[n][f[n - 1]] /\ f[n - 1] \in D
      BY <3>1, <1>9, <1>11, Zenon DEF Iterates
    <3>3. step[n][f[n - 1]] = Round(f[n - 1], n)
      BY <3>1, <3>2, <1>8, Zenon
    <3>4. Body(f, n) = Round(f[n - 1], n)
      BY <2>2, <1>4, Zenon
    <3> QED
      BY <3>2, <3>3, <3>4, Zenon
  <2> QED
    BY <2>1, <2>2, Zenon
<1>13. f = [n \in 0 .. N |-> Body(f, n)]
  BY <1>11, <1>12, Zenon
<1> DEFINE g == CHOOSE h : h = [n \in 0 .. N |-> Body(h, n)]
<1>14. g = [n \in 0 .. N |-> Body(g, n)]
  BY <1>13, Zenon
<1>15. Rows(domains, room) = FlushBatch(g[N]).rows
  BY <1>3, Zenon
<1> HIDE DEF g
<1>16. \A n \in 0 .. N : g[n] = Body(g, n)
  BY <1>14, Zenon
<1>17. g[0] = NoBatch
  BY <1>5, <1>10, <1>16, Zenon
<1>18. \A n \in 1 .. N : g[n] = Round(g[n - 1], n) /\ g[n] = PushBatch(g[n - 1], domains[n], room)
  BY <1>4, <1>6, <1>9, <1>16, Zenon
<1> DEFINE T == {n \in 0 .. N : g[n] \in D}
<1>19. \A n \in 0 .. N : n \in T /\ n < N => n + 1 \in T
  <2> SUFFICES ASSUME NEW n \in 0 .. N, n \in T, n < N PROVE n + 1 \in T
    OBVIOUS
  <2>1. n + 1 \in 1 .. N /\ (n + 1) - 1 = n /\ n + 1 \in 0 .. N
    BY <1>1
  <2> QED
    BY <2>1, <1>2, <1>18, Zenon
<1>20. 0 \in T
  BY <1>1, <1>10, <1>17, Zenon
<1>21. \A n \in 0 .. N : g[n] \in D
  <2> HIDE DEF T
  <2>1. \A n \in 0 .. N : n \in T
    BY <1>1, <1>19, <1>20, UpTo
  <2> QED
    BY <2>1 DEF T
<1>22. g \in [0 .. N -> D]
  BY <1>14, <1>21, Zenon
<1> QED
  <2>1. RowRounds(g, domains, room)
    BY <1>17, <1>18, Zenon DEF N, RowRounds
  <2> QED
    BY <2>1, <1>15, <1>22, Zenon DEF N, D


(* The rows carry the domains that fit, in order and once.                 *)
LEMMA RowsFacts ==
    ASSUME NEW domains \in Seq(DomainSet), NEW room \in Nat
    PROVE  LET rows == Rows(domains, room)
           IN  /\ FlattenSeq(rows) = Keep(domains, {d \in ToSet(domains) : PathLen(<<d>>) <= room})
               /\ \A i \in DOMAIN rows :
                      RowFits(rows[i], room) /\ rows[i] # <<>> /\ rows[i] \in Seq(DomainSet)
<1> DEFINE N == Len(domains)
           S == {d \in ToSet(domains) : PathLen(<<d>>) <= room}
           F == Fitting(room)
<1>1. PICK g \in [0 .. N -> F] :
          RowRounds(g, domains, room) /\ Rows(domains, room) = FlushBatch(g[N]).rows
  BY RowsLoop, Zenon
<1>2. \A n \in 1 .. N : domains[n] \in S <=> PathLen(<<domains[n]>>) <= room
  BY SeqFacts, Zenon DEF ToSet
<1> HIDE DEF S
<1>3. PICK h \in [0 .. N -> Seq(DomainSet)] : KeepRounds(h, domains, S) /\ Keep(domains, S) = h[N]
  BY KeepLoop, Zenon
<1>4. N \in Nat /\ 0 \in 0 .. N /\ N \in 0 .. N /\ \A n \in 1 .. N : domains[n] \in DomainSet
  OBVIOUS
<1> DEFINE T == {n \in 0 .. N : CarriedBy(g[n]) = h[n]}
<1>5. 0 \in T
  BY <1>1, <1>3, <1>4, NoBatchFits, Zenon DEF RowRounds, KeepRounds
<1>6. \A n \in 0 .. N : n \in T /\ n < N => n + 1 \in T
  <2> SUFFICES ASSUME NEW n \in 0 .. N, n \in T, n < N PROVE n + 1 \in T
    OBVIOUS
  <2>1. n + 1 \in 1 .. N /\ (n + 1) - 1 = n /\ n + 1 \in 0 .. N
    BY <1>4
  <2> DEFINE d == domains[n + 1]
  <2>2. h[n + 1] = IF d \in S THEN Append(h[n], d) ELSE h[n]
    BY <2>1, <1>3, Zenon DEF KeepRounds
  <2>3. g[n + 1] = PushBatch(g[n], d, room)
    BY <2>1, <1>1, Zenon DEF RowRounds
  <2>4. d \in DomainSet /\ g[n] \in Batches /\ BatchFits(g[n], room) /\ CarriedBy(g[n]) = h[n]
    BY <2>1, <1>1, <1>4, Zenon DEF Fitting
  <2>5. CarriedBy(g[n + 1]) = IF PathLen(<<d>>) <= room THEN Append(h[n], d) ELSE h[n]
    <3> HIDE DEF d
    <3>1. CarriedBy(PushBatch(g[n], d, room)) =
              IF PathLen(<<d>>) <= room THEN Append(CarriedBy(g[n]), d) ELSE CarriedBy(g[n])
      BY <2>4, PushFacts, Zenon
    <3> QED
      BY <3>1, <2>3, <2>4, Zenon
  <2>6. CarriedBy(g[n + 1]) = h[n + 1]
    BY <2>1, <2>2, <2>5, <1>2, Zenon
  <2> QED
    BY <2>1, <2>6, Zenon
<1>7. \A n \in 0 .. N : n \in T
  <2> HIDE DEF T, N
  <2> QED
    BY <1>4, <1>5, <1>6, UpTo
<1>8. CarriedBy(g[N]) = Keep(domains, S)
  BY <1>3, <1>4, <1>7, Zenon
<1>9. g[N] \in Batches /\ BatchFits(g[N], room)
  BY <1>1, <1>4, Zenon DEF Fitting
<1>10. /\ FlattenSeq(Rows(domains, room)) = Keep(domains, S)
       /\ \A i \in DOMAIN Rows(domains, room) :
              RowFits(Rows(domains, room)[i], room) /\ Rows(domains, room)[i] # <<>>
  BY <1>1, <1>8, <1>9, FlushFacts, Zenon
<1>11. Rows(domains, room) \in Seq(Seq(DomainSet))
  <2>1. \A b \in Batches : b.rows \in Seq(Seq(DomainSet))
    BY DEF Batches
  <2> QED
    BY <2>1, <1>1, <1>9, FlushFacts, Zenon
<1>12. \A i \in DOMAIN Rows(domains, room) : Rows(domains, room)[i] \in Seq(DomainSet)
  BY <1>11, SeqFacts, Zenon
<1> QED
  BY <1>10, <1>12, Zenon DEF S

(* The domains that the collector takes are domains.                       *)
LEMMA DomainsTyped ==
    ASSUME NEW x \in Inputs, NEW l \in DOMAIN x.lists
    PROVE  Domains(x, l) \in Seq(DomainSet)
<1> DEFINE list == x.lists[l]
           bare == [i \in DOMAIN list |-> StripWildcard(list[i])]
           S == {d \in ToSet(bare) : d.len \in 1 .. MaxName}
<1>1. list \in Seq(DomainSet)
  BY GeneratorAssumption, Zenon
<1>2. Domains(x, l) = Keep(bare, S)
  BY Zenon DEF Domains
<1>3. \A d \in DomainSet : StripWildcard(d) \in DomainSet
  BY DEF DomainSet, StripWildcard
<1> HIDE DEF list, S
<1>4. Len(list) \in Nat /\ DOMAIN list = 1 .. Len(list) /\ \A i \in DOMAIN list : list[i] \in DomainSet
  BY <1>1, SeqFacts, Zenon
<1>5. bare \in [1 .. Len(list) -> DomainSet]
  BY <1>3, <1>4, Zenon
<1> HIDE DEF bare
<1>6. bare \in Seq(DomainSet)
  BY <1>4, <1>5
<1> QED
  BY <1>2, <1>6, KeepFacts

(* Whatever lists a generator is given, their rows carry every domain that *)
(* fits a row, in order and once, and stay within both limits.             *)
THEOREM RowsCarry == given \subseteq Inputs => RowsCarryTheList
<1> SUFFICES ASSUME given \subseteq Inputs, NEW x \in given, NEW l \in DOMAIN x.lists,
                    NEW room \in 1 .. RowLength
             PROVE  LET rows == Rows(Domains(x, l), room)
                    IN /\ FlattenSeq(rows) =
                              Keep(Domains(x, l), {d \in ToSet(Domains(x, l)) : PathLen(<<d>>) <= room})
                       /\ \A i \in DOMAIN rows : Len(rows[i]) \in 1 .. BatchSize /\ PathLen(rows[i]) <= room
  BY Zenon DEF RowsCarryTheList
<1> DEFINE rows == Rows(Domains(x, l), room)
<1>1. Domains(x, l) \in Seq(DomainSet)
  BY DomainsTyped, Zenon
<1>2. room \in Nat
  BY GeneratorAssumption
<1>3. /\ FlattenSeq(rows) = Keep(Domains(x, l), {d \in ToSet(Domains(x, l)) : PathLen(<<d>>) <= room})
      /\ \A i \in DOMAIN rows : RowFits(rows[i], room) /\ rows[i] # <<>> /\ rows[i] \in Seq(DomainSet)
  BY <1>1, <1>2, RowsFacts, Zenon
<1>4. \A row \in Seq(DomainSet) : RowFits(row, room) /\ row # <<>> =>
          Len(row) \in 1 .. BatchSize /\ PathLen(row) <= room
  BY GeneratorAssumption DEF RowFits
<1> QED
  BY <1>3, <1>4, Zenon
=============================================================================
