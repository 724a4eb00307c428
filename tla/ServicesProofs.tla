--------------------------- MODULE ServicesProofs ---------------------------
(***************************************************************************)
(* Proofs about the owner's settings, the door, the price bot and the      *)
(* language models as MCServices runs them: W is Owner, D is Door, B is    *)
(* PriceBot, M is Models.  Each invariant is shown to be kept by every     *)
(* step of its own module; a step of another part leaves it alone.         *)
(***************************************************************************)
EXTENDS MCServices, FiniteSetTheorems, WellFoundedInduction, TLAPS

-----------------------------------------------------------------------------
(* Owner, for any pages, voices, numbers and faults.  A request that is alone *)
(* with its setting knows what it has given the calls and the database        *)
(* (Given), and until it gives anything the setting is as it was (Before);    *)
(* requests that overlapped are not alone, and their setting is apart.        *)

UnderWay(t, key) == page[t].at # "idle" /\ page[t].key = key
Free(key) == \A t \in Tabs : ~UnderWay(t, key)

Given(p) ==
    /\ p.at \in {"writing", "written"} =>
          /\ p.key = "config" => inUse = p.value
          /\ p.key = "model" => live = p.value /\ active = live
    /\ p.at = "answering" => live = p.value
    /\ p.at = "written" => db[p.key] = p.value

Before(p) ==
    /\ p.at = "probing" => W!UsedIsSaved(p.key)
    /\ p.at \in {"answering", "writing"} => db[p.key] = mem[p.key]

Fits(p) ==
    p.at # "idle" =>
        /\ p.alone => Given(p)
        /\ ~p.alone => p.key \in apart
        /\ p.key \notin apart => Before(p)

Settled(key) == key \notin apart /\ Free(key) => W!UsedIsSaved(key)

OwnerSteps == {"idle", "probing", "answering", "writing", "written"}

RequestAt(p) ==
    /\ DOMAIN p = {"at", "key", "value", "record", "alone"}
    /\ p.at \in OwnerSteps /\ p.key \in W!Keys
    /\ p.at \in {"probing", "answering"} => p.key = "model"

\* Two requests of a setting under way are not alone.
Sole == \A t, u \in Tabs : t # u /\ UnderWay(t, page[t].key) /\ UnderWay(u, page[t].key) => ~page[t].alone

OwnerInv ==
    /\ DOMAIN page = Tabs /\ DOMAIN db = W!Keys /\ DOMAIN mem = W!Keys
    /\ \A t \in Tabs : RequestAt(page[t]) /\ Fits(page[t])
    /\ Sole
    /\ \A key \in W!Keys : Settled(key)

(* The settings there are. *)
LEMMA KeysAre == W!Keys = {"plain", "voice", "blocked", "model", "config"}
  BY DEF W!Keys, W!Domain

(* What a step of the request t of the setting key leaves alone: the other requests, which *)
(* are not alone when they are of the same setting, and the other settings.                *)
StepOf(t, key) ==
    /\ DOMAIN page' = Tabs /\ DOMAIN db' = W!Keys /\ DOMAIN mem' = W!Keys
    /\ page[t].at = "idle" \/ page[t].key = key
    /\ page'[t].at = "idle" \/ page'[t].key = key
    /\ \A u \in Tabs \ {t} :
          \/ page'[u] = page[u] /\ (UnderWay(u, key) => ~page'[t].alone /\ ~page'[u].alone /\ key \in apart')
          \/ /\ UnderWay(u, key) /\ page'[u] = [page[u] EXCEPT !.alone = FALSE]
             /\ ~page'[t].alone /\ key \in apart'
    /\ \A j \in W!Keys \ {key} : db'[j] = db[j] /\ mem'[j] = mem[j] /\ (j \in apart' <=> j \in apart)
    /\ key # "config" => inUse' = inUse
    /\ key # "model" => live' = live /\ active' = active

(* Such a step keeps the invariant if it keeps it of its own request and setting. *)
LEMMA StepKeeps ==
    ASSUME OwnerInv, NEW t \in Tabs, NEW key \in W!Keys, StepOf(t, key),
           RequestAt(page[t])', Fits(page[t])', Settled(key)'
    PROVE  OwnerInv'
<1>1. ASSUME NEW u \in Tabs \ {t}
      PROVE  /\ page'[u].at = page[u].at /\ page'[u].key = page[u].key /\ page'[u].value = page[u].value
             /\ page'[u].alone => page'[u] = page[u]
             /\ ~UnderWay(u, key) => page'[u] = page[u]
             /\ UnderWay(u, key) => ~page'[t].alone /\ ~page'[u].alone /\ key \in apart'
             /\ RequestAt(page[u])'
  <2>1. RequestAt(page[u])
    BY <1>1 DEF OwnerInv
  <2>2. CASE page'[u] = page[u] /\ (UnderWay(u, key) => ~page'[t].alone /\ ~page'[u].alone /\ key \in apart')
    BY <2>1, <2>2 DEF RequestAt
  <2>3. CASE /\ UnderWay(u, key) /\ page'[u] = [page[u] EXCEPT !.alone = FALSE]
             /\ ~page'[t].alone /\ key \in apart'
    <3>1. /\ page'[u].at = page[u].at /\ page'[u].key = page[u].key /\ page'[u].value = page[u].value
          /\ page'[u].alone = FALSE /\ DOMAIN page'[u] = DOMAIN page[u]
      BY <2>1, <2>3 DEF RequestAt
    <3> QED
      BY <2>1, <2>3, <3>1 DEF RequestAt
  <2> QED
    BY <1>1, <2>2, <2>3 DEF StepOf
<1>2. ASSUME NEW j \in W!Keys \ {key}
      PROVE  /\ db'[j] = db[j] /\ mem'[j] = mem[j] /\ (j \in apart' <=> j \in apart)
             /\ j = "config" => inUse' = inUse
             /\ j = "model" => live' = live /\ active' = active
  BY <1>2 DEF StepOf
<1>3. ASSUME NEW u \in Tabs \ {t}
      PROVE  Fits(page[u])'
  <2>1. CASE UnderWay(u, key)
    <3>1. ~page'[u].alone /\ page'[u].key = key /\ key \in apart'
      BY <1>1, <1>3, <2>1 DEF UnderWay
    <3> QED
      BY <3>1 DEF Fits
  <2>2. CASE ~UnderWay(u, key) /\ page[u].at # "idle"
    <3>1. page'[u] = page[u] /\ page[u].key \in W!Keys \ {key} /\ Fits(page[u]) /\ RequestAt(page[u])
      BY <1>1, <1>3, <2>2 DEF OwnerInv, UnderWay, RequestAt
    <3> DEFINE j == page[u].key
    <3>2. /\ db'[j] = db[j] /\ mem'[j] = mem[j] /\ (j \in apart' <=> j \in apart)
          /\ j = "config" => inUse' = inUse
          /\ j = "model" => live' = live /\ active' = active
      BY <1>2, <3>1
    <3>3. Given(page[u]) => Given(page[u])'
      BY <3>1, <3>2 DEF Given, RequestAt
    <3>4. Before(page[u]) => Before(page[u])'
      BY <3>1, <3>2 DEF Before, W!UsedIsSaved
    <3> QED
      BY <2>2, <3>1, <3>2, <3>3, <3>4 DEF Fits
  <2>3. CASE page[u].at = "idle"
    BY <1>1, <1>3, <2>3 DEF Fits
  <2> QED
    BY <2>1, <2>2, <2>3
<1>4. ASSUME NEW j \in W!Keys \ {key}
      PROVE  Settled(j)'
  <2>1. \A u \in Tabs : UnderWay(u, j) => UnderWay(u, j)'
    BY <1>1, <1>4 DEF UnderWay, StepOf
  <2>2. Free(j)' => Free(j)
    BY <2>1 DEF Free
  <2>3. W!UsedIsSaved(j) => W!UsedIsSaved(j)'
    BY <1>2, <1>4 DEF W!UsedIsSaved
  <2> QED
    BY <1>2, <1>4, <2>2, <2>3 DEF OwnerInv, Settled
<1>5. Sole'
  <2> SUFFICES ASSUME NEW u \in Tabs, NEW w \in Tabs, u # w, UnderWay(u, page[u].key)', UnderWay(w, page[u].key)'
               PROVE  ~page'[u].alone
    BY DEF Sole
  <2>1. CASE u = t
    BY <1>1, <2>1 DEF UnderWay, StepOf
  <2>2. CASE w = t
    BY <1>1, <2>2 DEF UnderWay, StepOf
  <2>3. CASE u # t /\ w # t
    BY <1>1, <2>3 DEF UnderWay, OwnerInv, Sole
  <2> QED
    BY <2>1, <2>2, <2>3
<1> QED
  BY <1>1, <1>3, <1>4, <1>5 DEF OwnerInv, StepOf

(* A request of t that was under way, and is of the same setting after its step, or over. *)
LEMMA OwnStep ==
    ASSUME OwnerInv, NEW t \in Tabs, NEW k, page[t].key = k, page[t].at # "idle", NEW q, page' = [page EXCEPT ![t] = q],
           q = W!Idle \/ (q.key = k /\ q.alone = page[t].alone),
           DOMAIN db' = W!Keys /\ DOMAIN mem' = W!Keys,
           \A j \in W!Keys \ {k} : db'[j] = db[j] /\ mem'[j] = mem[j] /\ (j \in apart' <=> j \in apart),
           k \in apart => k \in apart' \/ page[t].alone,
           k # "config" => inUse' = inUse,
           k # "model" => live' = live /\ active' = active
    PROVE  StepOf(t, k)
<1>1. page'[t] = q /\ DOMAIN page' = Tabs /\ \A u \in Tabs \ {t} : page'[u] = page[u]
  BY DEF OwnerInv
<1>2. W!Idle.at = "idle" /\ W!Idle.alone = FALSE
  BY DEF W!Idle
<1>3. ASSUME NEW u \in Tabs \ {t}, UnderWay(u, k)
      PROVE  ~page[t].alone /\ ~page[u].alone /\ k \in apart
  <2>1. UnderWay(t, k) /\ page[u].key = page[t].key
    BY <1>3 DEF UnderWay
  <2>2. ~page[t].alone /\ ~page[u].alone
    BY <1>3, <2>1 DEF OwnerInv, Sole
  <2> QED
    BY <2>2 DEF OwnerInv, Fits
<1> QED
  BY <1>1, <1>2, <1>3 DEF StepOf

(* A request begins, alone or not, and what it puts in use at once is its own. *)
LEMMA BeginKeeps ==
    ASSUME OwnerInv, NEW t \in Tabs, NEW k \in W!Keys, NEW v, NEW r, W!Begin(t, k, v, r),
           UNCHANGED <<live, active>>,
           inUse' = IF k = "config" THEN v ELSE inUse
    PROVE  OwnerInv'
<1> DEFINE tried == k = "model" /\ active # v
           alone == W!Alone(k, v)
<1>1. /\ page[t].at = "idle" /\ UNCHANGED <<db, mem>> /\ DOMAIN page' = Tabs
      /\ page'[t] = [at |-> IF tried THEN "probing" ELSE "writing", key |-> k, value |-> v, record |-> r, alone |-> alone]
      /\ \A u \in Tabs \ {t} : page'[u] = IF UnderWay(u, k) THEN [page[u] EXCEPT !.alone = FALSE] ELSE page[u]
      /\ apart' = IF alone THEN apart ELSE apart \cup {k}
  BY DEF W!Begin, W!Tried, W!Changing, UnderWay
<1>2. alone => Free(k) /\ (k = "model" => active # v \/ live = active)
  BY DEF W!Alone, W!Changing, Free, UnderWay
<1> HIDE DEF alone
<1>3. page'[t].at = (IF tried THEN "probing" ELSE "writing") /\ page'[t].key = k /\ page'[t].value = v
      /\ page'[t].alone = alone
  BY <1>1
<1>4. RequestAt(page[t])'
  BY <1>1 DEF RequestAt, OwnerSteps
<1>5. Settled(k)'
  BY <1>3 DEF Settled, Free, UnderWay
<1>6. StepOf(t, k)
  BY <1>1, <1>2, <1>3 DEF StepOf, Free, OwnerInv
<1>7. Fits(page[t])'
  <2>1. alone => Given(page[t])'
    BY <1>2, <1>3 DEF Given
  <2>2. ~alone => k \in apart'
    BY <1>1
  <2>3. ASSUME k \notin apart'
        PROVE  Before(page[t])'
    <3>1. k \notin apart /\ Free(k)
      BY <1>1, <1>2, <2>3
    <3>2. W!UsedIsSaved(k)
      BY <3>1 DEF OwnerInv, Settled
    <3> QED
      BY <1>1, <1>3, <3>2 DEF Before, W!UsedIsSaved
  <2> QED
    BY <1>3, <2>1, <2>2, <2>3 DEF Fits
<1> QED
  BY <1>4, <1>5, <1>6, <1>7, StepKeeps

(* A request on its way: a model is tried, given the calls and shown; the database answers. *)
LEMMA OnItsWay ==
    ASSUME OwnerInv, NEW t \in Tabs, NEW k \in W!Keys, page[t].key = k,
           \/ W!Probe(t) /\ page' = [page EXCEPT ![t].at = "answering"] /\ live' = page[t].value
           \/ W!ShowModel(t)
           \/ W!Commit(t)
    PROVE  OwnerInv'
<1> DEFINE p == page[t]
           q == [p EXCEPT !.at = page'[t].at]
<1>1. RequestAt(p) /\ Fits(p) /\ p.key = k
  BY DEF OwnerInv, RequestAt
<1>2. /\ page' = [page EXCEPT ![t] = q] /\ page'[t] = q /\ p.at # "idle" /\ mem' = mem /\ inUse' = inUse /\ apart' = apart
      /\ q.at = page'[t].at /\ q.key = p.key /\ q.value = p.value /\ q.alone = p.alone /\ DOMAIN q = DOMAIN p
  <2>1. \E s \in OwnerSteps : page' = [page EXCEPT ![t].at = s]
    BY DEF W!Probe, W!ShowModel, W!Commit, OwnerSteps
  <2>2. PICK s \in OwnerSteps : page' = [page EXCEPT ![t].at = s]
    BY <2>1
  <2>3. page' = [page EXCEPT ![t] = [p EXCEPT !.at = s]]
    BY <2>2
  <2>4. page'[t] = [p EXCEPT !.at = s] /\ page'[t].at = s
    BY <1>1, <2>3 DEF OwnerInv, RequestAt
  <2> QED
    BY <1>1, <2>3, <2>4 DEF W!Probe, W!ShowModel, W!Commit, RequestAt
<1>3. ~p.alone => p.key \in apart
  BY <1>1, <1>2 DEF Fits
<1>4. CASE W!Probe(t) /\ page' = [page EXCEPT ![t].at = "answering"] /\ live' = page[t].value
  <2>1. p.at = "probing" /\ p.key = "model" /\ q.at = "answering" /\ active' = active /\ db' = db
    BY <1>1, <1>2, <1>4 DEF W!Probe, RequestAt, OwnerInv
  <2> HIDE DEF q
  <2>2. StepOf(t, k)
    BY <1>2, <2>1, OwnStep DEF OwnerInv
  <2>3. Fits(page[t])'
    BY <1>1, <1>2, <1>3, <1>4, <2>1 DEF Fits, Given, Before, W!UsedIsSaved
  <2>4. RequestAt(page[t])' /\ Settled(k)'
    BY <1>1, <1>2, <2>1 DEF RequestAt, OwnerSteps, Settled, Free, UnderWay
  <2> QED
    BY <1>1, <2>2, <2>3, <2>4, StepKeeps
<1>5. CASE W!ShowModel(t)
  <2>1. p.at = "answering" /\ p.key = "model" /\ q.at = "writing" /\ active' = p.value /\ UNCHANGED <<live, db>>
    BY <1>1, <1>2, <1>5 DEF W!ShowModel, RequestAt, OwnerInv
  <2> HIDE DEF q
  <2>2. StepOf(t, k)
    BY <1>2, <2>1, OwnStep DEF OwnerInv
  <2>3. Fits(page[t])'
    BY <1>1, <1>2, <1>3, <2>1 DEF Fits, Given, Before
  <2>4. RequestAt(page[t])' /\ Settled(k)'
    BY <1>1, <1>2, <2>1 DEF RequestAt, OwnerSteps, Settled, Free, UnderWay
  <2> QED
    BY <1>1, <2>2, <2>3, <2>4, StepKeeps
<1>6. CASE W!Commit(t)
  <2>1. p.at = "writing" /\ q.at = "written" /\ db' = [db EXCEPT ![p.key] = p.value] /\ UNCHANGED <<live, active>>
    BY <1>1, <1>2, <1>6 DEF W!Commit, RequestAt, OwnerInv
  <2>2. DOMAIN db' = W!Keys /\ db'[p.key] = p.value /\ \A j \in W!Keys \ {p.key} : db'[j] = db[j]
    BY <1>1, <2>1 DEF OwnerInv
  <2> HIDE DEF q
  <2>3. StepOf(t, k)
    BY <1>2, <2>1, <2>2, OwnStep DEF OwnerInv
  <2>4. Fits(page[t])'
    BY <1>1, <1>2, <1>3, <2>1, <2>2 DEF Fits, Given, Before
  <2>5. RequestAt(page[t])' /\ Settled(k)'
    BY <1>1, <1>2, <2>1 DEF RequestAt, OwnerSteps, Settled, Free, UnderWay
  <2> QED
    BY <1>1, <2>3, <2>4, <2>5, StepKeeps
<1> QED
  BY <1>4, <1>5, <1>6

(* A request ends: its model is refused, memory follows the database, the save fails, or the *)
(* client goes away.                                                                         *)
LEMMA EndKeeps ==
    ASSUME OwnerInv, NEW t \in Tabs, NEW k \in W!Keys, page[t].key = k, page' = [page EXCEPT ![t] = W!Idle],
           \/ W!Probe(t) /\ UNCHANGED live
           \/ W!Remember(t)
           \/ W!WriteFails(t)
           \/ W!Dropped(t)
    PROVE  OwnerInv'
<1> DEFINE p == page[t]
<1>1. RequestAt(p) /\ Fits(p) /\ p.key = k /\ p.at # "idle"
  BY DEF OwnerInv, RequestAt, W!Probe, W!Remember, W!WriteFails, W!Dropped
<1>2. page'[t] = W!Idle /\ page'[t].at = "idle" /\ page'[t].key = "plain"
  BY DEF OwnerInv, W!Idle
<1>3. RequestAt(page[t])' /\ Fits(page[t])'
  BY <1>2, KeysAre DEF RequestAt, Fits, OwnerSteps, W!Idle
<1>4. (k \notin apart => p.alone) /\ UNCHANGED <<db, live, active>>
  BY <1>1 DEF Fits, W!Probe, W!Remember, W!WriteFails, W!Dropped
<1>5. CASE W!Probe(t) /\ UNCHANGED live
  <2>1. p.at = "probing" /\ UNCHANGED <<mem, inUse, apart>>
    BY <1>5 DEF W!Probe
  <2>2. StepOf(t, k)
    BY <1>1, <1>4, <2>1, OwnStep DEF OwnerInv
  <2>3. Settled(k)'
    BY <1>1, <1>4, <2>1 DEF Fits, Before, Settled, W!UsedIsSaved
  <2> QED
    BY <1>1, <1>3, <2>2, <2>3, StepKeeps
<1>6. CASE W!Remember(t)
  <2>1. /\ p.at = "written" /\ inUse' = inUse /\ mem' = [mem EXCEPT ![k] = p.value]
        /\ apart' = IF p.alone THEN apart \ {k} ELSE apart
    BY <1>6 DEF W!Remember
  <2>2. DOMAIN mem' = W!Keys /\ mem'[k] = p.value /\ \A j \in W!Keys \ {k} : mem'[j] = mem[j]
    BY <1>1, <2>1 DEF OwnerInv
  <2>3. StepOf(t, k)
    BY <1>1, <1>4, <2>1, <2>2, OwnStep DEF OwnerInv
  <2>4. Settled(k)'
    BY <1>1, <1>4, <2>1, <2>2 DEF Fits, Given, Settled, W!UsedIsSaved
  <2> QED
    BY <1>1, <1>3, <2>3, <2>4, StepKeeps
<1>7. CASE W!WriteFails(t) \/ W!Dropped(t)
  <2>1. /\ mem' = mem /\ (k # "config" => inUse' = inUse)
        /\ apart' \in {apart, apart \cup {k}}
    BY <1>7 DEF W!WriteFails, W!Dropped, W!LeavesApart, W!ApplyConfig
  <2>2. StepOf(t, k)
    BY <1>1, <1>4, <2>1, OwnStep DEF OwnerInv
  <2>3. ASSUME k \notin apart'
        PROVE  k \notin apart /\ p.alone /\ Before(p)
               /\ (p.at = "probing" \/ (p.at = "writing" /\ k # "model" /\ (k = "config" => inUse' = mem.config)))
               /\ (p.at = "probing" => k = "model")
    <3>1. k \notin apart /\ p.alone /\ Before(p)
      BY <1>1, <1>4, <2>1, <2>3 DEF Fits
    <3>2. W!LeavesApart(t, {"model"}) \/ W!LeavesApart(t, {"config", "model"}) => p.at # "written" /\ k # "model"
      BY <2>3 DEF W!LeavesApart
    <3>3. CASE W!WriteFails(t)
      BY <3>1, <3>2, <3>3 DEF W!WriteFails, W!ApplyConfig
    <3>4. CASE W!Dropped(t)
      <4>1. W!LeavesApart(t, {"config", "model"}) => k # "config"
        BY <2>3 DEF W!LeavesApart
      <4> QED
        BY <1>1, <3>1, <3>2, <3>4, <4>1 DEF W!Dropped, RequestAt
    <3> QED
      BY <1>7, <3>3, <3>4
  <2>4. Settled(k)'
    BY <1>4, <2>1, <2>3 DEF Before, Settled, W!UsedIsSaved
  <2> QED
    BY <1>1, <1>3, <2>2, <2>4, StepKeeps
<1> QED
  BY <1>5, <1>6, <1>7

(* With no request under way, what is used is saved: the server starts. *)
LEMMA OwnerStarts ==
    ASSUME page = [u \in Tabs |-> W!Idle], DOMAIN db = W!Keys, mem = db, inUse = db.config,
           live = db.model, active = db.model
    PROVE  OwnerInv
<1>1. \A t \in Tabs : page[t] = W!Idle /\ page[t].at = "idle" /\ page[t].key = "plain"
  BY DEF W!Idle
<1>2. \A t \in Tabs : RequestAt(page[t]) /\ Fits(page[t])
  BY <1>1, KeysAre DEF RequestAt, Fits, OwnerSteps, W!Idle
<1>3. \A key \in W!Keys : Settled(key)
  BY DEF Settled, W!UsedIsSaved
<1> QED
  BY <1>1, <1>2, <1>3 DEF OwnerInv, Sole, UnderWay

LEMMA OwnerBegins == W!Init => OwnerInv
<1> SUFFICES ASSUME W!Init
             PROVE  OwnerInv
  OBVIOUS
<1>1. /\ mem = db /\ DOMAIN db = {"plain", "voice", "blocked", "model", "config"}
      /\ db.config = W!File /\ db.model = 0 /\ inUse = W!File /\ live = 0 /\ active = 0
      /\ page = [t \in Tabs |-> W!Idle]
  BY DEF W!Init
<1> QED
  BY <1>1, KeysAre, OwnerStarts

(* Whatever the pages, the database or a restart do, every request is where it should be. *)
LEMMA OwnerStep ==
    ASSUME OwnerInv, W!Next \/ UNCHANGED W!vars
    PROVE  OwnerInv'
<1>1. ASSUME UNCHANGED <<db, mem, inUse, live, active, page, apart>>
      PROVE  OwnerInv'
  BY <1>1 DEF OwnerInv, RequestAt, Fits, Given, Before, Sole, Settled, Free, UnderWay, W!UsedIsSaved
<1>2. CASE W!BuildRecords \/ W!BuildEnds \/ UNCHANGED W!vars
  BY <1>1, <1>2 DEF W!BuildRecords, W!BuildEnds, W!vars
<1>3. CASE W!Restart
  <2>1. /\ mem' = db' /\ inUse' = db'.config /\ live' = db'.model /\ active' = db'.model
        /\ page' = [u \in Tabs |-> W!Idle] /\ DOMAIN db' = W!Keys
    BY <1>3 DEF W!Restart, W!ApplyConfig, OwnerInv
  <2>2. \A t \in Tabs : page'[t] = W!Idle /\ page'[t].at = "idle" /\ page'[t].key = "plain"
    BY <2>1 DEF W!Idle
  <2>3. \A t \in Tabs : RequestAt(page[t])' /\ Fits(page[t])'
    BY <2>2, KeysAre DEF RequestAt, Fits, OwnerSteps, W!Idle
  <2>4. \A key \in W!Keys : Settled(key)'
    BY <2>1 DEF Settled, W!UsedIsSaved
  <2> QED
    BY <2>1, <2>2, <2>3, <2>4 DEF OwnerInv, Sole, UnderWay
<1>4. ASSUME NEW t \in Tabs, NEW v, W!SavePlain(t, v) \/ W!SaveModel(t, v) \/ W!SaveVoice(t, v)
      PROVE  OwnerInv'
  <2>1. {"plain", "model", "voice"} \subseteq W!Keys
    BY KeysAre
  <2>2. CASE W!SavePlain(t, v)
    BY <2>1, <2>2, BeginKeeps DEF W!SavePlain
  <2>3. CASE W!SaveModel(t, v)
    BY <2>1, <2>3, BeginKeeps DEF W!SaveModel
  <2>4. CASE W!SaveVoice(t, v)
    BY <2>1, <2>4, BeginKeeps DEF W!SaveVoice
  <2> QED
    BY <1>4, <2>2, <2>3, <2>4
<1>5. ASSUME NEW t \in Tabs, NEW n, NEW b, W!SetBlocked(t, n, b)
      PROVE  OwnerInv'
  <2>1. "blocked" \in W!Keys
    BY KeysAre
  <2> QED
    BY <1>5, <2>1, BeginKeeps DEF W!SetBlocked
<1>6. ASSUME NEW t \in Tabs, NEW i, NEW v, W!SaveConfig(t, i, v)
      PROVE  OwnerInv'
  <2>1. "config" \in W!Keys
    BY KeysAre
  <2> QED
    BY <1>6, <2>1, BeginKeeps DEF W!SaveConfig, W!ApplyConfig
<1>7. ASSUME NEW t \in Tabs, W!Probe(t) \/ W!ShowModel(t) \/ W!Commit(t)
      PROVE  OwnerInv'
  <2> PICK k \in W!Keys : page[t].key = k
    BY DEF OwnerInv, RequestAt
  <2>1. CASE W!Probe(t)
    BY <2>1, OnItsWay, EndKeeps DEF W!Probe
  <2> QED
    BY <1>7, <2>1, OnItsWay
<1>8. ASSUME NEW t \in Tabs, W!Remember(t) \/ W!WriteFails(t) \/ W!Dropped(t)
      PROVE  OwnerInv'
  <2> PICK k \in W!Keys : page[t].key = k
    BY DEF OwnerInv, RequestAt
  <2> QED
    BY <1>8, EndKeeps DEF W!Remember, W!WriteFails, W!Dropped
<1> QED
  BY <1>2, <1>3, <1>4, <1>5, <1>6, <1>7, <1>8 DEF W!Next

(* While no change of a setting is under way, what is used of it is what a restart  *)
(* would load, unless two changes of it overlapped or one was broken off, and none  *)
(* was made alone since: for any number of pages and whatever they change at once   *)
(* (RestartChangesNothing; the api_save handlers of server.rs and the save_         *)
(* functions of settings.rs).                                                       *)
THEOREM RestartChangesNothingHolds == ServicesSpec => []RestartChangesNothing
<1> DEFINE I == part = "owner" => OwnerInv
<1>1. ServicesInit => I
  BY OwnerBegins DEF ServicesInit
<1>2. I /\ [ServicesNext]_allVars => I'
  <2> SUFFICES ASSUME I, [ServicesNext]_allVars, part' = "owner"
               PROVE  OwnerInv'
    OBVIOUS
  <2>1. part = "owner"
    BY DEF ServicesNext, StepOutbox, StepPriceBot, StepOwner, StepDoor, StepModels, allVars
  <2>2. W!Next \/ UNCHANGED W!vars
    BY <2>1 DEF ServicesNext, StepOutbox, StepPriceBot, StepOwner, StepDoor, StepModels, allVars, ownerVars, W!vars
  <2> QED
    BY <2>1, <2>2, OwnerStep
<1>3. I => RestartChangesNothing
  <2> SUFFICES ASSUME OwnerInv, NEW key \in W!Keys \ apart, W!Changing(key) = {}
               PROVE  W!UsedIsSaved(key)
    BY DEF RestartChangesNothing, W!RestartChangesNothing
  <2>1. Free(key)
    BY DEF W!Changing, Free, UnderWay
  <2> QED
    BY <2>1 DEF OwnerInv, Settled
<1> QED
  BY <1>1, <1>2, <1>3, PTL DEF ServicesSpec

-----------------------------------------------------------------------------
(* Door, for any calls, numbers and time limits.  What the webhook left for a *)
(* stream is where the stream will look for it as long as nobody took it, the *)
(* server did not restart and it is fresh (LeftWaiting); a stream gets in     *)
(* with a token only, and every token comes from a webhook that left          *)
(* something (Lettered).                                                      *)

TimesAreNatural == DoorTime \in Nat /\ PendingFor \in Nat /\ TokenFor \in Nat

DoorTimes == 0 .. D!Never
DoorFields ==
    /\ clock \in 0 .. DoorTime
    /\ passed \in [Calls -> DoorTimes]
    /\ pending \in [Calls -> [at : DoorTimes, customer : BOOLEAN]]
    /\ IsFiniteSet(sessions)

Lettered == \A t \in tokens : t.call \in Calls /\ passed[t.call] # D!Never

InTime(c) ==
    /\ passed[c] # D!Never /\ c \notin restarted
    /\ clock - passed[c] < PendingFor
    /\ \A s \in sessions : s.call # c

LeftWaiting ==
    \A c \in Calls :
        /\ pending[c].at # D!Never => pending[c].at = passed[c]
        /\ InTime(c) => pending[c].at # D!Never

DoorInv == DoorFields /\ Lettered /\ LeftWaiting

(* No first stream of a call has come before it came. *)
LEMMA FirstStream ==
    ASSUME DoorFields, NEW c, D!Streams(c) + 1 = 1
    PROVE  \A s \in sessions : s.call # c
<1> DEFINE S == {s \in sessions : s.call = c}
<1>1. IsFiniteSet(S)
  BY FS_Subset DEF DoorFields
<1>2. Cardinality(S) \in Nat
  BY <1>1, FS_CardinalityType
<1>3. D!Cardinality(S) = Cardinality(S)
  BY DEF D!Cardinality, Cardinality
<1>4. D!Streams(c) = Cardinality(S)
  BY <1>3 DEF D!Streams
<1>5. Cardinality(S) = 0
  BY <1>2, <1>4
<1>6. S = {}
  BY <1>1, <1>5, FS_EmptySet
<1> QED
  BY <1>6

(* The webhook: what it leaves is fresh, and only what is not fresh goes. *)
LEMMA VoiceKeeps ==
    ASSUME TimesAreNatural, DoorInv, NEW c \in Calls, D!Voice(c)
    PROVE  DoorInv'
<1> USE DEF DoorInv
<1>1. /\ clock' = clock /\ sessions' = sessions /\ restarted' = restarted \ {c}
      /\ passed' = [passed EXCEPT ![c] = clock]
      /\ tokens' = tokens \cup {[call |-> c, expires |-> clock + TokenFor]}
      /\ pending' = [d \in Calls |->
                       IF d = c THEN [at |-> clock, customer |-> from[c] # D!Anonymous]
                       ELSE IF pending[d].at # D!Never /\ clock - pending[d].at >= PendingFor THEN D!Nothing ELSE pending[d]]
  BY DEF D!Voice
<1>2. clock \in DoorTimes /\ clock # D!Never /\ D!Never \in DoorTimes
  BY DEF DoorFields, TimesAreNatural, DoorTimes, D!Never
<1>3. D!Nothing \in [at : DoorTimes, customer : BOOLEAN] /\ D!Nothing.at = D!Never
  BY <1>2 DEF D!Nothing
<1>4. DoorFields'
  <2>1. passed' \in [Calls -> DoorTimes]
    BY <1>1, <1>2 DEF DoorFields
  <2>2. [at |-> clock, customer |-> from[c] # D!Anonymous] \in [at : DoorTimes, customer : BOOLEAN]
    BY <1>2
  <2>3. pending' \in [Calls -> [at : DoorTimes, customer : BOOLEAN]]
    BY <1>1, <1>3, <2>2 DEF DoorFields
  <2> QED
    BY <1>1, <2>1, <2>3 DEF DoorFields
<1>5. Lettered'
  <2> SUFFICES ASSUME NEW t \in tokens'
               PROVE  t.call \in Calls /\ passed'[t.call] # D!Never
    BY DEF Lettered
  <2>1. passed'[c] = clock /\ \A d \in Calls : d # c => passed'[d] = passed[d]
    BY <1>1 DEF DoorFields
  <2>2. t \in tokens \/ t.call = c
    BY <1>1
  <2> QED
    BY <1>2, <2>1, <2>2 DEF Lettered
<1>6. LeftWaiting'
  <2> SUFFICES ASSUME NEW d \in Calls
               PROVE  /\ pending'[d].at # D!Never => pending'[d].at = passed'[d]
                      /\ InTime(d)' => pending'[d].at # D!Never
    BY DEF LeftWaiting
  <2>1. CASE d = c
    BY <1>1, <1>2, <2>1 DEF DoorFields
  <2>2. CASE d # c
    <3>1. passed'[d] = passed[d] /\ (InTime(d)' => InTime(d))
      BY <1>1, <2>2 DEF DoorFields, InTime
    <3>2. /\ pending[d].at # D!Never => pending[d].at = passed[d]
          /\ InTime(d) => pending[d].at # D!Never
      BY DEF LeftWaiting
    <3>3. CASE pending[d].at # D!Never /\ clock - pending[d].at >= PendingFor
      <4>1. pending'[d].at = D!Never /\ passed[d] = pending[d].at
        BY <1>1, <1>3, <2>2, <3>2, <3>3
      <4>2. ~(clock - passed[d] < PendingFor)
        BY <3>3, <4>1 DEF DoorFields, TimesAreNatural, DoorTimes
      <4> QED
        BY <3>1, <4>1, <4>2 DEF InTime
    <3>4. CASE ~(pending[d].at # D!Never /\ clock - pending[d].at >= PendingFor)
      <4>1. pending'[d] = pending[d]
        BY <1>1, <2>2, <3>4
      <4> QED
        BY <3>1, <3>2, <4>1
    <3> QED
      BY <3>3, <3>4
  <2> QED
    BY <2>1, <2>2
<1> QED
  BY <1>4, <1>5, <1>6

(* The stream: its call has a session from now on. *)
LEMMA MediaKeeps ==
    ASSUME TimesAreNatural, DoorInv, NEW c \in Calls, NEW t \in tokens, D!Media(c, t)
    PROVE  DoorInv'
<1> USE DEF DoorInv
<1> DEFINE s == [call |-> c, nth |-> D!Streams(c) + 1,
                 from |-> IF pending[c].at # D!Never THEN from[c] ELSE D!Anonymous,
                 customer |-> pending[c].at # D!Never /\ pending[c].customer]
<1>1. s.call = c /\ sessions' = sessions \cup {s}
  BY DEF D!Media
<1> HIDE DEF s
<1>2. UNCHANGED <<clock, passed, tokens, restarted>> /\ pending' = [pending EXCEPT ![c] = D!Nothing]
  BY DEF D!Media
<1>3. D!Never \in DoorTimes /\ D!Nothing \in [at : DoorTimes, customer : BOOLEAN] /\ D!Nothing.at = D!Never
  BY DEF D!Nothing, TimesAreNatural, DoorTimes, D!Never
<1>4. IsFiniteSet(sessions')
  BY <1>1, FS_AddElement DEF DoorFields
<1>5. DoorFields'
  BY <1>2, <1>3, <1>4 DEF DoorFields
<1>6. Lettered'
  BY <1>2 DEF Lettered
<1>7. LeftWaiting'
  <2> SUFFICES ASSUME NEW d \in Calls
               PROVE  /\ pending'[d].at # D!Never => pending'[d].at = passed'[d]
                      /\ InTime(d)' => pending'[d].at # D!Never
    BY DEF LeftWaiting
  <2>1. CASE d = c
    BY <1>1, <1>2, <1>3, <2>1 DEF DoorFields, InTime
  <2>2. CASE d # c
    <3>1. pending'[d] = pending[d] /\ (InTime(d)' => InTime(d))
      BY <1>1, <1>2, <2>2 DEF DoorFields, InTime
    <3> QED
      BY <1>2, <3>1 DEF LeftWaiting
  <2> QED
    BY <2>1, <2>2
<1> QED
  BY <1>5, <1>6, <1>7

(* Time passes: what was in time is at most less so. *)
LEMMA TickKeeps ==
    ASSUME TimesAreNatural, DoorInv, D!Tick
    PROVE  DoorInv'
<1> USE DEF DoorInv
<1>1. /\ clock' = clock + 1 /\ clock' \in 0 .. DoorTime /\ tokens' \subseteq tokens
      /\ UNCHANGED <<pending, passed, sessions, restarted>>
  BY DEF D!Tick, DoorFields, TimesAreNatural
<1>2. DoorFields' /\ Lettered'
  BY <1>1 DEF DoorFields, Lettered
<1>3. ASSUME NEW d \in Calls, InTime(d)'
      PROVE  InTime(d)
  <2>1. clock' - passed[d] < PendingFor
    BY <1>1, <1>3 DEF InTime
  <2>2. clock - passed[d] < PendingFor
    BY <1>1, <2>1 DEF DoorFields, TimesAreNatural, DoorTimes
  <2> QED
    BY <1>1, <1>3, <2>2 DEF InTime
<1> QED
  BY <1>1, <1>2, <1>3 DEF LeftWaiting

(* A restart forgets what was pending, and is remembered for it. *)
LEMMA RestartKeeps ==
    ASSUME TimesAreNatural, DoorInv, D!Restart
    PROVE  DoorInv'
<1> USE DEF DoorInv
<1>1. /\ restarted' = restarted \cup {c \in Calls : pending[c].at # D!Never}
      /\ pending' = [c \in Calls |-> D!Nothing] /\ UNCHANGED <<clock, tokens, sessions, passed>>
  BY DEF D!Restart
<1>2. D!Never \in DoorTimes /\ D!Nothing \in [at : DoorTimes, customer : BOOLEAN] /\ D!Nothing.at = D!Never
  BY DEF D!Nothing, TimesAreNatural, DoorTimes, D!Never
<1>3. DoorFields' /\ Lettered'
  BY <1>1, <1>2 DEF DoorFields, Lettered
<1>4. ASSUME NEW d \in Calls
      PROVE  pending'[d].at = D!Never /\ ~InTime(d)'
  <2>1. InTime(d)' => InTime(d) /\ d \notin restarted'
    BY <1>1 DEF InTime
  <2> QED
    BY <1>1, <1>2, <2>1 DEF LeftWaiting
<1> QED
  BY <1>3, <1>4 DEF LeftWaiting

(* Nothing is left before the first call. *)
LEMMA DoorBegins ==
    ASSUME TimesAreNatural, D!Init
    PROVE  DoorInv
<1>1. D!Never \in DoorTimes /\ D!Nothing \in [at : DoorTimes, customer : BOOLEAN] /\ D!Nothing.at = D!Never /\ 0 \in 0 .. DoorTime
  BY DEF D!Nothing, TimesAreNatural, DoorTimes, D!Never
<1>2. DoorFields
  BY <1>1, FS_EmptySet DEF D!Init, DoorFields
<1>3. Lettered
  BY DEF D!Init, Lettered
<1>4. LeftWaiting
  BY <1>1 DEF D!Init, LeftWaiting, InTime
<1> QED
  BY <1>2, <1>3, <1>4 DEF DoorInv

(* What the webhook learned waits for the stream, whatever happens meanwhile. *)
LEMMA DoorStep ==
    ASSUME TimesAreNatural, DoorInv, D!Next \/ UNCHANGED D!vars
    PROVE  DoorInv'
<1>1. ASSUME UNCHANGED <<clock, pending, tokens, sessions, passed, restarted>>
      PROVE  DoorInv'
  BY <1>1 DEF DoorInv, DoorFields, Lettered, LeftWaiting, InTime
<1>2. ASSUME NEW n \in Numbers, D!Block(n)
      PROVE  DoorInv'
  BY <1>1, <1>2 DEF D!Block
<1>3. CASE D!SaveAccess
  BY <1>1, <1>3 DEF D!SaveAccess
<1>4. CASE UNCHANGED D!vars
  BY <1>1, <1>4 DEF D!vars
<1> QED
  BY <1>2, <1>3, <1>4, VoiceKeeps, MediaKeeps, TickKeeps, RestartKeeps DEF D!Next

(* The first stream of a call finds what the webhook left. *)
LEMMA DoorKnows ==
    ASSUME TimesAreNatural, DoorInv, D!Next
    PROVE  D!KnownIfInTime
<1> SUFFICES ASSUME DoorInv, D!Next, NEW s \in sessions' \ sessions, s.nth = 1,
                    s.call \notin restarted, clock - passed[s.call] < PendingFor
             PROVE  s.from = from[s.call]
  BY DEF D!KnownIfInTime
<1>1. PICK c \in Calls, t \in tokens : D!Media(c, t)
  BY DEF D!Next, D!Voice, D!Block, D!SaveAccess, D!Tick, D!Restart
<1>2. /\ s.call = c /\ s.nth = D!Streams(c) + 1
      /\ s.from = IF pending[c].at # D!Never THEN from[c] ELSE D!Anonymous
  BY <1>1 DEF D!Media
<1>3. t.call = c
  BY <1>1 DEF D!Media, D!Valid
<1>4. passed[c] # D!Never
  BY <1>3 DEF DoorInv, Lettered
<1>5. InTime(c)
  BY <1>2, <1>4, FirstStream DEF DoorInv, InTime
<1>6. pending[c].at # D!Never
  BY <1>5 DEF DoorInv, LeftWaiting
<1> QED
  BY <1>2, <1>6

(* A caller the webhook knew is no stranger to the first stream of the call,    *)
(* if it comes in time and no restart came between (KnownToTheSession; voice    *)
(* and media_socket of server.rs).                                              *)
THEOREM KnownToTheSessionHolds ==
    ASSUME TimesAreNatural
    PROVE  ServicesSpec => KnownToTheSession
<1> DEFINE I == part = "door" => DoorInv
<1>1. ServicesInit => I
  BY DoorBegins DEF ServicesInit
<1>2. ASSUME I, [ServicesNext]_allVars, part' = "door"
      PROVE  part = "door" /\ (D!Next \/ UNCHANGED D!vars)
  BY <1>2 DEF ServicesNext, StepOutbox, StepPriceBot, StepOwner, StepDoor, StepModels, allVars, doorVars, D!vars
<1>3. I /\ [ServicesNext]_allVars => I'
  BY <1>2, DoorStep
<1>4. I /\ [ServicesNext]_allVars => [part = "door" => D!KnownIfInTime]_allVars
  <2> SUFFICES ASSUME I, ServicesNext, part = "door"
               PROVE  D!KnownIfInTime
    OBVIOUS
  <2>1. D!Next
    BY DEF ServicesNext, StepOutbox, StepPriceBot, StepOwner, StepDoor, StepModels
  <2> QED
    BY <2>1, DoorKnows
<1> QED
  BY <1>1, <1>3, <1>4, PTL DEF ServicesSpec, KnownToTheSession
-----------------------------------------------------------------------------
(* PriceBot, for any calls, questions, caps and windows.  A question is       *)
(* counted before it goes out and for the time it will go out at, so the caps *)
(* are about the questions counted (Counted: those sent, and those that wait  *)
(* for their turn).  The last of them to be counted found the others of its   *)
(* window in `asked`, from which only entries of another day are dropped.     *)

(* The hour is within the day, as in may_ask. *)
PaceIsNatural ==
    /\ BotPerHour \in Nat /\ PerDay \in Nat /\ Gap \in Nat /\ GapAhead \in Nat
    /\ Hour \in Nat /\ Day \in Nat /\ Hour > 0 /\ Hour <= Day

(* The entries of a window that ends at t. *)
Window(S, t, w) == {e \in S : e.at <= t /\ t - e.at < w}

Capped(S, w, cap) == \A t \in Nat : Cardinality(Window(S, t, w)) <= cap

Counted == sent \cup {ask[c].entry : c \in {d \in Askers : ask[d].at = "waiting"}}

CallFields(a) == "at" \in DOMAIN a /\ "entry" \in DOMAIN a

BotFields ==
    /\ now \in Nat /\ counted \in Nat
    /\ DOMAIN ask = Askers /\ \A c \in Askers : CallFields(ask[c])
    /\ asked \subseteq B!Entry /\ IsFiniteSet(asked)
    /\ Counted \subseteq B!Entry /\ IsFiniteSet(Counted)

(* A question waits for a time that has not passed. *)
OnTime == \A c \in Askers : ask[c].at = "waiting" => ask[c].entry.at >= now

(* What was counted within a day is remembered. *)
Remembered == \A e \in Counted : now < e.at + Day => e \in asked

BotInv ==
    /\ BotFields /\ OnTime /\ Remembered
    /\ Capped(Counted, Hour, BotPerHour) /\ Capped(Counted, Day, PerDay)

(* The bot's sizes are sizes. *)
LEMMA SameSize ==
    ASSUME NEW S
    PROVE  B!Cardinality(S) = Cardinality(S)
  BY Zenon DEF B!Cardinality, Cardinality

(* A set of numbers has a least one. *)
LEMMA LeastIs ==
    ASSUME NEW S, S \subseteq Nat, S # {}
    PROVE  B!Least(S) \in S
<1> DEFINE R == OpToRel(<, Nat)
<1>1. \A x, y \in Nat : <<x, y>> \in R <=> x < y
  BY DEF OpToRel
<1>2. IsWellFoundedOn(R, Nat)
  BY NatLessThanWellFounded
<1> HIDE DEF R
<1>3. PICK x \in S : \A y \in S : ~(<<y, x>> \in R)
  BY <1>2, WFMin, Zenon
<1>4. ASSUME NEW y \in S
      PROVE  x <= y
  <2>1. x \in Nat /\ y \in Nat
    OBVIOUS
  <2>2. ~(y < x)
    BY <1>1, <1>3, <2>1
  <2> QED
    BY ONLY <2>1, <2>2
<1> QED
  BY <1>4 DEF B!Least

(* Fewer entries, fewer in every window. *)
LEMMA CappedSubset ==
    ASSUME NEW S, IsFiniteSet(S), NEW T, T \subseteq S, NEW w, NEW cap \in Nat, Capped(S, w, cap)
    PROVE  Capped(T, w, cap)
<1> SUFFICES ASSUME NEW t \in Nat
             PROVE  Cardinality(Window(T, t, w)) <= cap
  BY DEF Capped
<1>1. IsFiniteSet(Window(S, t, w)) /\ Window(T, t, w) \subseteq Window(S, t, w)
  BY FS_Subset DEF Window
<1>2. /\ Cardinality(Window(T, t, w)) \in Nat /\ Cardinality(Window(S, t, w)) \in Nat
      /\ Cardinality(Window(T, t, w)) <= Cardinality(Window(S, t, w))
  BY <1>1, FS_Subset, FS_CardinalityType
<1>3. Cardinality(Window(S, t, w)) <= cap
  BY DEF Capped
<1> QED
  BY ONLY <1>2, <1>3, cap \in Nat

(* No window of nothing has more than its cap. *)
LEMMA CappedNone ==
    ASSUME NEW w, NEW cap \in Nat
    PROVE  Capped({}, w, cap)
<1>1. \A t \in Nat : Window({}, t, w) = {}
  BY DEF Window
<1> QED
  BY <1>1, FS_EmptySet DEF Capped

(* One entry more, for a time to come, after fewer than the cap were found. *)
LEMMA CappedMore ==
    ASSUME NEW S, S \subseteq B!Entry, IsFiniteSet(S), NEW w \in Nat, NEW cap \in Nat,
           Capped(S, w, cap),
           NEW m \in Nat, NEW e \in B!Entry, e.at >= m,
           NEW F, IsFiniteSet(F), Cardinality(F) < cap,
           \A x \in S : m < x.at + w => x \in F
    PROVE  Capped(S \cup {e}, w, cap)
<1> SUFFICES ASSUME NEW t \in Nat
             PROVE  Cardinality(Window(S \cup {e}, t, w)) <= cap
  BY DEF Capped
<1> DEFINE V == Window(S, t, w)
           V2 == Window(S \cup {e}, t, w)
<1>1. IsFiniteSet(V) /\ Cardinality(V) \in Nat /\ Cardinality(V) <= cap
  BY FS_Subset, FS_CardinalityType DEF Capped, Window
<1>2. CASE e.at <= t
  <2>1. V \subseteq F
    <3> SUFFICES ASSUME NEW x \in V
                 PROVE  x \in F
      OBVIOUS
    <3>1. x \in S /\ x.at <= t /\ t - x.at < w
      BY DEF Window
    <3>2. x.at \in Nat /\ e.at \in Nat
      BY <3>1 DEF B!Entry
    <3>3. m < x.at + w
      BY <1>2, <3>1, <3>2
    <3> QED
      BY <3>1, <3>3
  <2> HIDE DEF V
  <2>2. Cardinality(V) <= Cardinality(F) /\ Cardinality(F) \in Nat
    BY <2>1, FS_Subset, FS_CardinalityType
  <2>3. /\ IsFiniteSet(V \cup {e})
        /\ Cardinality(V \cup {e}) = Cardinality(V) \/ Cardinality(V \cup {e}) = Cardinality(V) + 1
    BY <1>1, FS_AddElement
  <2>4. V2 \subseteq V \cup {e}
    BY DEF V, Window
  <2> HIDE DEF V2
  <2>5. /\ Cardinality(V2) <= Cardinality(V \cup {e}) /\ Cardinality(V2) \in Nat
        /\ Cardinality(V \cup {e}) \in Nat
    BY <2>3, <2>4, FS_Subset, FS_CardinalityType
  <2>6. Cardinality(F) < cap
    OBVIOUS
  <2>7. Cardinality(V2) <= cap
    BY ONLY <1>1, <2>2, <2>3, <2>5, <2>6, cap \in Nat
  <2> QED
    BY <2>7 DEF V2
<1>3. CASE ~(e.at <= t)
  <2>1. V2 = V
    BY <1>3 DEF Window
  <2> QED
    BY <1>1, <2>1
<1> QED
  BY <1>2, <1>3

(* Nothing is counted; the clock may go on, and entries of another day may go. *)
LEMMA NotCountedKeeps ==
    ASSUME PaceIsNatural, BotInv, now' \in Nat, now' >= now, counted' \in Nat,
           DOMAIN ask' = Askers, \A c \in Askers : CallFields(ask[c])',
           Counted' \subseteq Counted, asked' = asked \/ asked' = B!Retained, OnTime'
    PROVE  BotInv'
<1>1. asked' \subseteq asked
  BY DEF B!Retained
<1>2. /\ asked' \subseteq B!Entry /\ IsFiniteSet(asked')
      /\ Counted' \subseteq B!Entry /\ IsFiniteSet(Counted')
  BY <1>1, FS_Subset DEF BotInv, BotFields
<1>3. BotFields'
  BY <1>2 DEF BotFields, B!Entry
<1>4. Remembered'
  <2> SUFFICES ASSUME NEW e \in Counted', now' < e.at + Day
               PROVE  e \in asked'
    BY DEF Remembered
  <2>1. e \in Counted /\ e.at \in Nat /\ now \in Nat /\ Day \in Nat /\ Day > 0
    BY DEF BotInv, BotFields, B!Entry, PaceIsNatural
  <2>2. now < e.at + Day
    BY <2>1
  <2>3. e \in asked
    BY <2>1, <2>2 DEF BotInv, Remembered
  <2>4. B!Elapsed(e.at) < Day
    BY <2>1, <2>2 DEF B!Elapsed
  <2> QED
    BY <2>3, <2>4 DEF B!Retained
<1>5. Capped(Counted', Hour, BotPerHour) /\ Capped(Counted', Day, PerDay)
  BY CappedSubset DEF BotInv, BotFields, PaceIsNatural
<1>6. Capped(Counted, Hour, BotPerHour)' /\ Capped(Counted, Day, PerDay)'
  BY <1>5 DEF Capped, Window
<1> QED
  BY <1>3, <1>4, <1>6 DEF BotInv

(* may_ask counts a question, for now or for when the pause is over. *)
LEMMA CountedKeeps ==
    ASSUME PaceIsNatural, BotInv, NEW ahead, B!MayAsk(ahead), now' = now,
           NEW e, e = [n |-> counted + 1, at |-> B!AskAt(ahead)],
           asked' = B!Retained \cup {e}, counted' = counted + 1,
           DOMAIN ask' = Askers, \A c \in Askers : CallFields(ask[c])',
           Counted' \subseteq Counted \cup {e},
           \A c \in Askers : ask'[c].at = "waiting" =>
               ask'[c].entry = e \/ (ask[c].at = "waiting" /\ ask'[c].entry = ask[c].entry)
    PROVE  BotInv'
<1>0. /\ now \in Nat /\ counted \in Nat /\ Day \in Nat /\ Day > 0
      /\ Hour \in Nat /\ Hour > 0 /\ Hour <= Day
      /\ BotPerHour \in Nat /\ PerDay \in Nat
      /\ \A x \in asked : x.at \in Nat
      /\ \A x \in Counted : x.at \in Nat
      /\ IsFiniteSet(asked) /\ IsFiniteSet(Counted) /\ Counted \subseteq B!Entry
  BY DEF BotInv, BotFields, PaceIsNatural, B!Entry
<1>1. B!AskAt(ahead) \in Nat /\ B!AskAt(ahead) >= now
  <2>1. CASE B!TooSoon(ahead)
    <3> DEFINE E == {B!Elapsed(x.at) : x \in B!Retained}
    <3>0. B!Retained # {} /\ B!Retained \subseteq asked
      BY <2>1 DEF B!TooSoon, B!Retained
    <3>00. \A x \in asked : B!Elapsed(x.at) \in Nat
      BY <1>0 DEF B!Elapsed
    <3>1. E \subseteq Nat /\ E # {}
      BY <3>0, <3>00
    <3>2. B!Since \in Nat
      BY <3>1, LeastIs DEF B!Since
    <3>3. B!Pause(ahead) \in Nat /\ B!Since < B!Pause(ahead)
      BY <2>1 DEF B!TooSoon, B!Pause, PaceIsNatural
    <3>4. B!AskAt(ahead) = now + B!Pause(ahead) - B!Since
      BY <2>1 DEF B!AskAt
    <3> QED
      BY <1>0, <3>2, <3>3, <3>4
  <2>2. CASE ~B!TooSoon(ahead)
    BY <1>0, <2>2 DEF B!AskAt
  <2> QED
    BY <2>1, <2>2
<1>2. e \in B!Entry /\ e.at >= now
  BY <1>0, <1>1 DEF B!Entry
<1>3. IsFiniteSet(B!Retained) /\ IsFiniteSet(B!LastHour)
  BY <1>0, FS_Subset DEF B!Retained, B!LastHour
<1>4. /\ asked' \subseteq B!Entry /\ IsFiniteSet(asked')
      /\ Counted' \subseteq B!Entry /\ IsFiniteSet(Counted \cup {e}) /\ IsFiniteSet(Counted')
  BY <1>0, <1>2, <1>3, FS_AddElement, FS_Subset DEF BotInv, BotFields, B!Retained
<1>5. BotFields'
  BY <1>0, <1>4 DEF BotFields, B!Entry
<1>6. OnTime'
  BY <1>2 DEF BotInv, OnTime
<1>7. \A x \in Counted : now < x.at + Day => x \in B!Retained
  <2> SUFFICES ASSUME NEW x \in Counted, now < x.at + Day
               PROVE  x \in B!Retained
    OBVIOUS
  <2>1. B!Elapsed(x.at) < Day
    BY <1>0 DEF B!Elapsed
  <2> QED
    BY <2>1 DEF BotInv, Remembered, B!Retained
<1>8. \A x \in Counted : now < x.at + Hour => x \in B!LastHour
  <2> SUFFICES ASSUME NEW x \in Counted, now < x.at + Hour
               PROVE  x \in B!LastHour
    OBVIOUS
  <2>1. now < x.at + Day
    BY <1>0
  <2>2. B!Elapsed(x.at) < Hour
    BY <1>0 DEF B!Elapsed
  <2> QED
    BY <1>7, <2>1, <2>2 DEF B!LastHour
<1>9. Remembered'
  BY <1>7 DEF Remembered
<1>10. Cardinality(B!LastHour) < BotPerHour /\ Cardinality(B!Retained) < PerDay
  <2>1. Cardinality(B!LastHour) \in Nat /\ Cardinality(B!Retained) \in Nat
    BY <1>3, FS_CardinalityType
  <2>2. \A k \in Nat : k \div 2 \in Nat /\ k \div 2 <= k
    OBVIOUS
  <2>3. /\ B!Cap(BotPerHour, ahead) \in Nat /\ B!Cap(BotPerHour, ahead) <= BotPerHour
        /\ B!Cap(PerDay, ahead) \in Nat /\ B!Cap(PerDay, ahead) <= PerDay
    <3>1. \A k \in Nat : B!Cap(k, ahead) = k \div 2 \/ B!Cap(k, ahead) = k
      BY DEF B!Cap
    <3> QED
      BY <1>0, <2>2, <3>1
  <2>4. /\ Cardinality(B!LastHour) < B!Cap(BotPerHour, ahead)
        /\ Cardinality(B!Retained) < B!Cap(PerDay, ahead)
    BY SameSize DEF B!MayAsk
  <2> QED
    BY ONLY <1>0, <2>1, <2>3, <2>4
<1>11. Capped(Counted \cup {e}, Hour, BotPerHour)
  BY <1>0, <1>2, <1>3, <1>8, <1>10, CappedMore DEF BotInv
<1>12. Capped(Counted \cup {e}, Day, PerDay)
  BY <1>0, <1>2, <1>3, <1>7, <1>10, CappedMore DEF BotInv
<1>13. Capped(Counted', Hour, BotPerHour) /\ Capped(Counted', Day, PerDay)
  BY <1>0, <1>4, <1>11, <1>12, CappedSubset
<1>14. Capped(Counted, Hour, BotPerHour)' /\ Capped(Counted, Day, PerDay)'
  BY <1>13 DEF Capped, Window
<1> QED
  BY <1>5, <1>6, <1>9, <1>14 DEF BotInv

(* One call goes on: the others, and what went out, are as they were. *)
LEMMA OneCall ==
    ASSUME BotFields, NEW c \in Askers, NEW r, CallFields(r), ask' = [ask EXCEPT ![c] = r],
           sent' = sent
    PROVE  /\ DOMAIN ask' = Askers /\ \A d \in Askers : CallFields(ask[d])'
           /\ \A d \in Askers : ask'[d] = IF d = c THEN r ELSE ask[d]
           /\ Counted' \subseteq Counted \cup {r.entry}
           /\ r.at # "waiting" => Counted' \subseteq Counted
<1>1. DOMAIN ask' = Askers /\ \A d \in Askers : ask'[d] = IF d = c THEN r ELSE ask[d]
  BY DEF BotFields
<1>2. \A d \in Askers : CallFields(ask'[d])
  BY <1>1 DEF BotFields
<1>3. \A d \in Askers : CallFields(ask[d])'
  BY <1>2 DEF CallFields
<1>4. Counted' \subseteq Counted \cup {r.entry}
  BY <1>1 DEF Counted
<1>5. r.at # "waiting" => Counted' \subseteq Counted
  BY <1>1 DEF Counted
<1> QED
  BY <1>1, <1>3, <1>4, <1>5

(* One call goes on, and not to wait. *)
LEMMA UncountedCall ==
    ASSUME PaceIsNatural, BotInv, NEW c \in Askers, NEW r, CallFields(r), r.at # "waiting",
           ask' = [ask EXCEPT ![c] = r], UNCHANGED <<sent, now, counted>>,
           asked' = asked \/ asked' = B!Retained
    PROVE  BotInv'
<1>1. /\ DOMAIN ask' = Askers /\ \A d \in Askers : CallFields(ask[d])'
      /\ \A d \in Askers : ask'[d] = IF d = c THEN r ELSE ask[d]
      /\ Counted' \subseteq Counted
  BY OneCall DEF BotInv
<1>2. OnTime'
  BY <1>1 DEF BotInv, OnTime
<1>3. now' \in Nat /\ now' >= now /\ counted' \in Nat
  BY DEF BotInv, BotFields
<1> QED
  BY <1>1, <1>2, <1>3, NotCountedKeeps

(* Rest leaves a call that does not wait. *)
LEMMA RestIs ==
    ASSUME NEW a, CallFields(a)
    PROVE  CallFields(B!Rest(a)) /\ B!Rest(a).at = "idle"
  BY DEF CallFields, B!Rest

(* The last answer is known: the question is answered, refused or counted. *)
LEMMA ProceedKeeps ==
    ASSUME PaceIsNatural, BotInv, NEW c \in Askers, NEW a, CallFields(a), NEW known,
           B!Proceed(c, a, known), UNCHANGED <<sent, now>>
    PROVE  BotInv'
<1>1. CASE B!Younger(known, Fresh) \/ B!Younger(silent, SilentFor) \/ ~B!MayAsk(a.ahead)
  <2>1. /\ ask' = [ask EXCEPT ![c] = B!Rest(a)] /\ counted' = counted
        /\ asked' = asked \/ asked' = B!Retained
    BY <1>1 DEF B!Proceed
  <2>2. CallFields(B!Rest(a)) /\ B!Rest(a).at # "waiting"
    BY RestIs
  <2> QED
    BY <2>1, <2>2, UncountedCall
<1>2. CASE ~(B!Younger(known, Fresh) \/ B!Younger(silent, SilentFor) \/ ~B!MayAsk(a.ahead))
  <2> DEFINE e == [n |-> counted + 1, at |-> B!AskAt(a.ahead)]
             r == [a EXCEPT !.at = "waiting", !.entry = e]
  <2>1. /\ ask' = [ask EXCEPT ![c] = r] /\ counted' = counted + 1
        /\ asked' = B!Retained \cup {e}
    BY <1>2 DEF B!Proceed
  <2>2. B!MayAsk(a.ahead)
    BY <1>2
  <2>3. CallFields(r) /\ r.at = "waiting" /\ r.entry = e
    BY DEF CallFields
  <2> HIDE DEF r
  <2>4. /\ DOMAIN ask' = Askers /\ \A d \in Askers : CallFields(ask[d])'
        /\ \A d \in Askers : ask'[d] = IF d = c THEN r ELSE ask[d]
        /\ Counted' \subseteq Counted \cup {e}
    BY <2>1, <2>3, OneCall DEF BotInv
  <2>5. \A d \in Askers : ask'[d].at = "waiting" =>
          ask'[d].entry = e \/ (ask[d].at = "waiting" /\ ask'[d].entry = ask[d].entry)
    BY <2>3, <2>4
  <2>6. PICK x : x = e
    OBVIOUS
  <2>7. PICK h : h = a.ahead
    OBVIOUS
  <2> QED
    BY <2>1, <2>2, <2>4, <2>5, <2>6, <2>7, CountedKeeps
<1> QED
  BY <1>1, <1>2

(* Every step of the bot's askers, of the clock and of the server. *)
LEMMA BotStep ==
    ASSUME PaceIsNatural, BotInv, B!Next \/ UNCHANGED B!vars
    PROVE  BotInv'
<1>0. /\ now \in Nat /\ counted \in Nat /\ DOMAIN ask = Askers
      /\ \A c \in Askers : CallFields(ask[c])
  BY DEF BotInv, BotFields
<1>1. ASSUME NEW c \in Askers, NEW q \in Questions, NEW ahead, B!Ask(c, q, ahead)
      PROVE  BotInv'
  <2> DEFINE a == [B!Rest(ask[c]) EXCEPT !.question = q, !.ahead = ahead, !.since = now]
  <2>1. CallFields(a) /\ a.at = "idle"
    <3>1. CallFields(B!Rest(ask[c])) /\ B!Rest(ask[c]).at = "idle"
      BY <1>0, RestIs
    <3> QED
      BY <3>1 DEF CallFields
  <2>2. UNCHANGED <<sent, now>>
    BY <1>1 DEF B!Ask
  <2>3. CASE answers[q] # B!Never
    <3>1. B!Proceed(c, a, answers[q])
      BY <1>1, <2>3 DEF B!Ask
    <3> QED
      BY <2>1, <2>2, <3>1, ProceedKeeps
  <2>4. CASE answers[q] = B!Never
    <3> DEFINE r == [a EXCEPT !.at = "loading", !.loaded = saved[q]]
    <3>1. ask' = [ask EXCEPT ![c] = r] /\ UNCHANGED <<asked, counted>>
      BY <1>1, <2>4 DEF B!Ask
    <3>2. CallFields(r) /\ r.at # "waiting"
      BY <2>1 DEF CallFields
    <3> HIDE DEF r
    <3> QED
      BY <2>2, <3>1, <3>2, UncountedCall
  <2> QED
    BY <2>3, <2>4
<1>2. ASSUME NEW c \in Askers, B!Loaded(c)
      PROVE  BotInv'
  BY <1>0, <1>2, ProceedKeeps DEF B!Loaded
<1>3. ASSUME NEW c \in Askers, B!Send(c)
      PROVE  BotInv'
  <2>1. /\ ask[c].at = "waiting" /\ now >= ask[c].entry.at
        /\ ask' = [ask EXCEPT ![c].at = "asking"]
        /\ sent' = sent \cup {[n |-> ask[c].entry.n, at |-> now]}
        /\ UNCHANGED <<now, asked, counted>>
    BY <1>3 DEF B!Send
  <2>2. ask[c].entry \in Counted
    BY <2>1 DEF Counted
  <2>3. ask[c].entry \in B!Entry
    BY <2>2 DEF BotInv, BotFields
  <2>4. ask[c].entry.at = now
    <3>1. ask[c].entry.at \in Nat /\ ask[c].entry.at >= now
      BY <2>1, <2>3 DEF BotInv, OnTime, B!Entry
    <3> QED
      BY <1>0, <2>1, <3>1
  <2>5. [n |-> ask[c].entry.n, at |-> now] = ask[c].entry
    BY <2>3, <2>4 DEF B!Entry
  <2>6. /\ DOMAIN ask' = Askers
        /\ \A d \in Askers : d # c => ask'[d] = ask[d]
        /\ ask'[c].at = "asking" /\ CallFields(ask'[c])
    BY <1>0, <2>1 DEF CallFields
  <2>7. \A d \in Askers : CallFields(ask[d])'
    BY <1>0, <2>6 DEF CallFields
  <2>8. Counted' \subseteq Counted
    BY <2>1, <2>2, <2>5, <2>6 DEF Counted
  <2>9. OnTime'
    BY <2>1, <2>6 DEF BotInv, OnTime
  <2> QED
    BY <1>0, <2>1, <2>6, <2>7, <2>8, <2>9, NotCountedKeeps
<1>4. ASSUME NEW c \in Askers, B!Answered(c) \/ B!Failed(c)
      PROVE  BotInv'
  <2>1. ask' = [ask EXCEPT ![c] = B!Rest(ask[c])] /\ UNCHANGED <<now, asked, counted, sent>>
    BY <1>4 DEF B!Answered, B!Failed
  <2>2. CallFields(B!Rest(ask[c])) /\ B!Rest(ask[c]).at # "waiting"
    BY <1>0, RestIs
  <2> QED
    BY <2>1, <2>2, UncountedCall
<1>5. CASE B!Tick
  <2>1. /\ now' = now + 1 /\ UNCHANGED <<ask, sent, asked, counted>>
        /\ \A c \in Askers : ask[c].at = "waiting" => ask[c].entry.at > now
    BY <1>5 DEF B!Tick
  <2>2. Counted' = Counted /\ \A c \in Askers : CallFields(ask[c])'
    BY <1>0, <2>1 DEF Counted, CallFields
  <2>3. OnTime'
    <3>1. \A c \in Askers : ask[c].at = "waiting" => ask[c].entry.at \in Nat
      BY DEF BotInv, BotFields, Counted, B!Entry
    <3> QED
      BY <1>0, <2>1, <3>1 DEF OnTime
  <2>4. now' \in Nat /\ now' >= now
    BY <1>0, <2>1
  <2> QED
    BY <1>0, <2>1, <2>2, <2>3, <2>4, NotCountedKeeps
<1>6. CASE B!Restart
  <2>1. /\ asked' = {} /\ counted' = 0 /\ now' = now /\ sent' = {}
        /\ ask' = [c \in Askers |-> B!Rest(ask[c])]
    BY <1>6 DEF B!Restart
  <2>2. \A c \in Askers : CallFields(ask'[c]) /\ ask'[c].at = "idle"
    BY <1>0, <2>1, RestIs
  <2>3. Counted' = {}
    BY <2>1, <2>2 DEF Counted
  <2>4. BotFields'
    BY <1>0, <2>1, <2>2, <2>3, FS_EmptySet DEF BotFields, CallFields
  <2>5. OnTime' /\ Remembered'
    BY <2>2, <2>3 DEF OnTime, Remembered
  <2>6. Capped(Counted', Hour, BotPerHour) /\ Capped(Counted', Day, PerDay)
    BY <2>3, CappedNone DEF PaceIsNatural
  <2>7. Capped(Counted, Hour, BotPerHour)' /\ Capped(Counted, Day, PerDay)'
    BY <2>6 DEF Capped, Window
  <2> QED
    BY <2>4, <2>5, <2>7 DEF BotInv
<1>7. CASE UNCHANGED B!vars
  <2>1. UNCHANGED <<now, ask, sent, asked, counted>>
    BY <1>7 DEF B!vars
  <2>2. Counted' = Counted /\ OnTime' /\ \A c \in Askers : CallFields(ask[c])'
    BY <1>0, <2>1 DEF Counted, BotInv, OnTime, CallFields
  <2> QED
    BY <1>0, <2>1, <2>2, NotCountedKeeps
<1> QED
  BY <1>1, <1>2, <1>3, <1>4, <1>5, <1>6, <1>7 DEF B!Next, B!CallerAsks, B!AskedAhead

(* When the server starts nothing was asked. *)
LEMMA BotBegins ==
    ASSUME PaceIsNatural, B!Init
    PROVE  BotInv
<1>1. /\ now = 0 /\ asked = {} /\ counted = 0 /\ sent = {} /\ DOMAIN ask = Askers
      /\ \A c \in Askers : CallFields(ask[c]) /\ ask[c].at = "idle"
  BY DEF B!Init, CallFields
<1>2. Counted = {}
  BY <1>1 DEF Counted
<1>3. BotFields
  BY <1>1, <1>2, FS_EmptySet DEF BotFields
<1>4. OnTime /\ Remembered
  BY <1>1, <1>2 DEF OnTime, Remembered
<1>5. Capped(Counted, Hour, BotPerHour) /\ Capped(Counted, Day, PerDay)
  BY <1>2, CappedNone DEF PaceIsNatural
<1> QED
  BY <1>3, <1>4, <1>5 DEF BotInv

(* However many calls ask at once and wait for their turn outside the lock,   *)
(* no hour and no day sees more questions than the caps, counted at the time  *)
(* they go out (CapsHold; WhatsAppChatBot::may_ask).                          *)
THEOREM CapsHoldAlways ==
    ASSUME PaceIsNatural
    PROVE  ServicesSpec => []CapsHold
<1> DEFINE I == part = "bot" => BotInv
<1>1. ServicesInit => I
  BY BotBegins DEF ServicesInit
<1>2. I /\ [ServicesNext]_allVars => I'
  <2> SUFFICES ASSUME I, [ServicesNext]_allVars, part' = "bot"
               PROVE  BotInv'
    OBVIOUS
  <2>1. part = "bot"
    BY DEF ServicesNext, StepOutbox, StepPriceBot, StepOwner, StepDoor, StepModels, allVars
  <2>2. B!Next \/ UNCHANGED B!vars
    BY <2>1 DEF ServicesNext, StepOutbox, StepPriceBot, StepOwner, StepDoor, StepModels, allVars, botVars, B!vars
  <2> QED
    BY <2>1, <2>2, BotStep
<1>3. I => CapsHold
  <2> SUFFICES ASSUME BotInv
               PROVE  B!CapsHold
    BY DEF CapsHold
  <2> SUFFICES ASSUME NEW e \in sent
               PROVE  /\ Cardinality(B!Within(e, Hour)) <= BotPerHour
                      /\ Cardinality(B!Within(e, Day)) <= PerDay
    BY SameSize DEF B!CapsHold
  <2>1. sent \subseteq Counted /\ e.at \in Nat
    BY DEF Counted, BotInv, BotFields, B!Entry
  <2>2. Capped(sent, Hour, BotPerHour) /\ Capped(sent, Day, PerDay)
    BY <2>1, CappedSubset DEF BotInv, BotFields, PaceIsNatural
  <2>3. B!Within(e, Hour) = Window(sent, e.at, Hour) /\ B!Within(e, Day) = Window(sent, e.at, Day)
    BY DEF B!Within, Window
  <2> QED
    BY <2>1, <2>2, <2>3 DEF Capped
<1> QED
  BY <1>1, <1>2, <1>3, PTL DEF ServicesSpec

-----------------------------------------------------------------------------
(* Models, for replies of any length.  While there is no result somebody is   *)
(* waited for, and how far the request has come follows from who was asked:   *)
(* a race asks all of them at once; otherwise the backup is asked before the  *)
(* primary is given up, and the fallback only after both.                     *)

(* The order in which the models of a request that is not a race are asked. *)
InTurn ==
    /\ lane["primary"] # "off"
    /\ lane["primary"] = "failed" /\ "backup" \in has => lane["backup"] # "off"
    /\ lane["fallback"] # "off" =>
          lane["primary"] = "failed" /\ ("backup" \in has => lane["backup"] = "failed")

Waiting ==
    /\ \A l \in M!Lanes : lane[l] \in {"off", "asked", "failed"} /\ (l \notin has => lane[l] = "off")
    /\ \E l \in M!Lanes : lane[l] = "asked"
    /\ IF way = "race" THEN \A l \in has : lane[l] # "off" ELSE InTurn

ModelsInv ==
    /\ has \subseteq M!Lanes /\ DOMAIN lane = M!Lanes
    /\ result = "none" => Waiting
    /\ M!GivesUpLast

(* A lane fails: another is waited for, the next is asked, or all have failed. *)
LEMMA FailsKeeps ==
    ASSUME ModelsInv, NEW l \in M!Lanes, M!Fails(l)
    PROVE  ModelsInv'
<1>1. Waiting /\ lane[l] = "asked" /\ UNCHANGED <<way, has>>
  BY DEF ModelsInv, M!Fails, M!Asked
<1>2. M!Lanes = {"primary", "backup", "fallback"} /\ DOMAIN lane = M!Lanes /\ has \subseteq M!Lanes
  BY DEF ModelsInv, M!Lanes
<1>3. CASE M!Asked # {l}
  <2>1. lane' = [lane EXCEPT ![l] = "failed"] /\ result' = result /\ result = "none"
    BY <1>3 DEF M!Fails
  <2>2. PICK k \in M!Lanes : k # l /\ lane[k] = "asked"
    BY <1>1, <1>3 DEF M!Asked
  <2>3. Waiting'
    BY <1>1, <1>2, <2>1, <2>2 DEF Waiting, InTurn
  <2> QED
    BY <1>1, <1>2, <2>1, <2>3 DEF ModelsInv, M!GivesUpLast
<1>4. CASE M!Asked = {l} /\ way # "race" /\ M!Follows(l) \in has /\ lane[M!Follows(l)] = "off"
  <2> DEFINE n == M!Follows(l)
  <2>1. lane' = [[lane EXCEPT ![l] = "failed"] EXCEPT ![n] = "asked"] /\ result' = result /\ result = "none"
    BY <1>4 DEF M!Fails, M!Ask
  <2>2. n = IF l = "primary" /\ "backup" \in has /\ lane["backup"] = "off" THEN "backup" ELSE "fallback"
    BY DEF M!Follows
  <2>3. n \in has /\ lane[n] = "off" /\ \A k \in M!Lanes : k # l => lane[k] # "asked"
    BY <1>4 DEF M!Asked
  <2> HIDE DEF n
  <2>4. Waiting'
    BY <1>1, <1>2, <1>4, <2>1, <2>2, <2>3 DEF Waiting, InTurn
  <2> QED
    BY <1>1, <1>2, <2>1, <2>4 DEF ModelsInv, M!GivesUpLast
<1>5. CASE M!Asked = {l} /\ ~(way # "race" /\ M!Follows(l) \in has /\ lane[M!Follows(l)] = "off")
  <2>1. lane' = [lane EXCEPT ![l] = "failed"] /\ result' = "failed"
    BY <1>5 DEF M!Fails
  <2>2. \A k \in M!Lanes : k # l => lane[k] # "asked"
    BY <1>5 DEF M!Asked
  <2>3. ASSUME NEW k \in has
        PROVE  lane'[k] = "failed"
    BY <1>1, <1>2, <1>5, <2>1, <2>2 DEF Waiting, InTurn, M!Follows
  <2> QED
    BY <1>1, <1>2, <2>1, <2>3 DEF ModelsInv, M!GivesUpLast
<1> QED
  BY <1>3, <1>4, <1>5

(* Every step of a request keeps the invariant. *)
LEMMA ModelsStep ==
    ASSUME ModelsInv, M!Next \/ UNCHANGED M!vars
    PROVE  ModelsInv'
<1>1. CASE M!Hedge
  <2>1. /\ lane' = [lane EXCEPT !["backup"] = "asked"] /\ UNCHANGED <<way, has, result>>
        /\ way = "stream" /\ "backup" \in has /\ result = "none" /\ lane["primary"] = "asked"
    BY <1>1 DEF M!Hedge, M!Ask
  <2>2. M!Lanes = {"primary", "backup", "fallback"} /\ DOMAIN lane = M!Lanes /\ has \subseteq M!Lanes /\ Waiting
    BY <2>1 DEF ModelsInv, M!Lanes
  <2>3. Waiting'
    BY <2>1, <2>2 DEF Waiting, InTurn
  <2> QED
    BY <2>1, <2>2, <2>3 DEF ModelsInv, M!GivesUpLast
<1>2. CASE M!Streams
  BY <1>2 DEF ModelsInv, M!Streams, M!GivesUpLast
<1>3. ASSUME NEW l \in M!Lanes, M!Starts(l)
      PROVE  ModelsInv'
  BY <1>3 DEF ModelsInv, M!Starts, M!GivesUpLast
<1>4. CASE UNCHANGED M!vars
  BY <1>4 DEF ModelsInv, M!vars, M!GivesUpLast, Waiting, InTurn
<1> QED
  BY <1>1, <1>2, <1>3, <1>4, FailsKeeps DEF M!Next

(* A request begins with the primary, or with all of them. *)
LEMMA ModelsBegin ==
    ASSUME M!Init
    PROVE  ModelsInv
<1>1. /\ M!Lanes = {"primary", "backup", "fallback"} /\ has \subseteq M!Lanes /\ "primary" \in has
      /\ lane = [l \in M!Lanes |-> IF l = "primary" \/ (way = "race" /\ l \in has) THEN "asked" ELSE "off"]
      /\ result = "none"
  BY DEF M!Init, M!Lanes, M!Configured
<1>2. Waiting
  BY <1>1 DEF Waiting, InTurn
<1> QED
  BY <1>1, <1>2 DEF ModelsInv, M!GivesUpLast

(* An error is reported to the call only when every model there is has failed:  *)
(* none was left unasked and none that may still answer was left behind,        *)
(* whichever way the request was made and in whatever order they failed         *)
(* (GivesUpLast; Hedged, Fallback and race of race.rs).                         *)
THEOREM GivesUpLastHolds == ServicesSpec => []GivesUpLast
<1> DEFINE I == part = "models" => ModelsInv
<1>1. ServicesInit => I
  BY ModelsBegin DEF ServicesInit
<1>2. I /\ [ServicesNext]_allVars => I'
  <2> SUFFICES ASSUME I, [ServicesNext]_allVars, part' = "models"
               PROVE  ModelsInv'
    OBVIOUS
  <2>1. part = "models"
    BY DEF ServicesNext, StepOutbox, StepPriceBot, StepOwner, StepDoor, StepModels, allVars
  <2>2. M!Next \/ UNCHANGED M!vars
    BY <2>1 DEF ServicesNext, StepOutbox, StepPriceBot, StepOwner, StepDoor, StepModels, allVars, modelsVars, M!vars
  <2> QED
    BY <2>1, <2>2, ModelsStep
<1>3. I => GivesUpLast
  BY DEF GivesUpLast, ModelsInv
<1> QED
  BY <1>1, <1>2, <1>3, PTL DEF ServicesSpec
=============================================================================
