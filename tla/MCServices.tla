------------------------------ MODULE MCServices ------------------------------
(***************************************************************************)
(* What stands around the conversation, for model checking, part by part:  *)
(* a behaviour is about one `part`, and the variables of the others stand  *)
(* still.  The calls let in (Door), the language models behind a request   *)
(* (Models), orders on their way to the groups (Outbox), prices asked of a *)
(* chat bot (PriceBot) and the owner's settings (Owner).                   *)
(***************************************************************************)
EXTENDS Outbox

CONSTANTS
    None,
    Askers, Questions, Gap, GapAhead, BotPerHour, PerDay, Hour, Day, Fresh, SilentFor, MaxTime,
        MaxSent,
    Tabs, Voices, OwnVoice, Numbers, MaxRequests,
    Calls, PendingFor, TokenFor, DoorTime, MaxStreams, MaxDeltas

VARIABLES
    part,   \* the component this behaviour is about
    now, answers, saved, asked, counted, silent, ask, sent,
    db, mem, inUse, disk, library, build, live, active, page, requests, troubles, apart,
    clock, from, allowed, open, blocked, pending, tokens, sessions, passed, restarted,
    way, health, has, lane, out, result

botVars == <<now, answers, saved, asked, counted, silent, ask, sent>>
ownerVars == <<db, mem, inUse, disk, library, build, live, active, page, requests, troubles, apart>>
doorVars == <<clock, from, allowed, open, blocked, pending, tokens, sessions, passed, restarted>>
modelsVars == <<way, health, has, lane, out, result>>
allVars == <<part, vars, botVars, ownerVars, doorVars, modelsVars>>

B == INSTANCE PriceBot WITH PerHour <- BotPerHour
W == INSTANCE Owner WITH faults <- troubles
D == INSTANCE Door WITH now <- clock, MaxTime <- DoorTime
M == INSTANCE Models

-----------------------------------------------------------------------------
(* A component that is not looked at stays as it is; the outbox is empty.     *)

OutboxOff == Init
PriceBotOff ==
    /\ now = None /\ answers = None /\ saved = None /\ asked = None /\ counted = None
    /\ silent = None /\ ask = None /\ sent = None
OwnerOff ==
    /\ db = None /\ mem = None /\ inUse = None /\ disk = None /\ library = None
    /\ build = None /\ live = None /\ active = None /\ page = None /\ requests = None
    /\ troubles = None /\ apart = None
DoorOff ==
    /\ clock = None /\ from = None /\ allowed = None /\ open = None /\ blocked = None
    /\ pending = None /\ tokens = None /\ sessions = None /\ passed = None /\ restarted = None
ModelsOff ==
    /\ way = None /\ health = None /\ has = None /\ lane = None /\ out = None
    /\ result = None

StepOutbox(A) ==
    /\ part = "outbox" /\ A
    /\ UNCHANGED <<part, botVars, ownerVars, doorVars, modelsVars>>
StepPriceBot(A) ==
    /\ part = "bot" /\ A
    /\ UNCHANGED <<part, vars, ownerVars, doorVars, modelsVars>>
StepOwner(A) ==
    /\ part = "owner" /\ A
    /\ UNCHANGED <<part, vars, botVars, doorVars, modelsVars>>
StepDoor(A) ==
    /\ part = "door" /\ A
    /\ UNCHANGED <<part, vars, botVars, ownerVars, modelsVars>>
StepModels(A) ==
    /\ part = "models" /\ A
    /\ UNCHANGED <<part, vars, botVars, ownerVars, doorVars>>

ServicesInit ==
    \/ part = "outbox" /\ Init /\ PriceBotOff /\ OwnerOff /\ DoorOff /\ ModelsOff
    \/ part = "bot" /\ B!Init /\ OutboxOff /\ OwnerOff /\ DoorOff /\ ModelsOff
    \/ part = "owner" /\ W!Init /\ OutboxOff /\ PriceBotOff /\ DoorOff /\ ModelsOff
    \/ part = "door" /\ D!Init /\ OutboxOff /\ PriceBotOff /\ OwnerOff /\ ModelsOff
    \/ part = "models" /\ M!Init /\ OutboxOff /\ PriceBotOff /\ OwnerOff /\ DoorOff

ServicesNext ==
    \/ StepOutbox(Next)
    \/ StepPriceBot(B!Next)
    \/ StepOwner(W!Next)
    \/ StepDoor(D!Next)
    \/ StepModels(M!Next)

\* The fairness of each module's own specification; the parts never meet, so one condition
\* serves several of them.
ServicesFairness ==
    /\ SF_allVars(StepOutbox(Pick))
    /\ WF_allVars(StepOutbox(Serve) \/ StepModels(M!Hedge))
    /\ WF_allVars(StepOutbox(Mark) \/ StepModels(M!Streams))
    /\ WF_allVars(StepOutbox(PauseEnds) \/ StepModels(M!Ends("primary")))
    /\ WF_allVars(StepOutbox(HourEnds) \/ StepModels(M!Ends("backup")))
    /\ WF_allVars(StepOutbox(RetryComes) \/ StepModels(M!Ends("fallback")))

ServicesSpec == ServicesInit /\ [][ServicesNext]_allVars /\ ServicesFairness

-----------------------------------------------------------------------------
(* The outbox's properties are its own: an empty one has them.  Those of the  *)
(* others are stated there, and hold of their part.                           *)

\* PriceBot: the caps of the hour and the day hold however many calls ask at once.
CapsHold == part = "bot" => B!CapsHold

\* Owner: what is used of a setting is what a restart would load, but for changes that
\* overlapped or were broken off.
RestartChangesNothing == part = "owner" => W!RestartChangesNothing

\* Door: a caller the webhook knew is no stranger to the first stream of the call.
KnownToTheSession == [][part = "door" => D!KnownIfInTime]_allVars

\* Models: an error is reported only when every model there is has failed.
GivesUpLast == part = "models" => M!GivesUpLast

\* Models: the reply begins whenever a model that can be reached answers.
OutageIsCovered == (part = "models" /\ M!CanAnswer) ~> out # <<>>
=============================================================================
