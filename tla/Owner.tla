------------------------------- MODULE Owner -------------------------------
(***************************************************************************)
(* The owner's changes while calls run (callora-runtime server.rs,         *)
(* settings.rs, owner_config.rs, agent_model.rs): the settings kept in     *)
(* PostgreSQL and in memory, the configuration laid over the business's    *)
(* file, the voice library that is recorded in the background, and the     *)
(* agent's model, tried before it is used.                                 *)
(*                                                                         *)
(* A request of the settings page is a record in `page`: it reads memory,  *)
(* writes the database (which may fail, or commit and lose its answer),    *)
(* then memory.  No lock is held across the database, so other requests    *)
(* come in between, of the same setting too; and a request whose client    *)
(* goes away is dropped where it waits.  The desk, the price bot, the      *)
(* access list and the cost rates are saved alike: `plain` stands for one  *)
(* of them.                                                                *)
(***************************************************************************)
EXTENDS Naturals, FiniteSets

CONSTANTS
    Tabs,          \* requests the owner's pages may have under way
    Voices,        \* voices to choose from, the business's own among them
    OwnVoice,
    Numbers,       \* callers to block
    MaxRequests, MaxFaults   \* bounds: requests, failed writes and restarts

(* The items of the configuration: a sentence callers hear, and a rule.     *)
Items == {"sentence", "rule"}
File == [i \in Items |-> 0]      \* a patch changes nothing where it is 0
Patches == [Items -> {0, 1}]

VARIABLES
    db,        \* what is saved
    mem,       \* what the server holds: SettingsStore
    inUse,     \* the patch the businesses of new calls are built with: the registry
    disk,      \* [Voices -> the sentence each voice's manifest has, or what it lacks]
    library,   \* the library of new calls: its voice, and the sentence it was loaded with
    build,     \* the recording under way, or how the last one failed: voice_builds
    live,      \* the agent's model the calls ask
    active,    \* the model the page shows: AgentControl::active
    page,      \* [Tabs -> the request of each]
    requests, faults,
    apart      \* history: the settings of which what is used and what is saved may have parted

vars == <<db, mem, inUse, disk, library, build, live, active, page, requests, faults, apart>>

Missing == 2    \* a manifest without the sentence
Nowhere == 3    \* no manifest

Domain == [plain |-> {0, 1}, voice |-> Voices, blocked |-> SUBSET Numbers, model |-> {0, 1}, config |-> Patches]
Keys == DOMAIN Domain
NoBuild == [at |-> "none", voice |-> OwnVoice, sentence |-> 0]
Build == [at : {"none", "recording", "recorded", "failed"}, voice : Voices, sentence : {0, 1}]
Idle == [at |-> "idle", key |-> "plain", value |-> 0, record |-> FALSE, alone |-> FALSE]

Recording == build.at \in {"recording", "recorded"}

\* The requests under way that change a setting.
Changing(key) == {t \in Tabs : page[t].at # "idle" /\ page[t].key = key}

-----------------------------------------------------------------------------
(* switch_voice and build_voice.                                              *)

\* Refused while a recording of this business runs; it reads the configuration as it starts.
SwitchVoice(voice, sentence) ==
    build' = IF Recording THEN build ELSE [at |-> "recording", voice |-> voice, sentence |-> sentence]

\* LibraryBuilder::build: the manifest is written with what could be recorded, or not at all.
BuildRecords ==
    /\ build.at = "recording"
    /\ \/ /\ build' = [build EXCEPT !.at = "recorded"]
          /\ \E s \in {build.sentence, Missing} : disk' = [disk EXCEPT ![build.voice] = s]
       \/ build' = [build EXCEPT !.at = "failed"] /\ UNCHANGED disk
    /\ UNCHANGED <<db, mem, inUse, library, live, active, page, requests, faults, apart>>

\* The library is loaded and swapped whole; when most of it is missing, the one in use stays
\* and the page shows why.  One sentence is not most of it.
BuildEnds ==
    /\ build.at = "recorded"
    /\ \/ library' = [voice |-> build.voice, sentence |-> disk[build.voice]] /\ build' = NoBuild
       \/ build' = [build EXCEPT !.at = "failed"] /\ UNCHANGED library
    /\ UNCHANGED <<db, mem, inUse, disk, live, active, page, requests, faults, apart>>

-----------------------------------------------------------------------------
(* The configuration: a patch, one item at a time, over the business's file.   *)

SetItem(patch, item, value) == [patch EXCEPT ![item] = value]
NeedsRecording(item) == item = "sentence"

\* The business built again from its file with the patch, for the calls that begin now.
ApplyConfig(patch) == inUse' = patch

-----------------------------------------------------------------------------
(* A request arrives: what it reads, and what it does before the database.    *)

\* A model is tried unless it is the one the page shows, which the calls may have lost.
Tried(key, value) == key = "model" /\ active # value

\* Whether a request has the setting for itself, and sets all of it: told apart for the
\* properties only.
Alone(key, value) == Changing(key) = {} /\ (key = "model" => active # value \/ live = active)

Begin(t, key, value, record) ==
    /\ page[t].at = "idle" /\ requests < MaxRequests /\ requests' = requests + 1
    /\ page' = [u \in Tabs |->
           IF u = t THEN [at |-> IF Tried(key, value) THEN "probing" ELSE "writing", key |-> key,
                          value |-> value, record |-> record, alone |-> Alone(key, value)]
           ELSE IF u \in Changing(key) THEN [page[u] EXCEPT !.alone = FALSE] ELSE page[u]]
    /\ apart' = IF Alone(key, value) THEN apart ELSE apart \cup {key}
    /\ UNCHANGED <<db, mem, disk, library, build, faults>>

\* api_save_settings and the others that replace one value.
SavePlain(t, value) == Begin(t, "plain", value, FALSE) /\ UNCHANGED <<inUse, live, active>>

\* set_blocked: the set in memory, with the number in or out, replaces the saved one.
SetBlocked(t, number, blocked) ==
    /\ Begin(t, "blocked", IF blocked THEN mem.blocked \cup {number} ELSE mem.blocked \ {number}, FALSE)
    /\ UNCHANGED <<inUse, live, active>>

\* api_save_voice: refused while a recording runs.
SaveVoice(t, voice) == ~Recording /\ Begin(t, "voice", voice, FALSE) /\ UNCHANGED <<inUse, live, active>>

\* api_save_config: the patch in memory with one item set, checked, and in use at once.  A
\* patch that does not make a valid business is refused and changes nothing.
SaveConfig(t, item, value) ==
    /\ Begin(t, "config", SetItem(mem.config, item, value), NeedsRecording(item))
    /\ ApplyConfig(SetItem(mem.config, item, value))
    /\ UNCHANGED <<live, active>>

\* api_save_agent_model: nothing is tried when the choice is what the page shows.
SaveModel(t, model) == Begin(t, "model", model, FALSE) /\ UNCHANGED <<inUse, live, active>>

\* AgentControl::switch: the models are tried; one that does not answer is refused and the old
\* one stays.  The calls get the new one, then the page.
Probe(t) ==
    /\ page[t].at = "probing"
    /\ \/ page' = [page EXCEPT ![t].at = "answering"] /\ live' = page[t].value
       \/ page' = [page EXCEPT ![t] = Idle] /\ UNCHANGED live
    /\ UNCHANGED <<db, mem, inUse, disk, library, build, active, requests, faults, apart>>

ShowModel(t) ==
    /\ page[t].at = "answering"
    /\ page' = [page EXCEPT ![t].at = "writing"] /\ active' = page[t].value
    /\ UNCHANGED <<db, mem, inUse, disk, library, build, live, requests, faults, apart>>

-----------------------------------------------------------------------------
(* The database, and what follows its answer.                                 *)

Commit(t) ==
    /\ page[t].at = "writing"
    /\ db' = [db EXCEPT ![page[t].key] = page[t].value]
    /\ page' = [page EXCEPT ![t].at = "written"]
    /\ UNCHANGED <<mem, inUse, disk, library, build, live, active, requests, faults, apart>>

\* save_*: memory follows the database; then a chosen voice, or a changed sentence, is recorded.
Remember(t) ==
    /\ page[t].at = "written"
    /\ apart' = IF page[t].alone THEN apart \ {page[t].key} ELSE apart
    /\ mem' = [mem EXCEPT ![page[t].key] = page[t].value]
    /\ page' = [page EXCEPT ![t] = Idle]
    /\ CASE page[t].key = "voice" /\ library.voice # page[t].value -> SwitchVoice(page[t].value, inUse["sentence"])
         [] page[t].record -> SwitchVoice(library.voice, inUse["sentence"])
         [] OTHER -> UNCHANGED build
    /\ UNCHANGED <<db, inUse, disk, library, live, active, requests, faults>>

\* A request that ends early leaves its setting apart when the database has its value and
\* memory has not, or when what it gave the calls, one of `given`, stays unsaved.
LeavesApart(t, given) ==
    apart' = IF page[t].at = "written" \/ page[t].key \in given THEN apart \cup {page[t].key} ELSE apart

(* Mutant: a configuration that could not be saved stays in use.              *)
WriteFailsKeepsPatch(t) ==
    /\ faults < MaxFaults /\ faults' = faults + 1
    /\ page[t].at \in {"writing", "written"}
    /\ page' = [page EXCEPT ![t] = Idle]
    /\ LeavesApart(t, {"model"})
    /\ UNCHANGED <<db, mem, inUse, disk, library, build, live, active, requests>>

\* An error of the database: the write failed, or its answer was lost.  A configuration goes
\* back to what memory has; a model stays in use until the next restart.
WriteFails(t) ==
    /\ faults < MaxFaults /\ faults' = faults + 1
    /\ page[t].at \in {"writing", "written"}
    /\ page' = [page EXCEPT ![t] = Idle]
    /\ ApplyConfig(IF page[t].key = "config" THEN mem.config ELSE inUse)
    /\ LeavesApart(t, {"model"})
    /\ UNCHANGED <<db, mem, disk, library, build, live, active, requests>>

\* The client goes away and the handler is dropped at its await: the database may have done
\* its work or not, and nothing that follows runs, the way back to the saved patch included.
Dropped(t) ==
    /\ faults < MaxFaults /\ faults' = faults + 1
    /\ page[t].at \in {"probing", "writing", "written"}
    /\ page' = [page EXCEPT ![t] = Idle]
    /\ IF page[t].at = "probing" THEN UNCHANGED apart ELSE LeavesApart(t, {"config", "model"})
    /\ UNCHANGED <<db, mem, inUse, disk, library, build, live, active, requests>>

\* apply_saved_voices: the chosen voice's library is used at once if it was built before, and
\* completed; a changed sentence is recorded.
ApplySavedVoice(chosen, sentence) ==
    LET voice == IF disk[chosen] = Nowhere THEN OwnVoice ELSE chosen
    IN  /\ library' = [voice |-> voice, sentence |-> disk[voice]]
        /\ build' = IF chosen # OwnVoice \/ sentence # 0
                      THEN [at |-> "recording", voice |-> chosen, sentence |-> sentence]
                      ELSE NoBuild

\* The server restarts: SettingsStore::load, then apply_saved_configs and apply_saved_voices.
Restart ==
    /\ faults < MaxFaults /\ faults' = faults + 1
    /\ mem' = db /\ ApplyConfig(db.config) /\ live' = db.model /\ active' = db.model
    /\ page' = [t \in Tabs |-> Idle] /\ apart' = {}
    /\ ApplySavedVoice(db.voice, db.config["sentence"])
    /\ UNCHANGED <<db, disk, requests>>

Init ==
    /\ db = [plain |-> 0, voice |-> OwnVoice, blocked |-> {}, model |-> 0, config |-> File] /\ mem = db
    /\ inUse = File /\ disk = [v \in Voices |-> IF v = OwnVoice THEN 0 ELSE Nowhere]
    /\ library = [voice |-> OwnVoice, sentence |-> 0] /\ build = NoBuild
    /\ live = 0 /\ active = 0 /\ page = [t \in Tabs |-> Idle] /\ requests = 0 /\ faults = 0 /\ apart = {}

Next ==
    \/ BuildRecords
    \/ BuildEnds
    \/ \E t \in Tabs :
        \/ \E v \in {0, 1} : SavePlain(t, v) \/ SaveModel(t, v)
        \/ \E n \in Numbers, b \in BOOLEAN : SetBlocked(t, n, b)
        \/ \E v \in Voices : SaveVoice(t, v)
        \/ \E i \in Items, v \in {0, 1} : SaveConfig(t, i, v)
        \/ Probe(t)
        \/ ShowModel(t)
        \/ Commit(t)
        \/ Remember(t)
        \/ WriteFails(t)
        \/ Dropped(t)
    \/ Restart

\* The database answers or fails, and a recording ends.
Fairness == WF_vars(BuildRecords) /\ WF_vars(BuildEnds) /\ \A t \in Tabs : WF_vars(Probe(t)) /\ WF_vars(ShowModel(t)) /\ WF_vars(Commit(t)) /\ WF_vars(Remember(t))

Spec == Init /\ [][Next]_vars /\ Fairness

-----------------------------------------------------------------------------
(* Properties.                                                                *)

TypeOK ==
    /\ DOMAIN db = Keys /\ DOMAIN mem = Keys /\ \A k \in Keys : db[k] \in Domain[k] /\ mem[k] \in Domain[k]
    /\ inUse \in Patches /\ disk \in [Voices -> 0 .. 3] /\ library \in [voice : Voices, sentence : 0 .. 2]
    /\ build \in Build /\ live \in {0, 1} /\ active \in {0, 1}
    /\ \A t \in Tabs : page[t].at \in {"idle", "probing", "answering", "writing", "written"} /\ page[t].value \in Domain[page[t].key]
    /\ requests \in 0 .. MaxRequests /\ faults \in 0 .. MaxFaults /\ apart \subseteq Keys

\* What the calls and the pages use of a setting is what a restart would load.
UsedIsSaved(key) ==
    /\ db[key] = mem[key]
    /\ key = "config" => inUse = db.config
    /\ key = "model" => live = db.model /\ active = live

\* What is used of a setting is what a restart would load, while no change of it is under way:
\* through failed saves, refused models, changes of other settings and restarts.  Not so after
\* two changes of the same setting at once, a request dropped at the save, a saved value whose
\* answer was lost, or a model that was not saved: until the setting is changed again alone.
RestartChangesNothing == \A key \in Keys \ apart : Changing(key) = {} => UsedIsSaved(key)
=============================================================================
