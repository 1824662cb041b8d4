--------------------------- MODULE Configuration ----------------------------
(***************************************************************************)
(* The configuration file and the requests that change it: config.py, the  *)
(* /api/config endpoints of api/app.py and infra/config_validator.py.      *)
(*                                                                         *)
(* A save copies the file to a backup, truncates and rewrites it, forgets  *)
(* the cached settings, and loads and validates them again; only then does *)
(* a configuration that cannot be loaded show.  Changing one data provider *)
(* reads the whole file first.  Nothing is locked.  The process may crash  *)
(* between any two steps; a process that cannot load its settings does not *)
(* start until somebody puts a backup in place.                            *)
(*                                                                         *)
(* Of the contents the model keeps one family of data providers and        *)
(* whether the file can be parsed and has the keys the settings need.      *)
(* Versions have distinct modification times, so backups have own names.   *)
(***************************************************************************)
EXTENDS Integers, FiniteSets, TLC

CONSTANTS Threads,    \* worker threads
          Providers,  \* data providers
          NoProvider, \* the empty default
          MaxWrites   \* bound: configurations sent

ASSUME ConfigurationAssumption ==
    /\ Threads # {} /\ Providers # {}
    /\ NoProvider \notin Providers
    /\ MaxWrites \in Nat

VARIABLES
    file,    \* what settings.toml holds
    backups, \* what the files in backups/ hold
    cached,  \* the settings get_settings remembers
    up,      \* whether the process runs
    sent,    \* configurations made so far
    held,    \* history: the configurations the file has held in full
    thread   \* thread[t]: what t is doing

vars == <<file, backups, cached, up, sent, held, thread>>

-----------------------------------------------------------------------------
(* "good" loads; "incomplete" lacks a required key; "broken" is not TOML   *)
(* (a provider name is written unquoted); "unwritable" cannot be rendered. *)
Kinds == {"good", "incomplete", "broken", "unwritable"}

Statuses == {"ok", "warning", "error"}

\* rest is what the checks of the other sections (network, models, programmer
\* repository) find; finds is what the check of a provider finds when it is
\* enabled: an error for a bad base URL, a warning for a missing local path.
Configurations ==
    [kind : Kinds \cup {"empty"}, rest : Statuses, version : 0 .. MaxWrites, defined : SUBSET Providers,
     enabled : SUBSET Providers, finds : [Providers -> Statuses], default : Providers \cup {NoProvider}]

Unfound == [p \in Providers |-> "ok"]

\* An empty file parses as an empty table.
Empty == [kind |-> "empty", rest |-> "ok", version |-> 0, defined |-> {}, enabled |-> {},
          finds |-> Unfound, default |-> NoProvider]
Nothing == [kind |-> "none"]

Made(kind, rest, defined, enabled, finds, default) ==
    [kind |-> kind, rest |-> rest, version |-> sent + 1, defined |-> defined, enabled |-> enabled,
     finds |-> finds, default |-> default]

Idle == [at |-> "idle", op |-> "none", provider |-> NoProvider, payload |-> Nothing, read |-> Nothing,
         answer |-> "none"]

Init ==
    /\ \E p \in Providers :
        file = [kind |-> "good", rest |-> "ok", version |-> 0, defined |-> {p}, enabled |-> {p},
                finds |-> Unfound, default |-> p]
    /\ backups = {}
    /\ cached = file
    /\ up = TRUE
    /\ sent = 0
    /\ held = {file}
    /\ thread = [t \in Threads |-> Idle]

At(t, place) == up /\ thread[t].at = place
Become(t, th) == thread' = [thread EXCEPT ![t] = th]
Go(t, place) == Become(t, [thread[t] EXCEPT !.at = place])
Answer(t, status) == Become(t, [thread[t] EXCEPT !.at = "answered", !.answer = status])

-----------------------------------------------------------------------------
(* Requests.                                                               *)

\* GET /api/config, and a test of what is saved already.
Look(t) ==
    /\ At(t, "idle")
    /\ \/ file.kind = "broken" /\ Answer(t, "refused")
       \/ file.kind # "broken" /\ Become(t, [Idle EXCEPT !.at = "load", !.op = "look"])
    /\ UNCHANGED <<file, backups, cached, up, sent, held>>

\* POST /api/config, /test or /test-item with a payload: any of a kind, with a
\* default that is enabled.
Post(t) ==
    /\ At(t, "idle") /\ sent < MaxWrites
    /\ \E kind \in Kinds, rest \in {"ok", "error"}, op \in {"post", "item"}, p \in Providers :
        \E defined \in SUBSET Providers, finds \in [Providers -> Statuses] : \E default \in defined :
            /\ op = "post" => p = default
            /\ \A q \in Providers \ defined : finds[q] = "ok"
            /\ Become(t, [Idle EXCEPT !.at = "backup", !.op = op, !.provider = p,
                                      !.payload = Made(kind, rest, defined, defined, finds, default)])
    /\ sent' = sent + 1
    /\ UNCHANGED <<file, backups, cached, up, held>>

\* A change writes the list of enabled providers: that may be the key that was
\* missing, but is not all an empty table lacks.
Changed(kind) ==
    CASE kind = "empty" -> {"incomplete"}
      [] kind = "incomplete" -> {"incomplete", "good"}
      [] OTHER -> {kind}

\* POST /api/config/data-source/provider.  The provider may get another URL or
\* path, and its name may be none TOML can read.
UpdateProvider(t) ==
    /\ At(t, "idle") /\ sent < MaxWrites /\ file.kind # "broken"
    /\ \E p \in Providers, enable, asDefault \in BOOLEAN, kind \in Changed(file.kind) \cup {"broken"},
         found \in Statuses :
        LET changed == Made(kind, file.rest, file.defined \cup {p},
                            IF enable THEN file.enabled \cup {p} ELSE file.enabled \ {p},
                            [file.finds EXCEPT ![p] = found], IF asDefault THEN p ELSE file.default)
        IN  Become(t, [Idle EXCEPT !.at = "backup", !.op = "update", !.provider = p,
                                   !.payload = changed])
    /\ sent' = sent + 1
    /\ UNCHANGED <<file, backups, cached, up, held>>

\* POST /api/config/data-source/provider/delete.
\* The default falls to the first provider still enabled.
DefaultsWithout(p, enabled) ==
    IF file.default # p THEN {file.default} ELSE IF enabled = {} THEN {NoProvider} ELSE enabled

DeleteProvider(t) ==
    /\ At(t, "idle") /\ sent < MaxWrites /\ file.kind # "broken"
    /\ \E p \in file.defined, kind \in Changed(file.kind) :
        \E default \in DefaultsWithout(p, file.enabled \ {p}) :
            LET changed == Made(kind, file.rest, file.defined \ {p}, file.enabled \ {p},
                                [file.finds EXCEPT ![p] = "ok"], default)
            IN  Become(t, [Idle EXCEPT !.at = "backup", !.op = "delete", !.provider = p,
                                       !.payload = changed])
    /\ sent' = sent + 1
    /\ UNCHANGED <<file, backups, cached, up, held>>

\* A provider that is not there, or a file that cannot be parsed.
Refuse(t) ==
    /\ At(t, "idle")
    /\ file.kind = "broken" \/ Providers \ file.defined # {}
    /\ Answer(t, "refused")
    /\ UNCHANGED <<file, backups, cached, up, sent, held>>

-----------------------------------------------------------------------------
(* Saving.  A failure before the rewrite leaves the file alone, one in it  *)
(* leaves it empty and the settings remembered.                            *)

OverwriteBackup(t) ==   \* Mutant: all backups share one name.
    /\ At(t, "backup")
    /\ backups' = {file}
    /\ IF thread[t].payload.kind = "unwritable" THEN Answer(t, "refused") ELSE Go(t, "open")
    /\ UNCHANGED <<file, cached, up, sent, held>>

Backup(t) ==
    /\ At(t, "backup")
    /\ backups' = backups \cup {file}
    /\ IF thread[t].payload.kind = "unwritable" THEN Answer(t, "refused") ELSE Go(t, "open")
    /\ UNCHANGED <<file, cached, up, sent, held>>

BackupFails(t) ==
    /\ At(t, "backup")
    /\ Answer(t, "refused")
    /\ UNCHANGED <<file, backups, cached, up, sent, held>>

Open(t) ==
    /\ At(t, "open")
    /\ file' = Empty
    /\ Go(t, "write")
    /\ UNCHANGED <<backups, cached, up, sent, held>>

Write(t) ==
    /\ At(t, "write")
    /\ file' = thread[t].payload
    /\ held' = held \cup {file'}
    /\ Go(t, "clear")
    /\ UNCHANGED <<backups, cached, up, sent>>

WriteFails(t) ==
    /\ At(t, "open") \/ At(t, "write")
    /\ Answer(t, "refused")
    /\ UNCHANGED <<file, backups, cached, up, sent, held>>

NoClear(t) ==   \* Mutant: the settings are not forgotten.
    /\ At(t, "clear")
    /\ Go(t, "load")
    /\ UNCHANGED <<file, backups, cached, up, sent, held>>

Clear(t) ==
    /\ At(t, "clear")
    /\ cached' = Nothing
    /\ Go(t, "load")
    /\ UNCHANGED <<file, backups, up, sent, held>>

-----------------------------------------------------------------------------
(* Loading and validating.  A thread that computed the settings remembers  *)
(* them unless another did so meanwhile; an exception remembers nothing.   *)

Worst(statuses) ==
    IF "error" \in statuses THEN "error" ELSE IF "warning" \in statuses THEN "warning" ELSE "ok"

DefaultCheck(c) == IF c.default \in c.enabled THEN "ok" ELSE "error"
ProviderCheck(c, p) == IF p \in c.enabled THEN c.finds[p] ELSE "warning"

Validation(c) == Worst({c.rest, DefaultCheck(c)} \cup {ProviderCheck(c, p) : p \in c.defined})

\* Of one provider only.
TargetValidation(c, p) == IF p \in c.defined THEN ProviderCheck(c, p) ELSE "error"

Report(th, c) ==
    IF th.op \in {"update", "item"} THEN TargetValidation(c, th.provider) ELSE Validation(c)

LoadAny(t) ==   \* Mutant: a missing key is not an error.
    /\ At(t, "load")
    /\ IF cached # Nothing THEN Answer(t, Report(thread[t], cached))
       ELSE Become(t, [thread[t] EXCEPT !.at = "remember", !.read = file])
    /\ UNCHANGED <<file, backups, cached, up, sent, held>>

Load(t) ==
    /\ At(t, "load")
    /\ IF cached # Nothing THEN Answer(t, Report(thread[t], cached))
       ELSE IF file.kind # "good" THEN Answer(t, "refused")
       ELSE Become(t, [thread[t] EXCEPT !.at = "remember", !.read = file])
    /\ UNCHANGED <<file, backups, cached, up, sent, held>>

Remember(t) ==
    /\ At(t, "remember")
    /\ cached' = IF cached = Nothing THEN thread[t].read ELSE cached
    /\ Answer(t, Report(thread[t], thread[t].read))
    /\ UNCHANGED <<file, backups, up, sent, held>>

Return(t) ==
    /\ At(t, "answered")
    /\ Become(t, Idle)
    /\ UNCHANGED <<file, backups, cached, up, sent, held>>

-----------------------------------------------------------------------------
Crash ==
    /\ up
    /\ up' = FALSE
    /\ cached' = Nothing
    /\ thread' = [t \in Threads |-> Idle]
    /\ UNCHANGED <<file, backups, sent, held>>

\* create_app loads the settings before anything else.
Start ==
    /\ ~up /\ file.kind = "good"
    /\ up' = TRUE
    /\ cached' = file
    /\ UNCHANGED <<file, backups, sent, held, thread>>

\* The operator of a process that does not start.
PutBackupInPlace ==
    /\ ~up /\ file.kind # "good"
    /\ \E b \in backups :
        /\ b.kind = "good"
        /\ file' = b
        /\ backups' = backups \cup {file}
    /\ UNCHANGED <<cached, up, sent, held, thread>>

Step(t) ==
    \/ Look(t) \/ Post(t) \/ UpdateProvider(t) \/ DeleteProvider(t) \/ Refuse(t)
    \/ Backup(t) \/ BackupFails(t) \/ Open(t) \/ Write(t) \/ WriteFails(t) \/ Clear(t)
    \/ Load(t) \/ Remember(t) \/ Return(t)

Next == Crash \/ Start \/ PutBackupInPlace \/ \E t \in Threads : Step(t)

Spec == Init /\ [][Next]_vars

-----------------------------------------------------------------------------
\* Providers are alike.
Symmetric == Permutations(Providers)

Places == {"idle", "backup", "open", "write", "clear", "load", "remember", "answered"}

\* Types; settings remembered are of a configuration that loads.
TypeOK ==
    /\ file \in Configurations /\ file.kind # "unwritable"
    /\ backups \subseteq Configurations
    /\ held \subseteq Configurations
    /\ cached = Nothing \/ (cached \in Configurations /\ cached.kind = "good")
    /\ up \in BOOLEAN
    /\ sent \in 0 .. MaxWrites
    /\ \A t \in Threads : thread[t].at \in Places

\* docs/ui-page-function-report.md:54: every configuration the file has held is
\* still there or in a backup, whatever failed and wherever the process crashed,
\* so that there is always one to go back to.
OldVersionsAreBackedUp == \A c \in held : c = file \/ c \in backups

\* The validation a save is answered with is of what was saved, never of settings
\* remembered from before.
AnswersDescribeTheSaved ==
    \A t \in Threads :
        At(t, "answered") /\ thread[t].payload # Nothing /\ thread[t].answer # "refused"
            => /\ thread[t].answer = Report(thread[t], thread[t].payload)
               /\ cached = thread[t].payload
=============================================================================
