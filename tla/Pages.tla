------------------------------- MODULE Pages -------------------------------
(***************************************************************************)
(* The NiceGUI page of Sentinel-Alpha (nicegui/app.py): the coroutines its *)
(* buttons start, the calls they make to the API one after the other, and  *)
(* the state they share - the selected session, the snapshot on display,   *)
(* the configuration editor and the groups of buttons a running handler    *)
(* has disabled.                                                           *)
(*                                                                         *)
(* All handlers run on one event loop: between two awaits a handler is one *)
(* step.  At each await it has a call in flight on a worker thread; other  *)
(* handlers run meanwhile, and every next call reads the selected session  *)
(* afresh.  A call may be answered, refused by the server, fail with or    *)
(* without a change kept, or time out while the server still works on it.  *)
(*                                                                         *)
(* Left out: the forms and panels, logs and notes, the health page and the *)
(* activity feed, which only read.  The server is modelled from api/app.py *)
(* as far as the page can tell: what a session still lacks for training.   *)
(***************************************************************************)
EXTENDS Integers, Sequences, FiniteSets, FiniteSetsExt

CONSTANTS MaxRunning,   \* bound: handlers running at a time
          Sessions,     \* session identifiers, those in use and those to come
          Old,          \* the session the server has when the page is opened
          NoSession,    \* state.session_id is empty
          BootEvents,   \* events of the automatic behaviour profile (3 in the code)
          MaxSymbols,   \* bound: symbols of a watchlist (8 in the code)
          MaxStarts,    \* bound: handlers started
          MaxFaults     \* bound: calls that fail or time out

ASSUME PagesAssumption ==
    /\ Old \in Sessions /\ NoSession \notin Sessions
    /\ {MaxRunning, BootEvents, MaxSymbols, MaxStarts, MaxFaults} \subseteq Nat
    /\ BootEvents > 0

Slots == 1..MaxRunning   \* a handler takes the first slot free

VARIABLES
    server,   \* server[s]: the session s, as a snapshot of it shows it
    file,     \* the configuration file, by its content
    page,     \* UiState: session_id, snapshot, auto_session_bootstrapped; config_editor
    off,      \* the groups of buttons that are disabled
    task,     \* task[t]: the handler running in slot t
    orphan,   \* calls whose handler no longer waits for them
    starts, faults,   \* handlers started and calls failed so far
    settled   \* parts of the page whose last handler ran alone and succeeded

vars == <<server, file, page, off, task, orphan, starts, faults, settled>>

-----------------------------------------------------------------------------
(* What the page knows of a session.  changes = 0: there is no such session *)
Data == [changes : Nat, universe : BOOLEAN, market : {"unset", "loaded", "moved"},
         acted : BOOLEAN, report : BOOLEAN, preferences : BOOLEAN]

Absent == [changes |-> 0, universe |-> FALSE, market |-> "unset", acted |-> FALSE,
           report |-> FALSE, preferences |-> FALSE]

\* The sessions earlier use leaves: just created, simulated, or trained on.
Earlier == {[Absent EXCEPT !.changes = 1],
            [Absent EXCEPT !.changes = 1, !.market = "moved", !.acted = TRUE],
            [changes |-> 1, universe |-> TRUE, market |-> "moved", acted |-> TRUE,
             report |-> TRUE, preferences |-> TRUE]}

Snapshot == [of : Sessions \cup {NoSession}, data : Data]
NoSnapshot == [of |-> NoSession, data |-> Absent]

-----------------------------------------------------------------------------
(* The server *)

Reads == {"read", "health", "health_or_not", "read_config"}
ConfigCallNames == {"read_config", "write_config", "test_config", "provider"}
ConfigWrites == {"write_config", "test_config", "provider"}
NoSnapshotCalls == ConfigWrites \cup (Reads \ {"read"})
MarketData == {"financials", "dark_pool", "options"}

\* What a call finds; calls about the configuration name no session.
SessionData(sessions, s) == IF s = NoSession THEN Absent ELSE sessions[s]

\* Whether the server's own checks let a call through.
Accepts(what, data) ==
    /\ what \notin {"create"} \cup ConfigCallNames => data.changes > 0
    /\ what = "advance" => data.market # "unset"
    /\ what \in {"complete", "retrain"} => data.market = "moved" /\ data.acted
    /\ what = "iterate" => data.universe /\ data.report

\* The session after a call that changes it.
Changed(what, data) ==
    [changes |-> data.changes + 1,
     universe |-> data.universe \/ what = "universe",
     market |-> CASE what = "market" -> "loaded"
                  [] what = "advance" -> "moved"
                  [] OTHER -> data.market,
     acted |-> data.acted \/ what = "event",
     report |-> data.report \/ what \in {"complete", "retrain"},
     preferences |-> data.preferences \/ what = "preferences"]

-----------------------------------------------------------------------------
(* The handlers *)

\* Below, the calls of each handler in order.  "profile" stands for the events and the
\* completed simulation of a session that has no report yet, "other" for a call that
\* changes a part of the session this page only shows, "health_or_not" for one whose
\* failure refresh_data_source_health keeps to itself.

SessionCalls == [create |-> <<"create", "universe", "profile", "preferences", "health">>,
                 load |-> <<"read", "health">>]

StrategyCalls == [train |-> <<"universe", "profile", "preferences", "iterate">>,
                  universe |-> <<"universe">>, approve |-> <<"other">>, select |-> <<"other">>]

ProgrammerCalls == [programmer |-> <<"other">>]

SimulationCalls == [w \in {"market", "advance", "event", "complete", "retrain"} |-> <<w>>]

PreferencesCalls == [preferences |-> <<"preferences">>]

\* expand_source also stands for applying and testing a run, edit_source for updating
\* and deleting one, provider for saving and deleting a configured provider.
SourceCalls == [expand_source |-> <<"other", "health">>,
                edit_source |-> <<"other", "health_or_not">>,
                check_sources |-> <<"health">>,
                provider |-> <<"provider", "health_or_not">>]

\* Expanding, updating, deleting, applying and testing a terminal run.
TerminalCalls == [terminal |-> <<"other">>]

\* Scenarios, market snapshots, messages, trades and the execution mode.
OperationsCalls == [operations |-> <<"other">>]

Enrichment(n) == [i \in 1..(3 * n) |-> <<"financials", "dark_pool", "options">>[1 + ((i - 1) % 3)]]

\* For a list of n symbols.  Between two of them the handlers also refresh the activity
\* feed, which reads only and swallows its failures: it delays the next call, as an answer
\* may be delayed before the event loop resumes the handler.
IntelligenceCalls(n) == [search |-> <<"search">> \o Enrichment(n),
                         watchlist |-> [i \in 1..n |-> "search"] \o Enrichment(n),
                         refresh_market |-> Enrichment(n)]

ConfigCalls == [reload_config |-> <<"read_config">>, save_config |-> <<"write_config">>,
                test_config |-> <<"test_config">>]

\* The handlers by the group their button is in; the programmer's is in none.
Buttons == [n \in 0..MaxSymbols |->
    [session |-> SessionCalls, strategy |-> StrategyCalls, ungrouped |-> ProgrammerCalls,
     simulation |-> SimulationCalls, preferences |-> PreferencesCalls,
     data_source |-> SourceCalls, terminal |-> TerminalCalls, operations |-> OperationsCalls,
     intelligence |-> IntelligenceCalls(n), config |-> ConfigCalls]]

Groups == DOMAIN Buttons[0]
Handlers == UNION {DOMAIN Buttons[0][g] : g \in Groups}
GroupOf == [h \in Handlers |-> CHOOSE g \in Groups : h \in DOMAIN Buttons[0][g]]
Program(h, n) == Buttons[n][GroupOf[h]][h]

\* The groups a handler disables while it runs.
Locks(h) == CASE h \in {"universe", "approve", "check_sources", "provider"} -> {}
              [] h = "programmer" -> {"strategy"}
              [] OTHER -> {GroupOf[h]}

Prerequisites(h) == IF h \in {"create", "train"}
                    THEN {"universe", "profile", "event", "complete", "preferences"}
                    ELSE {}

\* A prerequisite the local snapshot already shows is not asked for again.
Needed(h, what, data, session) ==
    /\ what \in Prerequisites(h) =>
           CASE what = "universe" -> ~data.universe
             [] what = "profile" -> ~data.report
             [] what = "preferences" -> ~data.preferences
             [] OTHER -> TRUE
    /\ what = "health_or_not" => session # NoSession

\* The calls left, those not needed at this point dropped.
Remaining(h, calls, data, session) ==
    LET needed == {i \in DOMAIN calls : Needed(h, calls[i], data, session)}
        rest == IF needed = {} THEN <<>> ELSE SubSeq(calls, Min(needed), Len(calls))
    IN  IF rest # <<>> /\ rest[1] = "profile"
        THEN [i \in 1..BootEvents |-> "event"] \o <<"complete">> \o Tail(rest)
        ELSE rest

-----------------------------------------------------------------------------
(* A handler in flight *)

Idle == [handler |-> "none", calls |-> <<>>, local |-> NoSnapshot, session |-> NoSession,
         content |-> 0, answer |-> "none", reply |-> Absent, tries |-> 0,
         alone |-> FALSE, steady |-> FALSE]

Busy(t) == task[t].handler # "none"
Free(t) == ~Busy(t) /\ \A u \in 1..(t - 1) : Busy(u)
Doing(t) == task[t].calls[1]

\* The next call is on its way, to the session selected at this moment.
Sent(run, calls, session) ==
    [run EXCEPT !.calls = calls, !.session = session, !.answer = "awaited", !.reply = Absent]

\* The call a timed out handler leaves with the server.
CallOf(t) == [what |-> Doing(t), session |-> task[t].session, content |-> task[t].content]

NewContent == 1 + Max({file, page.editor} \cup {task[t].content : t \in Slots})

\* The parts of the page a handler is about, and those a success leaves up to date:
\* a provider changes the file under the editor.
About(h) == CASE h \in {"provider", "reload_config", "save_config", "test_config"} -> {"config"}
              [] h = "check_sources" -> {}
              [] OTHER -> {"session"}
Refreshes(h) == About(h) \ (IF h = "provider" THEN {"config"} ELSE {})

\* MUTANT: a handler does not ask for a session first.
StartableUnselected(h) ==
    h = "complete" => page.snapshot.data.market = "moved" /\ page.snapshot.data.acted

\* What the code asks of the page before it makes a call.
Startable(h) ==
    /\ page.session # NoSession \/ h \in {"create", "load", "provider"} \/ GroupOf[h] = "config"
    /\ h = "complete" => page.snapshot.data.market = "moved" /\ page.snapshot.data.acted

\* An identifier the server has not used yet.
Unused == {s \in Sessions : /\ server[s].changes = 0
                            /\ \A t \in Slots : Busy(t) => task[t].session # s
                            /\ \A c \in orphan : c.session # s}

\* The sessions a handler may name: one to be created, one typed in, the selected one.
Named(h) == CASE h = "create" -> Unused [] h = "load" -> Sessions [] OTHER -> {page.session}

ListsFor(h) == CASE h = "search" -> 0..MaxSymbols
                 [] h \in {"watchlist", "refresh_market"} -> 1..MaxSymbols
                 [] OTHER -> {0}

\* Handler h begins: its group is disabled and its first call sent.
Launch(t, h, n, s, content) ==
    /\ starts < MaxStarts
    /\ LET quiet == orphan = {} /\ \A u \in Slots : ~Busy(u)
           run == [Idle EXCEPT !.handler = h, !.local = page.snapshot, !.content = content,
                               !.alone = quiet, !.steady = page.snapshot.of = page.session]
           calls == Remaining(h, Program(h, n), page.snapshot.data, s)
       IN  task' = [u \in Slots |-> IF u = t THEN Sent(run, calls, s)
                                    ELSE [task[u] EXCEPT !.alone = FALSE]]
    /\ off' = off \cup Locks(h)
    /\ starts' = starts + 1
    /\ settled' = settled \ About(h)
    /\ UNCHANGED <<server, file, orphan, faults>>

Begin(t, h) ==
    /\ Free(t)
    /\ GroupOf[h] \notin off
    /\ Startable(h)
    /\ \E n \in ListsFor(h), s \in Named(h) :
           Launch(t, h, n, s, IF h = "save_config" \/ h = "test_config" THEN page.editor ELSE 0)
    /\ UNCHANGED page

\* The user has changed the editor before saving or testing it.
BeginEdited(t, h) ==
    /\ Free(t)
    /\ GroupOf[h] \notin off
    /\ Launch(t, h, 0, page.session, NewContent)
    /\ page' = [page EXCEPT !.editor = NewContent]

\* The timer of a page just opened: it creates a session unless one has been loaded.
Bootstrap(t) ==
    /\ Free(t) /\ ~page.opened
    /\ page' = [page EXCEPT !.opened = TRUE]
    /\ IF page.session = NoSession
       THEN \E s \in Unused : Launch(t, "create", 0, s, 0)
       ELSE UNCHANGED <<server, file, off, task, orphan, starts, faults, settled>>

-----------------------------------------------------------------------------
(* The server at work on a call: [what, session, content] *)

Served(call) ==
    /\ server' = IF call.what \in Reads \cup ConfigWrites THEN server
                 ELSE [server EXCEPT ![call.session] = Changed(call.what, @)]
    /\ file' = CASE call.what \in {"write_config", "test_config"} -> call.content
                 [] call.what = "provider" -> NewContent
                 [] OTHER -> file

Answer(t) ==
    /\ Busy(t) /\ task[t].answer = "awaited"
    /\ Accepts(Doing(t), SessionData(server, task[t].session))
    /\ Served(CallOf(t))
    /\ task' = [task EXCEPT ![t].answer = "answered",
                            ![t].reply = SessionData(server', task[t].session),
                            ![t].content = file']
    /\ UNCHANGED <<page, off, orphan, starts, faults, settled>>

\* The server refuses the call, cannot be reached, or fails at the call with or without
\* a change kept.
Refuse(t) ==
    /\ Busy(t) /\ task[t].answer = "awaited"
    /\ IF Accepts(Doing(t), SessionData(server, task[t].session))
       THEN /\ faults < MaxFaults /\ faults' = faults + 1
            /\ Served(CallOf(t)) \/ UNCHANGED <<server, file>>
       ELSE UNCHANGED <<faults, server, file>>
    /\ task' = [task EXCEPT ![t].answer = "failed"]
    /\ UNCHANGED <<page, off, orphan, starts, settled>>

\* No answer in time: the server has still to get to the call.
TimeOut(t) ==
    /\ Busy(t) /\ task[t].answer = "awaited"
    /\ faults < MaxFaults /\ faults' = faults + 1
    /\ orphan' = orphan \cup {CallOf(t)}
    /\ task' = [task EXCEPT ![t].answer = "failed", ![t].alone = FALSE]
    /\ UNCHANGED <<server, file, page, off, starts, settled>>

ServeLate ==
    \E call \in orphan :
        /\ IF Accepts(call.what, SessionData(server, call.session))
           THEN Served(call) ELSE UNCHANGED <<server, file>>
        /\ orphan' = orphan \ {call}
        /\ task' = [t \in Slots |-> [task[t] EXCEPT !.alone = FALSE]]
        /\ settled' = {}
        /\ UNCHANGED <<page, off, starts, faults>>

-----------------------------------------------------------------------------
(* The event loop resumes a handler with the outcome of its call *)

\* MUTANT: the early return of a training whose preparation fails skips the buttons.
UnlockedUnlessUnprepared(run, succeeded) ==
    IF ~succeeded /\ run.handler = "train" /\ run.calls[1] # "iterate"
    THEN off ELSE off \ Locks(run.handler)

\* How a handler ends: its buttons come back.
Unlocked(run, succeeded) == off \ Locks(run.handler)

End(t, succeeded, fresh) ==
    /\ task' = [task EXCEPT ![t] = Idle]
    /\ off' = Unlocked(task[t], succeeded)
    /\ settled' = IF succeeded /\ fresh /\ task[t].alone
                  THEN settled \cup Refreshes(task[t].handler) ELSE settled

\* The selected session has changed: what a training has found no longer holds for it.
Unsteady(tasks, session) ==
    [u \in Slots |-> [tasks[u] EXCEPT !.steady = @ /\ session = page.session]]

Continue(t, run, rest, session) ==
    /\ task' = Unsteady([task EXCEPT ![t] = Sent(run, rest, session)], session)
    /\ UNCHANGED <<off, settled>>

\* state.session_id is assigned from the answers to these calls.
Selects(what) == what \in {"create", "read"}

\* MUTANT: loading a session selects it and goes on showing the snapshot before.
DisplaysUnlessLoaded(h, what, rest) ==
    CASE what \in NoSnapshotCalls \cup {"read"} -> FALSE
      [] what \in Prerequisites(h) -> rest = <<>> \/ rest[1] \notin Prerequisites(h)
      [] GroupOf[h] = "intelligence" -> rest = <<>>
      [] OTHER -> TRUE

\* Whether state.snapshot is assigned once a call is done: not before the last of the
\* prerequisites, nor before the last of the market data.
Displays(h, what, rest) ==
    CASE what \in NoSnapshotCalls -> FALSE
      [] what \in Prerequisites(h) -> rest = <<>> \/ rest[1] \notin Prerequisites(h)
      [] GroupOf[h] = "intelligence" -> rest = <<>>
      [] OTHER -> TRUE

Resume(t) ==
    LET run == task[t]
        what == Doing(t)
        session == IF Selects(what) THEN run.session ELSE page.session
        local == CASE what \in NoSnapshotCalls -> run.local
                   [] what = "search" -> page.snapshot
                   [] OTHER -> [of |-> run.session, data |-> run.reply]
        rest == Remaining(run.handler, Tail(run.calls), local.data, session)
    IN  /\ Busy(t) /\ run.answer = "answered"
        /\ page' = [page EXCEPT
               !.session = session,
               !.snapshot = IF Displays(run.handler, what, rest) THEN local ELSE @,
               !.editor = IF what \in {"read_config", "write_config"} THEN run.content ELSE @]
        /\ IF rest = <<>>
           THEN End(t, TRUE, what # "search")
           ELSE Continue(t, [run EXCEPT !.local = local], rest, session)
        /\ UNCHANGED <<server, file, orphan, starts, faults>>

\* MUTANT: a profile is tried until it succeeds.
SurvivesAlways(run) ==
    \/ run.calls[1] \in MarketData \cup {"health_or_not"}
    \/ run.calls[1] = "complete" /\ run.handler \in {"create", "train"}

\* MUTANT: a profile that fails is left out.
AfterFailureOnward(calls) ==
    IF calls[1] \in MarketData
    THEN LET last == Min({i \in DOMAIN calls : calls[i] = "options"})
         IN  SubSeq(calls, last + 1, Len(calls))
    ELSE Tail(calls)

\* The failures a handler survives, with the calls it then goes on with: the rest of a
\* symbol's market data is skipped, a profile is tried three times.
Survives(run) ==
    \/ run.calls[1] \in MarketData \cup {"health_or_not"}
    \/ run.calls[1] = "complete" /\ run.handler \in {"create", "train"} /\ run.tries < 2

AfterFailure(calls) ==
    CASE calls[1] \in MarketData ->
             LET last == Min({i \in DOMAIN calls : calls[i] = "options"})
             IN  SubSeq(calls, last + 1, Len(calls))
      [] calls[1] = "complete" -> calls
      [] OTHER -> Tail(calls)

Recover(t) ==
    LET run == task[t]
        rest == AfterFailure(run.calls)
    IN  /\ Busy(t) /\ run.answer = "failed" /\ Survives(run)
        /\ page' = IF rest = <<>> /\ GroupOf[run.handler] = "intelligence"
                   THEN [page EXCEPT !.snapshot = run.local] ELSE page
        /\ IF rest = <<>>
           THEN End(t, TRUE, run.calls[1] = "health_or_not")
           ELSE Continue(t, [run EXCEPT !.tries = Min({@ + 1, 2})], rest, page.session)
        /\ UNCHANGED <<server, file, orphan, starts, faults>>

GiveUp(t) ==
    /\ Busy(t) /\ task[t].answer = "failed" /\ ~Survives(task[t])
    /\ End(t, FALSE, FALSE)
    /\ UNCHANGED <<server, file, page, orphan, starts, faults>>

-----------------------------------------------------------------------------
(* A page just opened, or one that earlier handlers have left with a session; the timer *)
(* of load_config_state has filled the editor.                                        *)
Init ==
    /\ \E data \in Earlier :
           /\ server = [s \in Sessions |-> IF s = Old THEN data ELSE Absent]
           /\ page \in {[session |-> NoSession, snapshot |-> NoSnapshot,
                         opened |-> FALSE, editor |-> 1],
                        [session |-> Old, snapshot |-> [of |-> Old, data |-> data],
                         opened |-> TRUE, editor |-> 1]}
    /\ file = 1
    /\ off = {}
    /\ task = [t \in Slots |-> Idle]
    /\ orphan = {}
    /\ starts = 0 /\ faults = 0
    /\ settled = {"session", "config"}

Next ==
    \/ \E t \in Slots :
           \/ \E h \in Handlers : Begin(t, h)
           \/ \E h \in {"save_config", "test_config"} : BeginEdited(t, h)
           \/ Bootstrap(t)
           \/ Answer(t) \/ Refuse(t) \/ TimeOut(t)
           \/ Resume(t) \/ Recover(t) \/ GiveUp(t)
    \/ ServeLate

\* Every call is answered, refused or given up after its timeout of 120 seconds, and
\* the event loop resumes every handler whose call is over.
Fairness ==
    \A t \in Slots :
        /\ WF_vars(Answer(t) \/ Refuse(t) \/ TimeOut(t))
        /\ WF_vars(Resume(t) \/ Recover(t) \/ GiveUp(t))

Spec == Init /\ [][Next]_vars /\ Fairness

-----------------------------------------------------------------------------
(* Properties *)

\* The page, the handlers in flight and the server's sessions have the shapes above, and
\* no call about a session is made while none is selected (the guards of the handlers).
TypeOK ==
    /\ server \in [Sessions -> Data]
    /\ file \in Nat
    /\ page \in [session : Sessions \cup {NoSession}, snapshot : Snapshot,
                 opened : BOOLEAN, editor : Nat]
    /\ off \subseteq Groups
    /\ \A t \in Slots :
           /\ task[t].handler \in Handlers \cup {"none"}
           /\ Busy(t) <=> task[t].answer # "none"
           /\ Busy(t) => task[t].calls # <<>>
           /\ task[t].session \in Sessions \cup {NoSession}
           /\ Busy(t) /\ Doing(t) \notin ConfigCallNames => task[t].session \in Sessions
           /\ task[t].local \in Snapshot /\ task[t].reply \in Data
    /\ starts \in 0..MaxStarts /\ faults \in 0..MaxFaults
    /\ settled \subseteq {"session", "config"}

\* After a handler that ran alone and succeeded the page shows the selected session as
\* the server has it, and the editor holds the configuration file, whatever calls the
\* handler made on the way, retried or skipped.  A search whose answer no market data
\* followed is not such a handler: the page goes on showing what it showed before.
ShownIsSaved ==
    /\ "session" \in settled /\ page.session # NoSession =>
           page.snapshot = [of |-> page.session, data |-> server[page.session]]
    /\ "config" \in settled => page.editor = file

\* A training asks for an iteration only of a session that has a universe and a
\* behavioural report, as long as no other handler selects another session under it:
\* whatever the page had on display, whichever call failed or came late.
TrainingIsPrepared ==
    \A t \in Slots :
        Busy(t) /\ Doing(t) = "iterate" /\ task[t].answer = "awaited" /\ task[t].steady =>
            LET data == server[task[t].session] IN data.universe /\ data.report

\* Every disabled group is held by a handler in flight: no way out of a handler (early
\* returns, exceptions, finally clauses) leaves its buttons disabled for good.  What a
\* training reads from its form outside its try block are the values of number fields,
\* numbers or none, which convert without an exception.
ButtonsAreHeld == off \subseteq UNION {Locks(task[t].handler) : t \in {u \in Slots : Busy(u)}}

\* A bound on the steps left to a handler: each of its calls is sent and resumed, at most
\* two failures repeat a call, and a profile still counts for its events.
CallsLeft(calls) ==
    Len(calls) + (IF \E i \in DOMAIN calls : calls[i] = "profile" THEN BootEvents ELSE 0)
StepsLeft(t) ==
    IF ~Busy(t) THEN 0
    ELSE 2 * (CallsLeft(task[t].calls) + 2 - task[t].tries)
         + (IF task[t].answer = "awaited" THEN 1 ELSE 0)

\* Every step of a handler uses up one of the steps that its calls and tries allow, whatever
\* the server answers, however late, and whatever other handlers do to the page meanwhile.
HandlersGetNearer ==
    [][\A t \in Slots :
           Answer(t) \/ Refuse(t) \/ TimeOut(t) \/ Resume(t) \/ Recover(t) \/ GiveUp(t)
           => StepsLeft(t)' \in 0 .. (StepsLeft(t) - 1)]_vars

\* Every handler ends, and with it the wait of its user: the calls it makes are
\* finitely many, retries included, and each is over in time.
HandlersEnd == \A t \in Slots : Busy(t) ~> ~Busy(t)

\* The button that creates a session leaves it ready for training when the server
\* answers every call (docs/ui-page-function-report.md: it fills in the prerequisites).
CreationPrepares ==
    [][\A t \in Slots :
           /\ task[t].handler = "create" /\ task'[t].handler = "none"
           /\ faults = 0 /\ task[t].alone
           => page'.snapshot.data.universe /\ page'.snapshot.data.report]_vars

=============================================================================
