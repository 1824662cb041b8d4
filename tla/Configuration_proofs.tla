------------------------ MODULE Configuration_proofs ------------------------
(***************************************************************************)
(* Proofs about Configuration for one request at a time, whatever the      *)
(* providers, the number of saves, the failures and the crashes: every     *)
(* configuration the file has held can be put back, and a save is answered *)
(* with the validation of what it saved.                                   *)
(***************************************************************************)
EXTENDS Configuration, TLAPS

\* The page sends one request and waits for its answer.
OneAtATime == \A t, u \in Threads : t = u

-----------------------------------------------------------------------------
(* The inductive invariant *)

Fields == {"at", "op", "provider", "payload", "read", "answer"}

\* A request has its fields.
Formed ==
    /\ DOMAIN thread = Threads
    /\ \A t \in Threads : Fields \subseteq DOMAIN thread[t]

\* From the backup to the rewrite what was ever held is backed up; at any
\* other time it is backed up or is the file.
BackedUp(th) ==
    /\ held \subseteq backups \cup {file}
    /\ th.at \in {"open", "write"} => held \subseteq backups

\* From the rewrite to the answer the file is what was sent, and settings are
\* only remembered of it.
Served(th) ==
    /\ th.at = "clear" => file = th.payload
    /\ th.at = "load" /\ th.payload # Nothing => file = th.payload /\ cached = Nothing
    /\ th.at = "remember" => cached = Nothing /\ th.read = file
    /\ th.at = "remember" /\ th.payload # Nothing => file = th.payload
    /\ th.at = "answered" /\ th.payload # Nothing /\ th.answer # "refused"
           => th.answer = Report(th, th.payload) /\ cached = th.payload

SaveInvariant ==
    /\ Formed
    /\ \A t \in Threads : BackedUp(thread[t]) /\ Served(thread[t])
    /\ up \/ \A t \in Threads : thread[t] = Idle

LEMMA InitSaves == Init => SaveInvariant
  BY DEF Init, SaveInvariant, Formed, Fields, BackedUp, Served, Idle

-----------------------------------------------------------------------------
(* The steps *)

\* What a thread becomes is what it then is.
LEMMA BecomeForms ==
    ASSUME Formed, NEW t \in Threads, NEW th, Fields \subseteq DOMAIN th, Become(t, th)
    PROVE  Formed' /\ thread'[t] = th
  BY DEF Formed, Become

\* Moving on keeps what was asked for.
LEMMA GoForms ==
    ASSUME Formed, NEW t \in Threads, NEW place, Go(t, place)
    PROVE  /\ Formed'
           /\ thread'[t].at = place
           /\ thread'[t].payload = thread[t].payload
  <1> DEFINE th == [thread[t] EXCEPT !.at = place]
  <1>1. Fields \subseteq DOMAIN th
    BY DEF Formed
  <1>2. th.at = place /\ th.payload = thread[t].payload
    BY DEF Formed, Fields
  <1>3. Become(t, th)
    BY DEF Go
  <1> HIDE DEF th
  <1> QED BY <1>1, <1>2, <1>3, BecomeForms

\* So does answering, and what is reported depends on nothing else.
LEMMA AnswerForms ==
    ASSUME Formed, NEW t \in Threads, NEW status, Answer(t, status)
    PROVE  /\ Formed'
           /\ thread'[t].at = "answered"
           /\ thread'[t].answer = status
           /\ thread'[t].payload = thread[t].payload
           /\ \A c : Report(thread'[t], c) = Report(thread[t], c)
  <1> DEFINE th == [thread[t] EXCEPT !.at = "answered", !.answer = status]
  <1>1. Fields \subseteq DOMAIN th
    BY DEF Formed
  <1>2. /\ th.at = "answered" /\ th.answer = status
        /\ th.payload = thread[t].payload
        /\ th.op = thread[t].op /\ th.provider = thread[t].provider
    BY DEF Formed, Fields
  <1>3. Become(t, th)
    BY DEF Answer
  <1> HIDE DEF th
  <1>4. Formed' /\ thread'[t] = th
    BY <1>1, <1>3, BecomeForms
  <1> QED BY <1>2, <1>4 DEF Report

\* A request begins with its fields.
LEMMA BeginForms ==
    ASSUME Formed, NEW t \in Threads, NEW th, Fields \subseteq DOMAIN th,
           th.at \in {"backup", "load"}, th.at = "load" => th.payload = Nothing, Become(t, th)
    PROVE  /\ Formed'
           /\ thread'[t].at \in {"backup", "load"}
           /\ thread'[t].at = "load" => thread'[t].payload = Nothing
  BY BecomeForms

\* With one thread, its own state is all there is to preserve.
LEMMA AloneKeepsSaves ==
    ASSUME OneAtATime, NEW t \in Threads, Formed', BackedUp(thread[t])', Served(thread[t])',
           Step(t)
    PROVE  SaveInvariant'
  <1>1. up' = up
    BY DEF Step, Look, Post, UpdateProvider, DeleteProvider, Refuse, Backup, BackupFails,
           Open, Write, WriteFails, Clear, Load, Remember, Return
  <1>2. \E place : At(t, place)
    BY DEF Step, Look, Post, UpdateProvider, DeleteProvider, Refuse, Backup, BackupFails,
           Open, Write, WriteFails, Clear, Load, Remember, Return
  <1>3. up
    BY <1>2, Zenon DEF At
  <1> QED BY <1>1, <1>3 DEF OneAtATime, SaveInvariant

\* Requests that begin, and those that look or are refused at once.
LEMMA BeginKeepsSaves ==
    ASSUME OneAtATime, SaveInvariant, NEW t \in Threads,
           Look(t) \/ Post(t) \/ UpdateProvider(t) \/ DeleteProvider(t)
    PROVE  SaveInvariant'
  <1>1. UNCHANGED <<file, backups, cached, held>>
    BY DEF Look, Post, UpdateProvider, DeleteProvider
  <1>2. Formed /\ BackedUp(thread[t])
    BY DEF SaveInvariant
  <1>3. CASE Answer(t, "refused")
    BY <1>1, <1>2, <1>3, AnswerForms, AloneKeepsSaves DEF BackedUp, Served, Step
  <1>4. CASE \E th : /\ Fields \subseteq DOMAIN th
                     /\ th.at \in {"backup", "load"}
                     /\ th.at = "load" => th.payload = Nothing
                     /\ Become(t, th)
    <2>1. /\ Formed'
          /\ thread'[t].at \in {"backup", "load"}
          /\ thread'[t].at = "load" => thread'[t].payload = Nothing
      BY <1>2, <1>4, BeginForms
    <2> QED BY <1>1, <1>2, <2>1, AloneKeepsSaves DEF BackedUp, Served, Step
  <1>5. CASE Look(t)
    BY <1>3, <1>4, <1>5 DEF Look, Idle, Fields
  <1>6. CASE Post(t)
    BY <1>4, <1>6 DEF Post, Idle, Fields
  <1>7. CASE UpdateProvider(t)
    BY <1>4, <1>7 DEF UpdateProvider, Idle, Fields
  <1>8. CASE DeleteProvider(t)
    BY <1>4, <1>8 DEF DeleteProvider, Idle, Fields
  <1> QED BY <1>5, <1>6, <1>7, <1>8

\* A request refused, before its save or in it.
LEMMA RefusedKeepsSaves ==
    ASSUME OneAtATime, SaveInvariant, NEW t \in Threads,
           Refuse(t) \/ BackupFails(t) \/ WriteFails(t)
    PROVE  SaveInvariant'
  <1>1. Answer(t, "refused") /\ UNCHANGED <<file, backups, cached, held>>
    BY DEF Refuse, BackupFails, WriteFails
  <1>2. Formed /\ BackedUp(thread[t])
    BY DEF SaveInvariant
  <1> QED BY <1>1, <1>2, AnswerForms, AloneKeepsSaves DEF BackedUp, Served, Step

LEMMA BackupKeepsSaves ==
    ASSUME OneAtATime, SaveInvariant, NEW t \in Threads, Backup(t)
    PROVE  SaveInvariant'
  <1>1. backups' = backups \cup {file} /\ UNCHANGED <<file, cached, held>>
    BY DEF Backup
  <1>2. Formed /\ BackedUp(thread[t])
    BY DEF SaveInvariant
  <1>3. CASE Answer(t, "refused")
    BY <1>1, <1>2, <1>3, AnswerForms, AloneKeepsSaves DEF BackedUp, Served, Step
  <1>4. CASE Go(t, "open")
    BY <1>1, <1>2, <1>4, GoForms, AloneKeepsSaves DEF BackedUp, Served, Step
  <1> QED BY <1>3, <1>4 DEF Backup

LEMMA RewriteKeepsSaves ==
    ASSUME OneAtATime, SaveInvariant, NEW t \in Threads, Open(t) \/ Write(t) \/ Clear(t)
    PROVE  SaveInvariant'
  <1>1. Formed /\ BackedUp(thread[t]) /\ Served(thread[t])
    BY DEF SaveInvariant
  <1>2. CASE Open(t)
    <2>1. held \subseteq backups /\ UNCHANGED <<backups, held>> /\ Go(t, "write")
      BY <1>1, <1>2 DEF Open, At, BackedUp
    <2> QED BY <1>1, <2>1, GoForms, AloneKeepsSaves DEF BackedUp, Served, Step
  <1>3. CASE Write(t)
    <2>1. /\ held \subseteq backups /\ held' = held \cup {file'}
          /\ file' = thread[t].payload /\ UNCHANGED backups /\ Go(t, "clear")
      BY <1>1, <1>3 DEF Write, At, BackedUp
    <2> QED BY <1>1, <2>1, GoForms, AloneKeepsSaves DEF BackedUp, Served, Step
  <1>4. CASE Clear(t)
    <2>1. /\ file = thread[t].payload /\ cached' = Nothing
          /\ UNCHANGED <<file, backups, held>> /\ Go(t, "load")
      BY <1>1, <1>4 DEF Clear, At, Served
    <2> QED BY <1>1, <2>1, GoForms, AloneKeepsSaves DEF BackedUp, Served, Step
  <1> QED BY <1>2, <1>3, <1>4

LEMMA ValidateKeepsSaves ==
    ASSUME OneAtATime, SaveInvariant, NEW t \in Threads, Load(t) \/ Remember(t)
    PROVE  SaveInvariant'
  <1>1. Formed /\ BackedUp(thread[t]) /\ Served(thread[t])
    BY DEF SaveInvariant
  <1>2. CASE Load(t)
    <2>1. At(t, "load") /\ UNCHANGED <<file, backups, cached, held>>
      BY <1>2 DEF Load
    <2>2. CASE cached # Nothing /\ Answer(t, Report(thread[t], cached))
      <3>1. thread[t].payload = Nothing
        BY <1>1, <2>1, <2>2 DEF At, Served
      <3> QED BY <1>1, <2>1, <2>2, <3>1, AnswerForms, AloneKeepsSaves DEF BackedUp, Served, Step
    <2>3. CASE Answer(t, "refused")
      BY <1>1, <2>1, <2>3, AnswerForms, AloneKeepsSaves DEF BackedUp, Served, Step
    <2>4. CASE cached = Nothing /\ Become(t, [thread[t] EXCEPT !.at = "remember", !.read = file])
      <3> DEFINE th == [thread[t] EXCEPT !.at = "remember", !.read = file]
      <3>1. /\ Fields \subseteq DOMAIN th
            /\ th.at = "remember" /\ th.read = file /\ th.payload = thread[t].payload
        BY <1>1 DEF Formed, Fields
      <3>2. Become(t, th)
        BY <2>4
      <3> HIDE DEF th
      <3>3. Formed' /\ thread'[t] = th
        BY <1>1, <3>1, <3>2, BecomeForms
      <3>4. th.payload # Nothing => file = th.payload
        BY <1>1, <2>1, <3>1 DEF At, Served
      <3> QED BY <1>1, <2>1, <2>4, <3>1, <3>3, <3>4, AloneKeepsSaves DEF BackedUp, Served, Step
    <2> QED BY <1>2, <2>2, <2>3, <2>4 DEF Load
  <1>3. CASE Remember(t)
    <2>1. /\ cached' = file /\ Answer(t, Report(thread[t], file))
          /\ thread[t].payload # Nothing => file = thread[t].payload
          /\ UNCHANGED <<file, backups, held>>
      BY <1>1, <1>3 DEF Remember, At, Served
    <2> QED BY <1>1, <2>1, AnswerForms, AloneKeepsSaves DEF BackedUp, Served, Step
  <1> QED BY <1>2, <1>3

\* Reading an answer, a crash, a start and a restored backup leave no request.
LEMMA RestKeepsSaves ==
    ASSUME OneAtATime, SaveInvariant,
           Crash \/ Start \/ PutBackupInPlace \/ \E t \in Threads : Return(t)
    PROVE  SaveInvariant'
  <1>1. CASE Crash
    BY <1>1 DEF Crash, SaveInvariant, Formed, Fields, BackedUp, Served, Idle
  <1>2. CASE Start
    BY <1>2 DEF Start, SaveInvariant, Formed, Fields, BackedUp, Served, Idle
  <1>3. CASE PutBackupInPlace
    BY <1>3 DEF PutBackupInPlace, SaveInvariant, Formed, Fields, BackedUp, Served, Idle
  <1>4. ASSUME NEW t \in Threads, Return(t) PROVE SaveInvariant'
    <2>1. Fields \subseteq DOMAIN Idle /\ Idle.at = "idle"
      BY DEF Fields, Idle
    <2>2. Formed' /\ thread'[t] = Idle
      BY <1>4, <2>1, BecomeForms DEF Return, SaveInvariant
    <2>3. BackedUp(thread[t]) /\ UNCHANGED <<file, backups, held>>
      BY <1>4 DEF Return, SaveInvariant
    <2> QED BY <1>4, <2>1, <2>2, <2>3, AloneKeepsSaves DEF BackedUp, Served, Step
  <1> QED BY <1>1, <1>2, <1>3, <1>4

-----------------------------------------------------------------------------
(* Types, for any number of requests at a time *)

\* What a request is about to write is a configuration that can be rendered, and what it
\* is about to remember is one that loads.
Shaped(th) ==
    /\ Fields \subseteq DOMAIN th
    /\ th.at \in Places
    /\ th.at \in {"backup", "open", "write"} => th.payload \in Configurations
    /\ th.at \in {"open", "write"} => th.payload.kind # "unwritable"
    /\ th.at = "remember" => th.read \in Configurations /\ th.read.kind = "good"

TypesInvariant ==
    /\ file \in Configurations /\ file.kind # "unwritable"
    /\ backups \subseteq Configurations
    /\ held \subseteq Configurations
    /\ cached = Nothing \/ (cached \in Configurations /\ cached.kind = "good")
    /\ up \in BOOLEAN
    /\ sent \in 0 .. MaxWrites
    /\ DOMAIN thread = Threads
    /\ \A t \in Threads : Shaped(thread[t])

LEMMA ConfigurationIs ==
    ASSUME NEW kind \in Kinds \cup {"empty"}, NEW rest \in Statuses, NEW v \in 0 .. MaxWrites,
           NEW defined \in SUBSET Providers, NEW enabled \in SUBSET Providers,
           NEW finds \in [Providers -> Statuses], NEW default \in Providers \cup {NoProvider}
    PROVE  /\ [kind |-> kind, rest |-> rest, version |-> v, defined |-> defined,
               enabled |-> enabled, finds |-> finds, default |-> default] \in Configurations
           /\ [kind |-> kind, rest |-> rest, version |-> v, defined |-> defined,
               enabled |-> enabled, finds |-> finds, default |-> default].kind = kind
  BY DEF Configurations

LEMMA UnfoundIs == Unfound \in [Providers -> Statuses]
  BY DEF Unfound, Statuses

LEMMA EmptyIs == Empty \in Configurations /\ Empty.kind = "empty"
  <1>1. /\ "empty" \in Kinds \cup {"empty"} /\ "ok" \in Statuses /\ 0 \in 0 .. MaxWrites
        /\ {} \in SUBSET Providers /\ NoProvider \in Providers \cup {NoProvider}
    BY ConfigurationAssumption DEF Statuses
  <1> QED BY <1>1, UnfoundIs, ConfigurationIs DEF Empty

LEMMA MadeIs ==
    ASSUME sent \in 0 .. MaxWrites, sent < MaxWrites, NEW kind \in Kinds, NEW rest \in Statuses,
           NEW defined \in SUBSET Providers, NEW enabled \in SUBSET Providers,
           NEW finds \in [Providers -> Statuses], NEW default \in Providers \cup {NoProvider}
    PROVE  Made(kind, rest, defined, enabled, finds, default) \in Configurations
  <1>1. sent + 1 \in 0 .. MaxWrites
    BY ConfigurationAssumption
  <1> QED BY <1>1, ConfigurationIs DEF Made

\* A change leaves a file of a kind there is.
LEMMA ChangedIs ==
    ASSUME NEW kind \in Kinds \cup {"empty"}
    PROVE  Changed(kind) \subseteq Kinds
  BY DEF Changed, Kinds

LEMMA InitTypes == Init => TypesInvariant
  <1> SUFFICES ASSUME Init PROVE TypesInvariant
    OBVIOUS
  <1>1. PICK p \in Providers :
            file = [kind |-> "good", rest |-> "ok", version |-> 0, defined |-> {p},
                    enabled |-> {p}, finds |-> Unfound, default |-> p]
    BY DEF Init
  <1>2. file \in Configurations /\ file.kind = "good"
    <2>1. /\ "good" \in Kinds \cup {"empty"} /\ "ok" \in Statuses /\ 0 \in 0 .. MaxWrites
          /\ {p} \in SUBSET Providers /\ p \in Providers \cup {NoProvider}
      BY ConfigurationAssumption DEF Kinds, Statuses
    <2> QED BY <1>1, <2>1, UnfoundIs, ConfigurationIs
  <1>3. \A t \in Threads : Shaped(thread[t])
    BY DEF Init, Shaped, Fields, Places, Idle
  <1> QED BY <1>2, <1>3, ConfigurationAssumption DEF Init, TypesInvariant

\* A request moves to a place, with what it is about.
LEMMA ThreadKeepsTypes ==
    ASSUME NEW t \in Threads, DOMAIN thread = Threads, \A u \in Threads : Shaped(thread[u]),
           NEW th, Become(t, th), Shaped(th)
    PROVE  DOMAIN thread' = Threads /\ \A u \in Threads : Shaped(thread'[u])
  BY DEF Become

LEMMA GoKeepsTypes ==
    ASSUME NEW t \in Threads, DOMAIN thread = Threads, \A u \in Threads : Shaped(thread[u]),
           NEW place \in Places, Go(t, place), place # "remember",
           place \in {"backup", "open", "write"} => thread[t].payload \in Configurations,
           place \in {"open", "write"} => thread[t].payload.kind # "unwritable"
    PROVE  DOMAIN thread' = Threads /\ \A u \in Threads : Shaped(thread'[u])
  <1> DEFINE th == [thread[t] EXCEPT !.at = place]
  <1>1. /\ Fields \subseteq DOMAIN th /\ th.at = place /\ th.payload = thread[t].payload
        /\ th.read = thread[t].read
    BY DEF Shaped, Fields
  <1>2. Become(t, th)
    BY DEF Go
  <1> HIDE DEF th
  <1>3. Shaped(th)
    BY <1>1 DEF Shaped
  <1> QED BY <1>2, <1>3, ThreadKeepsTypes

LEMMA AnswerKeepsTypes ==
    ASSUME NEW t \in Threads, DOMAIN thread = Threads, \A u \in Threads : Shaped(thread[u]),
           NEW status, Answer(t, status)
    PROVE  DOMAIN thread' = Threads /\ \A u \in Threads : Shaped(thread'[u])
  <1> DEFINE th == [thread[t] EXCEPT !.at = "answered", !.answer = status]
  <1>1. Fields \subseteq DOMAIN th /\ th.at = "answered"
    BY DEF Shaped, Fields
  <1>2. Become(t, th)
    BY DEF Answer
  <1> HIDE DEF th
  <1>3. Shaped(th)
    BY <1>1 DEF Shaped, Places
  <1> QED BY <1>2, <1>3, ThreadKeepsTypes

\* A request that will save begins with a configuration.
LEMMA SaveBeginsTyped ==
    ASSUME NEW t \in Threads, DOMAIN thread = Threads, \A u \in Threads : Shaped(thread[u]),
           NEW op, NEW p, NEW payload \in Configurations,
           Become(t, [Idle EXCEPT !.at = "backup", !.op = op, !.provider = p, !.payload = payload])
    PROVE  DOMAIN thread' = Threads /\ \A u \in Threads : Shaped(thread'[u])
  <1> DEFINE th == [Idle EXCEPT !.at = "backup", !.op = op, !.provider = p, !.payload = payload]
  <1>1. Fields \subseteq DOMAIN th /\ th.at = "backup" /\ th.payload = payload
    BY DEF Idle, Fields
  <1> HIDE DEF th
  <1>2. Shaped(th)
    BY <1>1 DEF Shaped, Places
  <1>3. Become(t, th)
    BY DEF th
  <1> QED BY <1>2, <1>3, ThreadKeepsTypes

LEMMA BeginKeepsTypes ==
    ASSUME TypesInvariant, NEW t \in Threads,
           Look(t) \/ Post(t) \/ UpdateProvider(t) \/ DeleteProvider(t) \/ Refuse(t)
    PROVE  TypesInvariant'
  <1>0. DOMAIN thread = Threads /\ \A u \in Threads : Shaped(thread[u])
    BY DEF TypesInvariant
  <1>1. UNCHANGED <<file, backups, cached, up, held>>
    BY DEF Look, Post, UpdateProvider, DeleteProvider, Refuse
  <1>2. sent \in 0 .. MaxWrites /\ file \in Configurations /\ file.kind # "unwritable"
    BY DEF TypesInvariant
  <1>3. /\ file.rest \in Statuses /\ file.defined \in SUBSET Providers
        /\ file.enabled \in SUBSET Providers /\ file.default \in Providers \cup {NoProvider}
        /\ file.kind \in Kinds \cup {"empty"} /\ file.finds \in [Providers -> Statuses]
    BY <1>2 DEF Configurations
  <1>4. ASSUME sent' \in 0 .. MaxWrites, DOMAIN thread' = Threads,
               \A u \in Threads : Shaped(thread'[u])
        PROVE  TypesInvariant'
    BY <1>1, <1>4 DEF TypesInvariant, Shaped
  <1>5. sent < MaxWrites /\ sent' = sent + 1 => sent' \in 0 .. MaxWrites
    BY <1>2, ConfigurationAssumption
  <1>6. CASE Look(t) \/ Refuse(t)
    <2>1. sent' = sent
      BY <1>6 DEF Look, Refuse
    <2>2. CASE Answer(t, "refused")
      BY <1>0, <1>2, <1>4, <2>1, <2>2, AnswerKeepsTypes
    <2>3. CASE Become(t, [Idle EXCEPT !.at = "load", !.op = "look"])
      <3> DEFINE th == [Idle EXCEPT !.at = "load", !.op = "look"]
      <3>1. Shaped(th)
        BY DEF Shaped, Fields, Places, Idle
      <3> HIDE DEF th
      <3>2. Become(t, th)
        BY <2>3 DEF th
      <3> QED BY <1>0, <1>2, <1>4, <2>1, <3>1, <3>2, ThreadKeepsTypes
    <2> QED BY <1>6, <2>2, <2>3 DEF Look, Refuse
  <1>7. CASE Post(t)
    <2>1. sent < MaxWrites /\ sent' = sent + 1
      BY <1>7 DEF Post
    <2>2. PICK kind \in Kinds, rest \in {"ok", "error"}, op \in {"post", "item"}, p \in Providers :
              \E defined \in SUBSET Providers, finds \in [Providers -> Statuses] : \E default \in defined :
                  Become(t, [Idle EXCEPT !.at = "backup", !.op = op, !.provider = p,
                                 !.payload = Made(kind, rest, defined, defined, finds, default)])
      BY <1>7 DEF Post
    <2>3. PICK defined \in SUBSET Providers, finds \in [Providers -> Statuses] : \E default \in defined :
              Become(t, [Idle EXCEPT !.at = "backup", !.op = op, !.provider = p,
                             !.payload = Made(kind, rest, defined, defined, finds, default)])
      BY <2>2
    <2>4. PICK default \in defined :
              Become(t, [Idle EXCEPT !.at = "backup", !.op = op, !.provider = p,
                             !.payload = Made(kind, rest, defined, defined, finds, default)])
      BY <2>3
    <2>5. Made(kind, rest, defined, defined, finds, default) \in Configurations
      BY <1>2, <2>1, <2>4, MadeIs DEF Statuses
    <2> QED BY <1>0, <1>4, <1>5, <2>1, <2>4, <2>5, SaveBeginsTyped
  <1>8. CASE UpdateProvider(t)
    <2>1. sent < MaxWrites /\ sent' = sent + 1
      BY <1>8 DEF UpdateProvider
    <2>2. PICK p \in Providers, enable \in BOOLEAN, asDefault \in BOOLEAN,
               kind \in Changed(file.kind) \cup {"broken"}, found \in Statuses :
              Become(t, [Idle EXCEPT !.at = "backup", !.op = "update", !.provider = p,
                  !.payload = Made(kind, file.rest, file.defined \cup {p},
                            IF enable THEN file.enabled \cup {p} ELSE file.enabled \ {p},
                            [file.finds EXCEPT ![p] = found],
                            IF asDefault THEN p ELSE file.default)])
      BY <1>8 DEF UpdateProvider
    <2> DEFINE enabled == IF enable THEN file.enabled \cup {p} ELSE file.enabled \ {p}
               finds == [file.finds EXCEPT ![p] = found]
               default == IF asDefault THEN p ELSE file.default
    <2>3. /\ kind \in Kinds /\ file.defined \cup {p} \in SUBSET Providers
          /\ enabled \in SUBSET Providers /\ finds \in [Providers -> Statuses]
          /\ default \in Providers \cup {NoProvider}
      <3>1. kind \in Kinds
        BY <1>3, ChangedIs DEF Kinds
      <3> QED BY <1>3, <3>1
    <2> HIDE DEF enabled, finds, default
    <2>4. Made(kind, file.rest, file.defined \cup {p}, enabled, finds, default)
              \in Configurations
      BY <1>2, <1>3, <2>1, <2>3, MadeIs
    <2> QED BY <1>0, <1>4, <1>5, <2>1, <2>2, <2>4, SaveBeginsTyped DEF enabled, finds, default
  <1>9. CASE DeleteProvider(t)
    <2>1. sent < MaxWrites /\ sent' = sent + 1
      BY <1>9 DEF DeleteProvider
    <2> DEFINE Begun(p, kind, default) ==
                   [Idle EXCEPT !.at = "backup", !.op = "delete", !.provider = p,
                       !.payload = Made(kind, file.rest, file.defined \ {p}, file.enabled \ {p},
                                        [file.finds EXCEPT ![p] = "ok"], default)]
    <2>0. PICK p \in file.defined, kind \in Changed(file.kind) :
              \E default \in DefaultsWithout(p, file.enabled \ {p}) : Become(t, Begun(p, kind, default))
      BY <1>9 DEF DeleteProvider
    <2>2. PICK default \in DefaultsWithout(p, file.enabled \ {p}) : Become(t, Begun(p, kind, default))
      BY <2>0
    <2>3. /\ kind \in Kinds /\ file.defined \ {p} \in SUBSET Providers
          /\ file.enabled \ {p} \in SUBSET Providers
          /\ [file.finds EXCEPT ![p] = "ok"] \in [Providers -> Statuses]
          /\ default \in Providers \cup {NoProvider}
      <3>1. kind \in Kinds
        BY <1>3, ChangedIs
      <3>2. default \in Providers \cup {NoProvider}
        BY <1>3, <2>0, <2>2 DEF DefaultsWithout
      <3> QED BY <1>3, <3>1, <3>2 DEF Statuses
    <2>4. Made(kind, file.rest, file.defined \ {p}, file.enabled \ {p},
               [file.finds EXCEPT ![p] = "ok"], default) \in Configurations
      BY <1>2, <1>3, <2>1, <2>3, MadeIs
    <2> QED BY <1>0, <1>4, <1>5, <2>1, <2>2, <2>4, SaveBeginsTyped
  <1> QED BY <1>6, <1>7, <1>8, <1>9

\* What is written over the file, copied to a backup or remembered is a configuration.
LEMMA SaveKeepsTypes ==
    ASSUME TypesInvariant, NEW t \in Threads,
           \/ Backup(t) \/ BackupFails(t) \/ Open(t) \/ Write(t) \/ WriteFails(t) \/ Clear(t)
           \/ Load(t) \/ Remember(t) \/ Return(t)
    PROVE  TypesInvariant'
  <1>0. DOMAIN thread = Threads /\ (\A u \in Threads : Shaped(thread[u])) /\ Shaped(thread[t])
    BY DEF TypesInvariant
  <1>1. /\ file \in Configurations /\ file.kind # "unwritable"
        /\ backups \subseteq Configurations /\ held \subseteq Configurations
        /\ cached = Nothing \/ (cached \in Configurations /\ cached.kind = "good")
        /\ up \in BOOLEAN /\ sent \in 0 .. MaxWrites
    BY DEF TypesInvariant
  <1>2. ASSUME file' \in Configurations, file'.kind # "unwritable",
               backups' \subseteq Configurations, held' \subseteq Configurations,
               cached' = Nothing \/ (cached' \in Configurations /\ cached'.kind = "good"),
               UNCHANGED <<up, sent>>, DOMAIN thread' = Threads,
               \A u \in Threads : Shaped(thread'[u])
        PROVE  TypesInvariant'
    BY <1>1, <1>2 DEF TypesInvariant, Shaped
  <1>3. CASE Backup(t)
    <2>1. /\ backups' = backups \cup {file} /\ UNCHANGED <<file, cached, up, sent, held>>
          /\ thread[t].at = "backup"
          /\ IF thread[t].payload.kind = "unwritable" THEN Answer(t, "refused") ELSE Go(t, "open")
      BY <1>3 DEF Backup, At
    <2>2. thread[t].payload \in Configurations
      BY <1>0, <2>1 DEF Shaped
    <2>3. DOMAIN thread' = Threads /\ \A u \in Threads : Shaped(thread'[u])
      BY <1>0, <2>1, <2>2, AnswerKeepsTypes, GoKeepsTypes DEF Places
    <2> QED BY <1>1, <1>2, <2>1, <2>3
  <1>4. CASE BackupFails(t) \/ WriteFails(t)
    <2>1. Answer(t, "refused") /\ UNCHANGED <<file, backups, cached, up, sent, held>>
      BY <1>4 DEF BackupFails, WriteFails
    <2> QED BY <1>0, <1>1, <1>2, <2>1, AnswerKeepsTypes
  <1>5. CASE Open(t)
    <2>1. /\ file' = Empty /\ Go(t, "write") /\ UNCHANGED <<backups, cached, up, sent, held>>
          /\ thread[t].at = "open"
      BY <1>5 DEF Open, At
    <2>2. thread[t].payload \in Configurations /\ thread[t].payload.kind # "unwritable"
      BY <1>0, <2>1 DEF Shaped
    <2>3. DOMAIN thread' = Threads /\ \A u \in Threads : Shaped(thread'[u])
      BY <1>0, <2>1, <2>2, GoKeepsTypes DEF Places
    <2> QED BY <1>1, <1>2, <2>1, <2>3, EmptyIs
  <1>6. CASE Write(t)
    <2>1. /\ file' = thread[t].payload /\ held' = held \cup {file'} /\ Go(t, "clear")
          /\ UNCHANGED <<backups, cached, up, sent>> /\ thread[t].at = "write"
      BY <1>6 DEF Write, At
    <2>2. thread[t].payload \in Configurations /\ thread[t].payload.kind # "unwritable"
      BY <1>0, <2>1 DEF Shaped
    <2>3. DOMAIN thread' = Threads /\ \A u \in Threads : Shaped(thread'[u])
      BY <1>0, <2>1, GoKeepsTypes DEF Places
    <2> QED BY <1>1, <1>2, <2>1, <2>2, <2>3
  <1>7. CASE Clear(t)
    <2>1. cached' = Nothing /\ Go(t, "load") /\ UNCHANGED <<file, backups, up, sent, held>>
      BY <1>7 DEF Clear
    <2>2. DOMAIN thread' = Threads /\ \A u \in Threads : Shaped(thread'[u])
      BY <1>0, <2>1, GoKeepsTypes DEF Places
    <2> QED BY <1>1, <1>2, <2>1, <2>2
  <1>8. CASE Load(t)
    <2>1. UNCHANGED <<file, backups, cached, up, sent, held>>
      BY <1>8 DEF Load
    <2>2. CASE \E status : Answer(t, status)
      BY <1>0, <1>1, <1>2, <2>1, <2>2, AnswerKeepsTypes
    <2>3. CASE /\ file.kind = "good"
               /\ Become(t, [thread[t] EXCEPT !.at = "remember", !.read = file])
      <3> DEFINE th == [thread[t] EXCEPT !.at = "remember", !.read = file]
      <3>1. Fields \subseteq DOMAIN th /\ th.at = "remember" /\ th.read = file
        BY <1>0 DEF Shaped, Fields
      <3>2. Become(t, th)
        BY <2>3
      <3> HIDE DEF th
      <3>3. Shaped(th)
        BY <1>1, <2>3, <3>1 DEF Shaped, Places
      <3> QED BY <1>0, <1>1, <1>2, <2>1, <3>2, <3>3, ThreadKeepsTypes
    <2> QED BY <1>8, <2>2, <2>3 DEF Load
  <1>9. CASE Remember(t)
    <2>1. /\ thread[t].at = "remember" /\ \E status : Answer(t, status)
          /\ cached' \in {cached, thread[t].read}
          /\ UNCHANGED <<file, backups, up, sent, held>>
      BY <1>9 DEF Remember, At
    <2>2. thread[t].read \in Configurations /\ thread[t].read.kind = "good"
      BY <1>0, <2>1 DEF Shaped
    <2> QED BY <1>0, <1>1, <1>2, <2>1, <2>2, AnswerKeepsTypes
  <1>10. CASE Return(t)
    <2>1. Become(t, Idle) /\ UNCHANGED <<file, backups, cached, up, sent, held>>
      BY <1>10 DEF Return
    <2>2. Shaped(Idle)
      BY DEF Shaped, Fields, Places, Idle
    <2> QED BY <1>0, <1>1, <1>2, <2>1, <2>2, ThreadKeepsTypes
  <1> QED BY <1>3, <1>4, <1>5, <1>6, <1>7, <1>8, <1>9, <1>10

LEMMA TypesAreInductive == TypesInvariant /\ [Next]_vars => TypesInvariant'
  <1> SUFFICES ASSUME TypesInvariant, [Next]_vars
               PROVE  TypesInvariant'
    OBVIOUS
  <1>1. CASE UNCHANGED vars
    BY <1>1 DEF vars, TypesInvariant, Shaped
  <1>2. CASE Crash
    <2>1. Shaped(Idle)
      BY DEF Shaped, Fields, Places, Idle
    <2>2. /\ up' = FALSE /\ cached' = Nothing /\ UNCHANGED <<file, backups, sent, held>>
          /\ thread' = [t \in Threads |-> Idle]
      BY <1>2 DEF Crash
    <2>3. DOMAIN thread' = Threads /\ \A t \in Threads : Shaped(thread[t])'
      BY <2>1, <2>2 DEF Shaped
    <2> QED BY <2>2, <2>3 DEF TypesInvariant
  <1>3. CASE Start
    <2>1. /\ up' = TRUE /\ cached' = file /\ file.kind = "good"
          /\ UNCHANGED <<file, backups, sent, held, thread>>
      BY <1>3 DEF Start
    <2>2. \A t \in Threads : Shaped(thread[t])'
      BY <2>1 DEF TypesInvariant, Shaped
    <2> QED BY <2>1, <2>2 DEF TypesInvariant
  <1>4. CASE PutBackupInPlace
    <2>1. PICK b \in backups : b.kind = "good" /\ file' = b /\ backups' = backups \cup {file}
      BY <1>4 DEF PutBackupInPlace
    <2>2. UNCHANGED <<cached, up, sent, held, thread>>
      BY <1>4 DEF PutBackupInPlace
    <2>3. \A t \in Threads : Shaped(thread[t])'
      BY <2>2 DEF TypesInvariant, Shaped
    <2> QED BY <2>1, <2>2, <2>3 DEF TypesInvariant
  <1>5. CASE \E t \in Threads : Step(t)
    BY <1>5, BeginKeepsTypes, SaveKeepsTypes DEF Step
  <1> QED BY <1>1, <1>2, <1>3, <1>4, <1>5 DEF Next

-----------------------------------------------------------------------------
(* The theorems *)

LEMMA SavesAreInductive == OneAtATime /\ SaveInvariant /\ [Next]_vars => SaveInvariant'
  <1> SUFFICES ASSUME OneAtATime, SaveInvariant, [Next]_vars
               PROVE  SaveInvariant'
    OBVIOUS
  <1>1. CASE UNCHANGED vars
    BY <1>1 DEF vars, SaveInvariant, Formed, BackedUp, Served
  <1>2. CASE Next
    BY <1>2, BeginKeepsSaves, RefusedKeepsSaves, BackupKeepsSaves, RewriteKeepsSaves,
       ValidateKeepsSaves, RestKeepsSaves DEF Next, Step
  <1> QED BY <1>1, <1>2

\* What the file has held is in the file or in a backup, wherever a save fails
\* or the process crashes (write_config_payload_with_backup).
THEOREM ConfigurationsSurvive == ASSUME OneAtATime PROVE Spec => []OldVersionsAreBackedUp
  <1>1. SaveInvariant => OldVersionsAreBackedUp
    BY ConfigurationAssumption DEF SaveInvariant, BackedUp, OldVersionsAreBackedUp
  <1>2. SaveInvariant /\ [Next]_vars => SaveInvariant'
    BY SavesAreInductive
  <1> QED BY <1>1, <1>2, InitSaves, PTL DEF Spec

\* A save is answered with the validation of what it saved, and that is what
\* the process remembers (get_settings, write_config_payload).
THEOREM AnswersAreOfTheSaved == ASSUME OneAtATime PROVE Spec => []AnswersDescribeTheSaved
  <1>1. SaveInvariant => AnswersDescribeTheSaved
    BY DEF SaveInvariant, Served, At, AnswersDescribeTheSaved
  <1>2. SaveInvariant /\ [Next]_vars => SaveInvariant'
    BY SavesAreInductive
  <1> QED BY <1>1, <1>2, InitSaves, PTL DEF Spec

\* However many requests are served at a time, fail or are cut off by a crash: the file
\* and its backups are configurations, the file is never one that cannot be rendered, and
\* the settings the process remembers are always of one that loads (get_settings,
\* write_config_payload_with_backup).
THEOREM SettingsLoad == Spec => []TypeOK
  <1>1. TypesInvariant => TypeOK
    BY DEF TypesInvariant, Shaped, TypeOK
  <1> QED BY <1>1, InitTypes, TypesAreInductive, PTL DEF Spec

=============================================================================
