---------------------------- MODULE SessionStore ----------------------------
(***************************************************************************)
(* How a workflow session outlives the API process (_persist_session,      *)
(* _load_persisted_sessions and get_session of api/workflow_service.py).   *)
(*                                                                         *)
(* Each change a handler makes is followed by a persist of the whole       *)
(* session: serialise it, write a temporary file, rename that over the     *)
(* session file, and set the same text in Redis when the process has a     *)
(* client.  An error in any of these is swallowed.  Reading a session also *)
(* persists it, because the monitors of the snapshot log their activity.   *)
(* Handlers run on a thread pool and the temporary file has one name, so   *)
(* the files are modelled by their inodes: a writer keeps writing to the   *)
(* inode it opened, whatever has been renamed since.                       *)
(*                                                                         *)
(* A session is represented by the number of the last change it contains.  *)
(* The process may crash between any two steps and start again.            *)
(***************************************************************************)
EXTENDS Integers

CONSTANTS Threads,       \* worker threads that serve this session
          MaxChanges,    \* bound: changes made to the session
          StoreMayFail,  \* whether a file or Redis call may raise
          StartsAlone    \* whether a process may start while its Redis is away

NoFile == "no file"

ASSUME StoreAssumption ==
    /\ Threads # {} /\ NoFile \notin Threads
    /\ MaxChanges \in Nat
    /\ StoreMayFail \in BOOLEAN
    /\ StartsAlone \in BOOLEAN

VARIABLES
    issued,     \* changes made so far
    saved,      \* the last change whose persist completed before the client was told
    up,         \* whether the process runs
    mem,        \* self.sessions[id]: its last change; 0 when not loaded
    configured, \* whether the settings name a Redis
    client,     \* whether this process has a Redis client
    redisUp,    \* whether Redis can be reached now
    redis,      \* the blob in Redis; 0 when there is none
    indexed,    \* whether the Redis index names the session
    content,    \* content[i]: the text in inode i
    file,       \* the inode named <session>.json
    tmp,        \* the inode named <session>.json.tmp
    thread      \* thread[t]: what t is doing

redisVars == <<redis, indexed>>
fileVars == <<content, file, tmp>>
processVars == <<configured, up, client, redisUp>>
vars == <<issued, saved, mem, thread, redisVars, fileVars, processVars>>

-----------------------------------------------------------------------------
Absent == 0                       \* no such session, change 0
Empty == -1                       \* a file opened and not written
Torn == -2                        \* a file two writers have mixed
Inodes == Threads \cup {"a", "b"} \* two names and one open file per thread

Idle == [at |-> "idle", payload |-> 0, fd |-> NoFile]

Bigger(a, b) == IF a > b THEN a ELSE b

\* A file that does not parse is as good as none.
Readable(i) == IF i # NoFile /\ content[i] > 0 THEN content[i] ELSE Absent

\* What a new process that has a Redis client, or has none, finds of the session
\* by the time a request asks for it: the blob, and the file only without a blob.
Recoverable(hasClient) ==
    IF hasClient /\ redis # Absent THEN redis ELSE Readable(file)

Init ==
    /\ issued = 0 /\ saved = 0
    /\ up = TRUE
    /\ mem = Absent
    /\ configured \in BOOLEAN
    /\ redisUp = configured
    /\ client = configured
    /\ redis = Absent /\ indexed = FALSE
    /\ content = [i \in Inodes |-> Empty]
    /\ file = NoFile /\ tmp = NoFile
    /\ thread = [t \in Threads |-> Idle]

-----------------------------------------------------------------------------
(* Requests *)

Serve(t) == thread' = [thread EXCEPT ![t].at = "serialize"]

\* create_session, and any later handler that changes the session.
Change(t) ==
    /\ up
    /\ thread[t] = Idle
    /\ mem # Absent \/ issued = 0
    /\ issued < MaxChanges
    /\ issued' = issued + 1
    /\ mem' = issued + 1
    /\ Serve(t)
    /\ UNCHANGED <<saved, redisVars, fileVars, processVars>>

\* A request that only reads; its snapshot persists the session all the same.
Read(t) ==
    /\ up
    /\ thread[t] = Idle
    /\ mem # Absent
    /\ Serve(t)
    /\ UNCHANGED <<issued, saved, mem, redisVars, fileVars, processVars>>

\* get_session of a session that is not in memory.  A Redis error there ends the
\* search: the file is not tried and the client is told there is no such session.
LazyLoad(t) ==
    /\ up
    /\ thread[t] = Idle
    /\ mem = Absent
    /\ client => redisUp
    /\ Recoverable(client) # Absent
    /\ mem' = Recoverable(client)
    /\ UNCHANGED <<issued, saved, thread, redisVars, fileVars, processVars>>

-----------------------------------------------------------------------------
(* _persist_session *)

Serialize(t) ==
    /\ thread[t].at = "serialize"
    /\ thread' = [thread EXCEPT ![t].at = "open", ![t].payload = mem]
    /\ UNCHANGED <<issued, saved, mem, redisVars, fileVars, processVars>>

\* Mutant of OpenTmp: the session file itself is opened for writing.
OpenInPlace(t) ==
    /\ thread[t].at = "open"
    /\ \E i \in Inodes :
          /\ file # NoFile => i = file
          /\ file' = i
          /\ tmp' = i
          /\ content' = [content EXCEPT ![i] = Empty]
          /\ thread' = [thread EXCEPT ![t].at = "write", ![t].fd = i]
    /\ UNCHANGED <<issued, saved, mem, redisVars, processVars>>

\* Opening for writing truncates the file of that name, or makes a new one.
OpenTmp(t) ==
    /\ thread[t].at = "open"
    /\ \E i \in Inodes :
          /\ IF tmp # NoFile THEN i = tmp
             ELSE i # file /\ \A u \in Threads : thread[u].fd # i
          /\ tmp' = i
          /\ content' = [content EXCEPT ![i] = Empty]
          /\ thread' = [thread EXCEPT ![t].at = "write", ![t].fd = i]
    /\ UNCHANGED <<issued, saved, mem, file, redisVars, processVars>>

\* Text written over another writer's may leave the longer one's tail.
WriteTmp(t) ==
    /\ thread[t].at = "write"
    /\ LET i == thread[t].fd IN
       \E text \in {thread[t].payload, Torn} :
          /\ content[i] = Empty => text # Torn
          /\ content' = [content EXCEPT ![i] = text]
    /\ thread' = [thread EXCEPT ![t].at = "replace", ![t].fd = NoFile]
    /\ UNCHANGED <<issued, saved, mem, file, tmp, redisVars, processVars>>

\* Mutant of ReplaceFile: a rename that does not overwrite.
ReplaceOnce(t) ==
    /\ thread[t].at = "replace"
    /\ tmp # NoFile
    /\ file' = IF file = NoFile THEN tmp ELSE file
    /\ tmp' = NoFile
    /\ thread' = [thread EXCEPT ![t].at = IF client THEN "cache" ELSE "saved"]
    /\ UNCHANGED <<issued, saved, mem, content, redisVars, processVars>>

ReplaceFile(t) ==
    /\ thread[t].at = "replace"
    /\ tmp # NoFile
    /\ file' = tmp
    /\ tmp' = NoFile
    /\ thread' = [thread EXCEPT ![t].at = IF client THEN "cache" ELSE "saved"]
    /\ UNCHANGED <<issued, saved, mem, content, redisVars, processVars>>

\* Mutant of CacheBlob: SETNX instead of SET.
CacheIfAbsent(t) ==
    /\ thread[t].at = "cache"
    /\ redisUp
    /\ redis' = IF redis = Absent THEN thread[t].payload ELSE redis
    /\ thread' = [thread EXCEPT ![t].at = "index"]
    /\ UNCHANGED <<issued, saved, mem, indexed, fileVars, processVars>>

CacheBlob(t) ==
    /\ thread[t].at = "cache"
    /\ redisUp
    /\ redis' = thread[t].payload
    /\ thread' = [thread EXCEPT ![t].at = "index"]
    /\ UNCHANGED <<issued, saved, mem, indexed, fileVars, processVars>>

AddToIndex(t) ==
    /\ thread[t].at = "index"
    /\ redisUp
    /\ indexed' = TRUE
    /\ thread' = [thread EXCEPT ![t].at = "saved"]
    /\ UNCHANGED <<issued, saved, mem, redis, fileVars, processVars>>

\* The persist is complete and the request is answered.
Answer(t) ==
    /\ thread[t].at = "saved"
    /\ saved' = Bigger(saved, thread[t].payload)
    /\ thread' = [thread EXCEPT ![t] = Idle]
    /\ UNCHANGED <<issued, mem, redisVars, fileVars, processVars>>

\* Mutant of SwallowError: the error ends the worker thread.
RaiseError(t) ==
    /\ StoreMayFail
    /\ thread[t].at \in {"open", "write", "replace", "cache", "index"}
    /\ thread' = [thread EXCEPT ![t].at = "raised"]
    /\ UNCHANGED <<issued, saved, mem, redisVars, fileVars, processVars>>

\* "Persistence must never break the workflow path": the request is answered all
\* the same, and the client cannot tell.
SwallowError(t) ==
    /\ \/ StoreMayFail /\ thread[t].at \in {"open", "write", "replace", "cache", "index"}
       \/ thread[t].at = "replace" /\ tmp = NoFile
       \/ thread[t].at \in {"cache", "index"} /\ ~redisUp
    /\ thread' = [thread EXCEPT ![t] = Idle]
    /\ UNCHANGED <<issued, saved, mem, redisVars, fileVars, processVars>>

-----------------------------------------------------------------------------
(* The process and Redis *)

Crash ==
    /\ up
    /\ up' = FALSE
    /\ mem' = Absent
    /\ client' = FALSE
    /\ thread' = [t \in Threads |-> Idle]
    /\ UNCHANGED <<issued, saved, configured, redisUp, redisVars, fileVars>>

\* __init__ gets a client only if Redis answers a ping now; then loads every session
\* of the Redis index, or of the directory without a client or when Redis raises.
\* A file that cannot be read is passed over.
Start ==
    /\ ~up
    /\ configured => redisUp \/ StartsAlone
    /\ up' = TRUE
    /\ client' = redisUp
    /\ \/ redisUp /\ mem' = IF indexed THEN redis ELSE Absent
       \/ (redisUp => StoreMayFail) /\ mem' = Readable(file)
       \/ StoreMayFail /\ mem' = Absent
    /\ UNCHANGED <<issued, saved, configured, redisUp, thread, redisVars, fileVars>>

RedisComesOrGoes ==
    /\ configured
    /\ redisUp' = ~redisUp
    /\ UNCHANGED <<issued, saved, configured, up, mem, client, thread, redisVars,
                   fileVars>>

Persist(t) ==
    \/ Serialize(t)
    \/ OpenTmp(t)
    \/ WriteTmp(t)
    \/ ReplaceFile(t)
    \/ CacheBlob(t)
    \/ AddToIndex(t)
    \/ Answer(t)
    \/ SwallowError(t)

Next ==
    \/ \E t \in Threads : Change(t) \/ Read(t) \/ LazyLoad(t) \/ Persist(t)
    \/ Crash
    \/ Start
    \/ RedisComesOrGoes

Spec == Init /\ [][Next]_vars

\* A running thread goes on; nothing obliges a crashed process to be started.
FairSpec == Spec /\ \A t \in Threads : WF_vars(Persist(t))

-----------------------------------------------------------------------------
(* Properties *)

TypeOK ==
    /\ issued \in 0 .. MaxChanges
    /\ saved \in 0 .. MaxChanges
    /\ up \in BOOLEAN
    /\ mem \in 0 .. MaxChanges
    /\ configured \in BOOLEAN
    /\ client \in BOOLEAN
    /\ redisUp \in BOOLEAN
    /\ redis \in 0 .. MaxChanges
    /\ indexed \in BOOLEAN
    /\ content \in [Inodes -> Torn .. MaxChanges]
    /\ file \in Inodes \cup {NoFile}
    /\ tmp \in Inodes \cup {NoFile}
    /\ thread \in [Threads ->
           [at : {"idle", "serialize", "open", "write", "replace", "cache", "index",
                  "saved"},
            payload : 0 .. MaxChanges,
            fd : Inodes \cup {NoFile}]]

\* "so sessions survive API restarts" (_resolve_session_store_dir): a request finds
\* after a restart every change that was persisted before its client was told of
\* it, wherever the process crashed and whatever persist has failed since.  So it is
\* with one thread that persists and no start while Redis is away, and not otherwise.
SavedSurvives == Recoverable(redisUp) >= saved

\* The session file always parses: a crash in the middle of _persist_session, or an
\* error swallowed there, can spoil the temporary file only.
FileIsWhole == file # NoFile => content[file] > 0

\* A process that has the session in memory serves what was saved or something
\* later, from whichever of the two stores it was loaded.
ServesSaved == mem # Absent => mem >= saved

\* No error of the stores, and no crash, leaves a request waiting for its answer.
RequestsAnswered ==
    \A t \in Threads : thread[t].at # "idle" ~> thread[t].at = "idle"
=============================================================================
