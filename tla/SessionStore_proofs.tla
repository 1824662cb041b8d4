------------------------ MODULE SessionStore_proofs -------------------------
(***************************************************************************)
(* Proofs about SessionStore.  The types hold for any number of threads;   *)
(* with one thread, and no process started while its Redis is away, what   *)
(* was saved survives every crash and every error that is swallowed.       *)
(***************************************************************************)
EXTENDS SessionStore, TLAPS

Places == {"idle", "serialize", "open", "write", "replace", "cache", "index", "saved"}

Threadings == [at : Places, payload : 0 .. MaxChanges, fd : Inodes \cup {NoFile}]

OneSteadyThread ==
    /\ \A t, u \in Threads : t = u
    /\ StartsAlone = FALSE

-----------------------------------------------------------------------------
(* Types *)

LEMMA TypeOfThread == ASSUME TypeOK, NEW t \in Threads PROVE thread[t] \in Threadings
  BY DEF TypeOK, Threadings, Places

\* A step that sets one thread keeps the type of the threads.
LEMMA ThreadsTyped ==
    ASSUME TypeOK, NEW t \in Threads, NEW x \in Threadings, thread' = [thread EXCEPT ![t] = x]
    PROVE  thread' \in [Threads -> Threadings]
  BY DEF TypeOK, Threadings, Places

LEMMA IdleType == Idle \in Threadings
  BY StoreAssumption DEF Idle, Threadings, Places

\* Only the place of a thread changes.
LEMMA PlaceTyped ==
    ASSUME TypeOK, NEW t \in Threads, NEW p \in Places,
           thread' = [thread EXCEPT ![t].at = p]
    PROVE  /\ thread' \in [Threads -> Threadings]
           /\ thread'[t].at = p /\ thread'[t].payload = thread[t].payload
           /\ thread'[t].fd = thread[t].fd
  <1> DEFINE x == [thread[t] EXCEPT !.at = p]
  <1>1. thread[t] \in Threadings
    BY TypeOfThread
  <1>2. x \in Threadings /\ x.at = p /\ x.payload = thread[t].payload /\ x.fd = thread[t].fd
    BY <1>1 DEF Threadings
  <1>3. thread' = [thread EXCEPT ![t] = x]
    BY DEF TypeOK
  <1> HIDE DEF x
  <1>4. thread'[t] = x
    BY <1>3 DEF TypeOK
  <1> QED BY <1>2, <1>3, <1>4, ThreadsTyped

LEMMA TypeFromThread ==
    TypeOK <=> /\ issued \in 0 .. MaxChanges
               /\ saved \in 0 .. MaxChanges
               /\ up \in BOOLEAN
               /\ mem \in 0 .. MaxChanges
               /\ configured \in BOOLEAN
               /\ client \in BOOLEAN
               /\ redisUp \in BOOLEAN
               /\ redis \in 0 .. MaxChanges
               /\ indexed \in BOOLEAN
               /\ content \in [Inodes -> Torn .. MaxChanges]
               /\ file \in Inodes \cup {NoFile}
               /\ tmp \in Inodes \cup {NoFile}
               /\ thread \in [Threads -> Threadings]
  BY DEF TypeOK, Threadings, Places

\* The steps that move a thread from one place to the next.
LEMMA MovesTyped ==
    ASSUME TypeOK, NEW t \in Threads,
           Change(t) \/ Read(t) \/ ReplaceFile(t) \/ CacheBlob(t) \/ AddToIndex(t)
    PROVE  TypeOK'
  <1>1. thread[t] \in Threadings
    BY TypeOfThread
  <1>2. thread[t].payload \in 0 .. MaxChanges
    BY <1>1 DEF Threadings
  <1>3. PICK p \in Places : thread' = [thread EXCEPT ![t].at = p]
    <2>1. CASE Change(t)
      BY <2>1 DEF Change, Serve, Places
    <2>2. CASE Read(t)
      BY <2>2 DEF Read, Serve, Places
    <2>3. CASE ReplaceFile(t)
      <3>1. CASE client
        BY <2>3, <3>1 DEF ReplaceFile, Places
      <3>2. CASE ~client
        BY <2>3, <3>2 DEF ReplaceFile, Places
      <3> QED BY <3>1, <3>2
    <2>4. CASE CacheBlob(t)
      BY <2>4 DEF CacheBlob, Places
    <2>5. CASE AddToIndex(t)
      BY <2>5 DEF AddToIndex, Places
    <2> QED BY <2>1, <2>2, <2>3, <2>4, <2>5
  <1>4. thread' \in [Threads -> Threadings]
    BY <1>3, PlaceTyped
  <1>5. CASE Change(t)
    <2>1. issued + 1 \in 0 .. MaxChanges
      BY <1>5, StoreAssumption DEF Change, TypeOK
    <2> QED BY <1>4, <1>5, <2>1, TypeFromThread
            DEF Change, redisVars, fileVars, processVars, TypeOK, Threadings, Places
  <1>6. CASE Read(t)
    BY <1>4, <1>6 DEF Read, redisVars, fileVars, processVars, TypeOK, Threadings, Places
  <1>7. CASE ReplaceFile(t)
    BY <1>4, <1>7 DEF ReplaceFile, redisVars, processVars, TypeOK, Threadings, Places
  <1>8. CASE CacheBlob(t)
    BY <1>2, <1>4, <1>8 DEF CacheBlob, fileVars, processVars, TypeOK, Threadings, Places
  <1>9. CASE AddToIndex(t)
    BY <1>4, <1>9 DEF AddToIndex, fileVars, processVars, TypeOK, Threadings, Places
  <1> QED BY <1>5, <1>6, <1>7, <1>8, <1>9

LEMMA SerializeTyped ==
    ASSUME TypeOK, NEW t \in Threads, Serialize(t)
    PROVE  /\ TypeOK'
           /\ thread'[t].at = "open" /\ thread'[t].payload = mem
  <1> DEFINE x == [thread[t] EXCEPT !.at = "open", !.payload = mem]
  <1>1. thread[t] \in Threadings /\ mem \in 0 .. MaxChanges
    BY TypeOfThread DEF TypeOK
  <1>2. x \in Threadings /\ x.at = "open" /\ x.payload = mem
    BY <1>1 DEF Threadings, Places
  <1>3. thread' = [thread EXCEPT ![t] = x]
    BY DEF Serialize, TypeOK
  <1> HIDE DEF x
  <1>4. thread'[t] = x /\ thread' \in [Threads -> Threadings]
    BY <1>2, <1>3, ThreadsTyped DEF TypeOK
  <1> QED BY <1>2, <1>4 DEF Serialize, redisVars, fileVars, processVars, TypeOK, Threadings, Places

LEMMA OpenTyped ==
    ASSUME TypeOK, NEW t \in Threads, OpenTmp(t)
    PROVE  /\ TypeOK'
           /\ \E i \in Inodes :
                 /\ IF tmp # NoFile THEN i = tmp ELSE i # file
                 /\ tmp' = i /\ content' = [content EXCEPT ![i] = Empty]
                 /\ thread'[t].at = "write" /\ thread'[t].fd = i
                 /\ thread'[t].payload = thread[t].payload
  <1>1. PICK i \in Inodes :
            /\ IF tmp # NoFile THEN i = tmp ELSE i # file
            /\ tmp' = i
            /\ content' = [content EXCEPT ![i] = Empty]
            /\ thread' = [thread EXCEPT ![t].at = "write", ![t].fd = i]
    BY DEF OpenTmp
  <1> DEFINE x == [thread[t] EXCEPT !.at = "write", !.fd = i]
  <1>2. thread[t] \in Threadings
    BY TypeOfThread
  <1>3. x \in Threadings /\ x.at = "write" /\ x.fd = i /\ x.payload = thread[t].payload
    BY <1>2 DEF Threadings, Places
  <1>4. thread' = [thread EXCEPT ![t] = x]
    BY <1>1 DEF TypeOK
  <1> HIDE DEF x
  <1>5. thread'[t] = x /\ thread' \in [Threads -> Threadings]
    BY <1>3, <1>4, ThreadsTyped DEF TypeOK
  <1>6. Empty \in Torn .. MaxChanges
    BY StoreAssumption DEF Empty, Torn
  <1>7. content' \in [Inodes -> Torn .. MaxChanges]
    BY <1>1, <1>6 DEF TypeOK
  <1>8. TypeOK'
    BY <1>1, <1>5, <1>7 DEF OpenTmp, redisVars, processVars, TypeOK, Threadings, Places
  <1> QED BY <1>1, <1>3, <1>5, <1>8

LEMMA WriteTyped ==
    ASSUME TypeOK, NEW t \in Threads, WriteTmp(t)
    PROVE  /\ TypeOK'
           /\ \E text \in {thread[t].payload, Torn} :
                 /\ content[thread[t].fd] = Empty => text # Torn
                 /\ content' = [content EXCEPT ![thread[t].fd] = text]
           /\ thread'[t].at = "replace" /\ thread'[t].payload = thread[t].payload
  <1>1. PICK text \in {thread[t].payload, Torn} :
            /\ content[thread[t].fd] = Empty => text # Torn
            /\ content' = [content EXCEPT ![thread[t].fd] = text]
    BY DEF WriteTmp
  <1> DEFINE x == [thread[t] EXCEPT !.at = "replace", !.fd = NoFile]
  <1>2. thread[t] \in Threadings
    BY TypeOfThread
  <1>3. x \in Threadings /\ x.at = "replace" /\ x.payload = thread[t].payload
    BY <1>2 DEF Threadings, Places
  <1>4. thread' = [thread EXCEPT ![t] = x]
    BY DEF WriteTmp, TypeOK
  <1> HIDE DEF x
  <1>5. thread'[t] = x /\ thread' \in [Threads -> Threadings]
    BY <1>3, <1>4, ThreadsTyped DEF TypeOK
  <1>6. text \in Torn .. MaxChanges
    BY <1>2, StoreAssumption DEF Threadings, Torn
  <1>7. content' \in [Inodes -> Torn .. MaxChanges]
    BY <1>1, <1>6 DEF TypeOK
  <1>8. TypeOK'
    BY <1>5, <1>7 DEF WriteTmp, redisVars, processVars, TypeOK, Threadings, Places
  <1> QED BY <1>1, <1>3, <1>5, <1>8

\* The steps after which a thread is idle.
LEMMA EndsTyped ==
    ASSUME TypeOK, NEW t \in Threads, Answer(t) \/ SwallowError(t)
    PROVE  TypeOK' /\ thread'[t] = Idle
  <1>1. thread' = [thread EXCEPT ![t] = Idle]
    BY DEF Answer, SwallowError
  <1>2. thread' \in [Threads -> Threadings] /\ thread'[t] = Idle
    BY <1>1, IdleType, ThreadsTyped DEF TypeOK
  <1>3. CASE Answer(t)
    <2>1. thread[t].payload \in 0 .. MaxChanges
      BY TypeOfThread DEF Threadings
    <2>2. saved' \in 0 .. MaxChanges
      BY <1>3, <2>1 DEF Answer, Bigger, TypeOK
    <2> QED BY <1>2, <1>3, <2>2
            DEF Answer, redisVars, fileVars, processVars, TypeOK, Threadings, Places
  <1>4. CASE SwallowError(t)
    BY <1>2, <1>4 DEF SwallowError, redisVars, fileVars, processVars, TypeOK, Threadings, Places
  <1> QED BY <1>2, <1>3, <1>4

\* What is recovered is a change.
LEMMA RecoveredTyped ==
    ASSUME TypeOK, NEW c
    PROVE  Recoverable(c) \in 0 .. MaxChanges /\ Readable(file) \in 0 .. MaxChanges
  <1>1. 0 \in 0 .. MaxChanges
    BY StoreAssumption
  <1>2. Readable(file) \in 0 .. MaxChanges
    <2>1. CASE file # NoFile /\ content[file] > 0
      <3>1. content[file] \in Torn .. MaxChanges
        BY <2>1 DEF TypeOK
      <3> QED BY <2>1, <3>1, StoreAssumption DEF Readable, Torn
    <2>2. CASE ~(file # NoFile /\ content[file] > 0)
      BY <1>1, <2>2 DEF Readable, Absent
    <2> QED BY <2>1, <2>2
  <1> QED BY <1>2 DEF Recoverable, TypeOK

LEMMA ProcessTyped ==
    ASSUME TypeOK, Crash \/ Start \/ RedisComesOrGoes \/ \E t \in Threads : LazyLoad(t)
    PROVE  TypeOK'
  <1>1. 0 \in 0 .. MaxChanges
    BY StoreAssumption
  <1>2. CASE Crash
    BY <1>1, <1>2, IdleType DEF Crash, Absent, redisVars, fileVars, TypeOK, Threadings, Places
  <1>3. CASE Start
    <2>1. mem' \in 0 .. MaxChanges
      BY <1>1, <1>3, RecoveredTyped DEF Start, Absent, TypeOK
    <2> QED BY <1>3, <2>1 DEF Start, redisVars, fileVars, TypeOK
  <1>4. CASE RedisComesOrGoes
    BY <1>4 DEF RedisComesOrGoes, redisVars, fileVars, TypeOK
  <1>5. ASSUME NEW t \in Threads, LazyLoad(t) PROVE TypeOK'
    <2>1. mem' \in 0 .. MaxChanges
      BY <1>5, RecoveredTyped DEF LazyLoad
    <2> QED BY <1>5, <2>1 DEF LazyLoad, redisVars, fileVars, processVars, TypeOK
  <1> QED BY <1>2, <1>3, <1>4, <1>5

LEMMA TypeStep == ASSUME TypeOK, [Next]_vars PROVE TypeOK'
  <1>1. CASE Crash \/ Start \/ RedisComesOrGoes
    BY <1>1, ProcessTyped
  <1>2. ASSUME NEW t \in Threads, Change(t) \/ Read(t) \/ LazyLoad(t) \/ Persist(t) PROVE TypeOK'
    BY <1>2, MovesTyped, SerializeTyped, OpenTyped, WriteTyped, EndsTyped, ProcessTyped DEF Persist
  <1>3. CASE UNCHANGED vars
    BY <1>3 DEF vars, redisVars, fileVars, processVars, TypeOK
  <1> QED BY <1>1, <1>2, <1>3 DEF Next

LEMMA TypeAtInit == Init => TypeOK
  <1>1. 0 \in 0 .. MaxChanges /\ Empty \in Torn .. MaxChanges
    BY StoreAssumption DEF Empty, Torn
  <1> QED BY <1>1, IdleType DEF Init, Absent, TypeOK, Threadings, Places

\* Every variable keeps its type, for any number of threads.
THEOREM StoreIsTyped == Spec => []TypeOK
  <1>1. Init => TypeOK
    BY TypeAtInit
  <1>2. TypeOK /\ [Next]_vars => TypeOK'
    BY TypeStep
  <1> QED BY <1>1, <1>2, PTL DEF Spec

-----------------------------------------------------------------------------
(* What is saved *)

\* Nothing is ahead of the changes that were made.
NothingInvented ==
    /\ saved <= issued /\ mem <= issued /\ redis <= issued
    /\ Readable(file) <= issued

\* Neither store, nor the process, is behind what clients were told is saved.
NothingLost ==
    /\ saved <= Readable(file)
    /\ redis # Absent => configured /\ saved <= redis
    /\ mem # Absent => saved <= mem

\* A process has a client if its settings name a Redis.
Connected ==
    /\ redisUp => configured
    /\ up => (client <=> configured)

\* How far a thread has come with persisting the session in memory.
Persisting(t) ==
    LET th == thread[t] IN
    /\ th.at # "idle" => up /\ mem # Absent
    /\ th.at \notin {"idle", "serialize"} => th.payload = mem
    /\ th.at = "write" => th.fd = tmp /\ tmp # NoFile /\ content[tmp] = Empty
    /\ th.at = "replace" => tmp # NoFile /\ content[tmp] = mem
    /\ th.at \in {"cache", "index", "saved"} => Readable(file) = mem
    /\ th.at \in {"cache", "index"} => configured
    /\ th.at = "index" \/ (th.at = "saved" /\ configured) => redis = mem

StoreInvariant ==
    /\ TypeOK
    /\ NothingInvented
    /\ NothingLost
    /\ Connected
    /\ FileIsWhole
    /\ tmp # NoFile => tmp # file
    /\ \A t \in Threads : Persisting(t)

LEMMA InitStore == Init => StoreInvariant
  <1> SUFFICES ASSUME Init PROVE StoreInvariant
    OBVIOUS
  <1>1. TypeOK
    BY TypeAtInit
  <1>2. Readable(file) = 0
    BY DEF Init, Readable, Absent
  <1>3. NothingInvented /\ NothingLost
    BY <1>2 DEF Init, NothingInvented, NothingLost, Absent
  <1>4. Connected
    BY DEF Init, Connected
  <1>5. FileIsWhole /\ (tmp # NoFile => tmp # file)
    BY DEF Init, FileIsWhole
  <1>6. \A t \in Threads : Persisting(t)
    BY DEF Init, Persisting, Idle
  <1> QED BY <1>1, <1>3, <1>4, <1>5, <1>6 DEF StoreInvariant

\* The numbers the invariant compares.
LEMMA StoreNumbers ==
    ASSUME TypeOK
    PROVE  /\ issued \in Nat /\ saved \in Nat /\ mem \in Nat /\ redis \in Nat
           /\ Readable(file) \in Nat
  BY RecoveredTyped, StoreAssumption DEF TypeOK

LEMMA ChangeStep ==
    ASSUME OneSteadyThread, StoreInvariant, NEW t \in Threads, Change(t) \/ Read(t)
    PROVE  StoreInvariant'
  <1>1. TypeOK' /\ TypeOK
    BY MovesTyped DEF StoreInvariant
  <1>2. /\ UNCHANGED <<saved, redis, file, tmp, content, configured, up, client, redisUp>>
        /\ up
        /\ (issued' = issued + 1 /\ mem' = issued + 1) \/ (issued' = issued /\ mem' = mem /\ mem # Absent)
        /\ thread' = [thread EXCEPT ![t].at = "serialize"]
    BY DEF Change, Read, Serve, redisVars, fileVars, processVars
  <1>3. thread'[t].at = "serialize"
    BY <1>1, <1>2, PlaceTyped DEF Places
  <1>4. Readable(file)' = Readable(file)
    BY <1>2 DEF Readable
  <1>5. NothingInvented'
    BY <1>1, <1>2, <1>4, StoreNumbers DEF StoreInvariant, NothingInvented
  <1>6. NothingLost'
    BY <1>1, <1>2, <1>4, StoreNumbers DEF StoreInvariant, NothingLost, NothingInvented
  <1>7. Connected' /\ FileIsWhole' /\ (tmp # NoFile => tmp # file)'
    BY <1>2 DEF StoreInvariant, Connected, FileIsWhole
  <1>8. mem' # Absent
    BY <1>1, <1>2, StoreNumbers DEF Absent
  <1>9. \A u \in Threads : Persisting(u)'
    BY <1>2, <1>3, <1>8 DEF OneSteadyThread, Persisting
  <1> QED BY <1>1, <1>5, <1>6, <1>7, <1>9 DEF StoreInvariant

LEMMA SerializeStep ==
    ASSUME OneSteadyThread, StoreInvariant, NEW t \in Threads, Serialize(t)
    PROVE  StoreInvariant'
  <1>1. TypeOK' /\ thread'[t].at = "open" /\ thread'[t].payload = mem
    BY SerializeTyped DEF StoreInvariant
  <1>2. UNCHANGED <<issued, saved, mem, redis, file, tmp, content, configured, up, client, redisUp>>
    BY DEF Serialize, redisVars, fileVars, processVars
  <1>3. up /\ mem # Absent
    BY DEF StoreInvariant, Persisting, Serialize
  <1>4. NothingInvented' /\ NothingLost' /\ Connected' /\ FileIsWhole' /\ (tmp # NoFile => tmp # file)'
    BY <1>2 DEF StoreInvariant, NothingInvented, NothingLost, Connected, FileIsWhole, Readable
  <1>5. \A u \in Threads : Persisting(u)'
    BY <1>1, <1>2, <1>3 DEF OneSteadyThread, Persisting
  <1> QED BY <1>1, <1>4, <1>5 DEF StoreInvariant

LEMMA OpenStep ==
    ASSUME OneSteadyThread, StoreInvariant, NEW t \in Threads, OpenTmp(t)
    PROVE  StoreInvariant'
  <1>1. PICK i \in Inodes :
            /\ IF tmp # NoFile THEN i = tmp ELSE i # file
            /\ tmp' = i /\ content' = [content EXCEPT ![i] = Empty]
            /\ thread'[t].at = "write" /\ thread'[t].fd = i
            /\ thread'[t].payload = thread[t].payload
    BY OpenTyped DEF StoreInvariant
  <1>2. TypeOK' /\ TypeOK
    BY OpenTyped DEF StoreInvariant
  <1>3. UNCHANGED <<issued, saved, mem, redis, file, configured, up, client, redisUp>>
    BY DEF OpenTmp, redisVars, processVars
  <1>4. i # file /\ i # NoFile
    BY <1>1, StoreAssumption DEF StoreInvariant, Inodes, NoFile
  <1>5. file # NoFile => content'[file] = content[file]
    BY <1>1, <1>2, <1>4 DEF TypeOK
  <1>6. Readable(file)' = Readable(file)
    BY <1>3, <1>5 DEF Readable
  <1>7. NothingInvented' /\ NothingLost' /\ Connected'
    BY <1>3, <1>6 DEF StoreInvariant, NothingInvented, NothingLost, Connected
  <1>8. FileIsWhole' /\ (tmp # NoFile => tmp # file)'
    BY <1>1, <1>3, <1>4, <1>5 DEF StoreInvariant, FileIsWhole
  <1>9. content'[i] = Empty
    BY <1>1, <1>2 DEF TypeOK
  <1>10. up /\ mem # Absent /\ thread[t].payload = mem
    BY DEF StoreInvariant, Persisting, OpenTmp
  <1>11. \A u \in Threads : Persisting(u)'
    BY <1>1, <1>3, <1>4, <1>9, <1>10 DEF OneSteadyThread, Persisting
  <1> QED BY <1>2, <1>7, <1>8, <1>11 DEF StoreInvariant

LEMMA WriteStep ==
    ASSUME OneSteadyThread, StoreInvariant, NEW t \in Threads, WriteTmp(t)
    PROVE  StoreInvariant'
  <1>1. PICK text \in {thread[t].payload, Torn} :
            /\ content[thread[t].fd] = Empty => text # Torn
            /\ content' = [content EXCEPT ![thread[t].fd] = text]
    BY WriteTyped DEF StoreInvariant
  <1>2. /\ TypeOK' /\ TypeOK
        /\ thread'[t].at = "replace" /\ thread'[t].payload = thread[t].payload
    BY WriteTyped DEF StoreInvariant
  <1>3. UNCHANGED <<issued, saved, mem, redis, file, tmp, configured, up, client, redisUp>>
    BY DEF WriteTmp, redisVars, processVars
  <1>4. /\ up /\ mem # Absent /\ thread[t].payload = mem
        /\ thread[t].fd = tmp /\ tmp # NoFile /\ content[tmp] = Empty
    BY DEF StoreInvariant, Persisting, WriteTmp
  <1>5. content' = [content EXCEPT ![tmp] = mem]
    BY <1>1, <1>4
  <1>6. tmp # file /\ tmp \in Inodes
    BY <1>2, <1>4 DEF StoreInvariant, TypeOK
  <1>7. content'[tmp] = mem /\ (file # NoFile => content'[file] = content[file])
    BY <1>2, <1>5, <1>6 DEF TypeOK
  <1>8. Readable(file)' = Readable(file)
    BY <1>3, <1>7 DEF Readable
  <1>9. NothingInvented' /\ NothingLost' /\ Connected'
    BY <1>3, <1>8 DEF StoreInvariant, NothingInvented, NothingLost, Connected
  <1>10. FileIsWhole' /\ (tmp # NoFile => tmp # file)'
    BY <1>3, <1>6, <1>7 DEF StoreInvariant, FileIsWhole
  <1>11. \A u \in Threads : Persisting(u)'
    BY <1>2, <1>3, <1>4, <1>7 DEF OneSteadyThread, Persisting
  <1> QED BY <1>2, <1>9, <1>10, <1>11 DEF StoreInvariant

LEMMA ReplaceStep ==
    ASSUME OneSteadyThread, StoreInvariant, NEW t \in Threads, ReplaceFile(t)
    PROVE  StoreInvariant'
  <1>1. TypeOK' /\ TypeOK
    BY MovesTyped DEF StoreInvariant
  <1>2. /\ UNCHANGED <<issued, saved, mem, redis, content, configured, up, client, redisUp>>
        /\ file' = tmp /\ tmp' = NoFile /\ tmp # NoFile
        /\ thread' = [thread EXCEPT ![t].at = IF client THEN "cache" ELSE "saved"]
    BY DEF ReplaceFile, redisVars, processVars
  <1>3. /\ up /\ mem # Absent /\ thread[t].payload = mem
        /\ content[tmp] = mem /\ (client <=> configured)
    BY DEF StoreInvariant, Persisting, ReplaceFile, Connected
  <1>4. /\ thread'[t].at = IF client THEN "cache" ELSE "saved"
        /\ thread'[t].payload = mem
    BY <1>1, <1>2, <1>3, PlaceTyped DEF Places
  <1>5. Readable(file)' = mem /\ content'[file'] = mem /\ mem > 0
    BY <1>1, <1>2, <1>3, StoreNumbers DEF Readable, Absent
  <1>6. NothingInvented' /\ NothingLost'
    BY <1>2, <1>3, <1>5 DEF StoreInvariant, NothingInvented, NothingLost
  <1>7. Connected' /\ FileIsWhole' /\ (tmp # NoFile => tmp # file)'
    BY <1>2, <1>5 DEF StoreInvariant, Connected, FileIsWhole
  <1>8. \A u \in Threads : Persisting(u)'
    BY <1>2, <1>3, <1>4, <1>5 DEF OneSteadyThread, Persisting
  <1> QED BY <1>1, <1>6, <1>7, <1>8 DEF StoreInvariant

LEMMA CacheStep ==
    ASSUME OneSteadyThread, StoreInvariant, NEW t \in Threads, CacheBlob(t) \/ AddToIndex(t)
    PROVE  StoreInvariant'
  <1>1. TypeOK' /\ TypeOK
    BY MovesTyped DEF StoreInvariant
  <1>2. /\ UNCHANGED <<issued, saved, mem, content, file, tmp, configured, up, client, redisUp>>
    BY DEF CacheBlob, AddToIndex, fileVars, processVars
  <1>3. /\ up /\ mem # Absent /\ thread[t].payload = mem /\ configured
        /\ Readable(file) = mem
    BY DEF StoreInvariant, Persisting, CacheBlob, AddToIndex
  <1>4. redis' = mem
    BY <1>3 DEF StoreInvariant, Persisting, CacheBlob, AddToIndex
  <1>5. PICK p \in {"index", "saved"} : thread' = [thread EXCEPT ![t].at = p]
    BY DEF CacheBlob, AddToIndex
  <1>6. thread'[t].at = p /\ thread'[t].payload = mem
    BY <1>1, <1>3, <1>5, PlaceTyped DEF Places
  <1>7. Readable(file)' = Readable(file)
    BY <1>2 DEF Readable
  <1>8. NothingInvented' /\ NothingLost'
    BY <1>2, <1>3, <1>4, <1>7 DEF StoreInvariant, NothingInvented, NothingLost
  <1>9. Connected' /\ FileIsWhole' /\ (tmp # NoFile => tmp # file)'
    BY <1>2 DEF StoreInvariant, Connected, FileIsWhole
  <1>10. \A u \in Threads : Persisting(u)'
    BY <1>2, <1>3, <1>4, <1>6, <1>7 DEF OneSteadyThread, Persisting
  <1> QED BY <1>1, <1>8, <1>9, <1>10 DEF StoreInvariant

\* What a client is told is saved is in the file and, if there is one, in Redis.
LEMMA EndStep ==
    ASSUME OneSteadyThread, StoreInvariant, NEW t \in Threads, Answer(t) \/ SwallowError(t)
    PROVE  StoreInvariant'
  <1>1. TypeOK' /\ TypeOK /\ thread'[t] = Idle
    BY EndsTyped DEF StoreInvariant
  <1>2. UNCHANGED <<issued, mem, redis, content, file, tmp, configured, up, client, redisUp>>
    BY DEF Answer, SwallowError, redisVars, fileVars, processVars
  <1>3. Readable(file)' = Readable(file)
    BY <1>2 DEF Readable
  <1>4. ASSUME Answer(t) PROVE NothingInvented' /\ NothingLost'
    <2>1. /\ mem # Absent /\ thread[t].payload = mem /\ Readable(file) = mem
          /\ configured => redis = mem
      BY <1>4 DEF StoreInvariant, Persisting, Answer
    <2>2. saved' = mem
      BY <1>1, <1>4, <2>1, StoreNumbers DEF Answer, Bigger, StoreInvariant, NothingLost
    <2> QED BY <1>1, <1>2, <1>3, <2>1, <2>2, StoreNumbers DEF StoreInvariant, NothingInvented, NothingLost
  <1>5. ASSUME SwallowError(t) PROVE NothingInvented' /\ NothingLost'
    <2>1. saved' = saved
      BY <1>5 DEF SwallowError
    <2> QED BY <1>2, <1>3, <2>1 DEF StoreInvariant, NothingInvented, NothingLost
  <1>6. NothingInvented' /\ NothingLost'
    BY <1>4, <1>5
  <1>7. Connected' /\ FileIsWhole' /\ (tmp # NoFile => tmp # file)'
    BY <1>2 DEF StoreInvariant, Connected, FileIsWhole
  <1>8. \A u \in Threads : Persisting(u)'
    BY <1>1 DEF OneSteadyThread, Persisting, Idle
  <1> QED BY <1>1, <1>6, <1>7, <1>8 DEF StoreInvariant

\* The process and Redis come and go, and what a process loads was saved.
LEMMA ProcessStep ==
    ASSUME OneSteadyThread, StoreInvariant,
           Crash \/ Start \/ RedisComesOrGoes \/ \E t \in Threads : LazyLoad(t)
    PROVE  StoreInvariant'
  <1>1. TypeOK' /\ TypeOK
    BY ProcessTyped DEF StoreInvariant
  <1>2. UNCHANGED <<issued, saved, redis, indexed, content, file, tmp, configured>>
    BY DEF Crash, Start, RedisComesOrGoes, LazyLoad, redisVars, fileVars, processVars
  <1>3. Readable(file)' = Readable(file)
    BY <1>2 DEF Readable
  <1>4. FileIsWhole' /\ (tmp # NoFile => tmp # file)'
    BY <1>2 DEF StoreInvariant, FileIsWhole
  <1>5. mem' \in {mem, Absent, redis, Readable(file)}
    BY DEF Crash, Start, RedisComesOrGoes, LazyLoad, Recoverable
  <1>6. NothingInvented' /\ NothingLost'
    BY <1>1, <1>2, <1>3, <1>5, StoreNumbers DEF StoreInvariant, NothingInvented, NothingLost, Absent
  <1>7. Connected'
    <2>1. CASE Crash
      BY <1>2, <2>1 DEF StoreInvariant, Connected, Crash
    <2>2. CASE Start
      BY <1>2, <2>2 DEF OneSteadyThread, StoreInvariant, Connected, Start
    <2>3. CASE RedisComesOrGoes
      BY <1>2, <2>3 DEF StoreInvariant, Connected, RedisComesOrGoes
    <2>4. CASE \E t \in Threads : LazyLoad(t)
      BY <1>2, <2>4 DEF StoreInvariant, Connected, LazyLoad, processVars
    <2> QED BY <2>1, <2>2, <2>3, <2>4
  <1>8. \A u \in Threads : Persisting(u)'
    <2>1. CASE Crash
      BY <2>1 DEF Crash, Persisting, Idle
    <2>2. CASE Start
      <3>1. ASSUME NEW u \in Threads PROVE thread'[u].at = "idle"
        <4>1. thread[u].at = "idle"
          BY <2>2 DEF StoreInvariant, Persisting, Start
        <4> QED BY <2>2, <4>1 DEF Start
      <3> QED BY <3>1 DEF Persisting
    <2>3. CASE RedisComesOrGoes
      BY <1>2, <1>3, <2>3 DEF RedisComesOrGoes, StoreInvariant, Persisting
    <2>4. ASSUME NEW t \in Threads, LazyLoad(t) PROVE \A u \in Threads : Persisting(u)'
      BY <2>4 DEF LazyLoad, Idle, OneSteadyThread, Persisting
    <2> QED BY <2>1, <2>2, <2>3, <2>4
  <1> QED BY <1>1, <1>4, <1>6, <1>7, <1>8 DEF StoreInvariant

LEMMA StoreStep == ASSUME OneSteadyThread, StoreInvariant, [Next]_vars PROVE StoreInvariant'
  <1>1. CASE Crash \/ Start \/ RedisComesOrGoes
    BY <1>1, ProcessStep
  <1>2. ASSUME NEW t \in Threads, Change(t) \/ Read(t) \/ LazyLoad(t) \/ Persist(t)
        PROVE  StoreInvariant'
    BY <1>2, ChangeStep, SerializeStep, OpenStep, WriteStep, ReplaceStep, CacheStep, EndStep,
       ProcessStep DEF Persist
  <1>3. CASE UNCHANGED vars
    <2>1. TypeOK'
      BY <1>3, TypeStep DEF StoreInvariant
    <2>2. UNCHANGED <<issued, saved, mem, thread, redis, content, file, tmp, configured, up,
                      client, redisUp>>
      BY <1>3 DEF vars, redisVars, fileVars, processVars
    <2>3. Readable(file)' = Readable(file)
      BY <2>2 DEF Readable
    <2> QED BY <2>1, <2>2, <2>3 DEF StoreInvariant, NothingInvented, NothingLost, Connected,
                                    FileIsWhole, Persisting
  <1> QED BY <1>1, <1>2, <1>3 DEF Next

-----------------------------------------------------------------------------
(* The theorems *)

\* The inductive invariant of a session one thread persists.
THEOREM StoreStaysSound == ASSUME OneSteadyThread PROVE Spec => []StoreInvariant
  <1>1. StoreInvariant /\ [Next]_vars => StoreInvariant'
    BY StoreStep
  <1> QED BY <1>1, InitStore, PTL DEF Spec

\* What was persisted before its client was told of it is found after every
\* restart, wherever the process crashed and whatever error was swallowed
\* (_persist_session, _load_persisted_sessions).
THEOREM SavedIsNeverLost == ASSUME OneSteadyThread PROVE Spec => []SavedSurvives
  <1>1. StoreInvariant => SavedSurvives
    BY StoreNumbers DEF StoreInvariant, NothingLost, SavedSurvives, Recoverable
  <1> QED BY <1>1, StoreStaysSound, PTL

\* The session file always parses (_persist_session).
THEOREM FileStaysWhole == ASSUME OneSteadyThread PROVE Spec => []FileIsWhole
  <1>1. StoreInvariant => FileIsWhole
    BY DEF StoreInvariant
  <1> QED BY <1>1, StoreStaysSound, PTL

\* No process serves less than what was saved (get_session).
THEOREM NothingStaleIsServed == ASSUME OneSteadyThread PROVE Spec => []ServesSaved
  <1>1. StoreInvariant => ServesSaved
    BY StoreNumbers DEF StoreInvariant, NothingLost, ServesSaved
  <1> QED BY <1>1, StoreStaysSound, PTL

=============================================================================
