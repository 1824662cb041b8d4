-------------------------- MODULE ModelCalls_proofs -------------------------
(***************************************************************************)
(* Proofs about ModelCalls for any number of threads, jobs, models, keys   *)
(* and cache entries: what a result says of who wrote it is true, and in   *)
(* strict mode a result that rules wrote is none a user must not be given. *)
(***************************************************************************)
EXTENDS ModelCalls, SequenceTheorems, FiniteSetTheorems, TLAPS

-----------------------------------------------------------------------------
(* The inductive invariant *)

\* What a model may have answered, usable or not.
Written == {"good", "malformed", "blank"}

Wrote(text, mode) == mode \in {Live, Template} /\ (mode = Live => text \in Written)

\* A text a handler works on: strict mode leaves none but a model's.
Honest(text, mode) == Wrote(text, mode) /\ (Strict => mode = Live)

\* A text with its final label; a blank answer has been padded by then.
Signed(text, label) == label = Live => text \in {"good", "malformed", Padded}

\* What strict mode lets rules answer, and under which label.
Told(job, text, label) ==
    Strict /\ text = Rules => job \notin {"code", "behavior"} /\ label # Live

Fields == {"at", "job", "task", "text", "mode", "draft", "draftMode", "label", "alone"}

\* Where a job has no label yet.
Unlabelled == {"invoke", "send", "rotate", "exhausted", "count", "counting", "use"}

\* The text of a call is honest from the answer on, the draft of a strategy
\* as far as it has one, and the result of every job but a news summary is
\* rightly labelled, also where strict mode lets rules answer.
Truthful(th) ==
    /\ Fields \subseteq DOMAIN th
    /\ th.at \in {"count", "counting"} /\ th.task # "analysis" => Honest(th.text, th.mode)
    /\ th.at \in {"store", "trim"} /\ th.label = "none" => Honest(th.text, th.mode)
    /\ th.at = "use" => Honest(th.text, th.mode)
    /\ Wrote(th.draft, th.draftMode)
    /\ Strict => th.draft # Rules
    /\ th.at \in Unlabelled => th.label = "none"
    /\ th.at \in {"store", "trim", "done"} /\ th.job # "news" => Signed(th.text, th.label)
    /\ th.at \in {"store", "trim", "done"} => Told(th.job, th.text, th.label)

TruthfulEntry(e) ==
    /\ e.key[1] = "text" => Honest(e.text, e.mode)
    /\ e.key[1] = "result" /\ e.key[2] # "news" => Signed(e.text, e.mode)
    /\ e.key[1] = "result" => Told(e.key[2], e.text, e.mode)
    /\ e.key[1] \in {"text", "result"}

TruthInvariant ==
    /\ cache \in Seq(Range(cache))
    /\ \A e \in Range(cache) : TruthfulEntry(e)
    /\ DOMAIN thread = Threads
    /\ \A t \in Threads : Truthful(thread[t])

LEMMA InitTruth == Init => TruthInvariant
  BY DEF Init, TruthInvariant, Range, Truthful, Told, Rules, NoText, Unlabelled, Fields, Idle, Honest, Wrote, Signed, Live, Template

-----------------------------------------------------------------------------
(* The cache *)

LEMMA CacheSetRange ==
    ASSUME cache \in Seq(Range(cache)), NEW key, NEW entry, CacheSet(key, entry)
    PROVE  /\ cache' \in Seq(Range(cache'))
           /\ Range(cache') \subseteq Range(cache) \cup {entry}
  <1> DEFINE S == Range(cache) \cup {entry}
  <1>1. cache \in Seq(S) /\ entry \in S
    OBVIOUS
  <1> HIDE DEF S
  <1>2. cache' \in Seq(S)
    BY <1>1 DEF CacheSet
  <1>3. Range(cache') \subseteq S /\ cache' \in Seq(Range(cache'))
    BY <1>2 DEF Range
  <1> QED BY <1>3 DEF S

LEMMA TailRange ==
    ASSUME NEW s, s \in Seq(Range(s)), s # <<>>
    PROVE  Tail(s) \in Seq(Range(Tail(s))) /\ Range(Tail(s)) \subseteq Range(s)
  <1> DEFINE S == Range(s)
  <1> HIDE DEF S
  <1>1. s \in Seq(S)
    BY DEF S
  <1> DEFINE rest == Tail(s)
  <1>2. rest \in Seq(S)
    BY <1>1
  <1> HIDE DEF rest
  <1>3. Range(rest) \subseteq S /\ rest \in Seq(Range(rest))
    BY <1>2 DEF Range
  <1> QED BY <1>3 DEF S, rest

-----------------------------------------------------------------------------
(* Threads *)

\* A thread is changed in some of its fields, the others stay.
LEMMA BecomeMerges ==
    ASSUME NEW t \in Threads, DOMAIN thread = Threads, NEW fields, Become(t, fields)
    PROVE  /\ DOMAIN thread' = Threads
           /\ thread'[t] = With(fields, thread[t])
           /\ \A u \in Threads \ {t} : thread'[u] = thread[u]
  BY DEF Become

LEMMA WithFields ==
    ASSUME NEW f, NEW r
    PROVE  /\ DOMAIN With(f, r) = DOMAIN f \cup DOMAIN r
           /\ \A x \in DOMAIN f : With(f, r)[x] = f[x]
           /\ \A x \in DOMAIN r \ DOMAIN f : With(f, r)[x] = r[x]
  BY DEF With

\* A step of one thread keeps the invariant if it keeps its own part and the
\* cache.
LEMMA StepKeepsTruth ==
    ASSUME TruthInvariant, setup' = setup, NEW t \in Threads, NEW fields, Become(t, fields),
           Truthful(With(fields, thread[t])),
           cache' \in Seq(Range(cache')), \A e \in Range(cache') : TruthfulEntry(e)
    PROVE  TruthInvariant'
  <1>1. /\ DOMAIN thread' = Threads
        /\ thread'[t] = With(fields, thread[t])
        /\ \A u \in Threads \ {t} : thread'[u] = thread[u]
    BY BecomeMerges DEF TruthInvariant
  <1>2. \A u \in Threads : Truthful(thread'[u])
    BY <1>1 DEF TruthInvariant
  <1>3. Strict' = Strict
    BY DEF Strict
  <1> QED BY <1>1, <1>2, <1>3 DEF TruthInvariant, Truthful, TruthfulEntry, Told, Honest

\* Most steps leave the cache alone.
LEMMA ThreadKeepsTruth ==
    ASSUME TruthInvariant, setup' = setup, cache' = cache, NEW t \in Threads, NEW fields,
           Become(t, fields), Truthful(With(fields, thread[t]))
    PROVE  TruthInvariant'
  BY StepKeepsTruth DEF TruthInvariant

\* A call without an answer: it falls back, is answered by rules, or raises.
LEMMA RefuseKeepsTruth ==
    ASSUME TruthInvariant, setup' = setup, cache' = cache, NEW t \in Threads, Refuse(t),
           thread[t].at \in Unlabelled
    PROVE  TruthInvariant'
  <1>1. Truthful(thread[t]) /\ thread[t].label = "none"
    BY DEF TruthInvariant, Truthful, Told
  <1>2. CASE ~Strict /\ BecomeDone(t, [at |-> "count", text |-> Rules, mode |-> FallbackMode])
    <2> DEFINE f == With([at |-> "count", text |-> Rules, mode |-> FallbackMode], NoCall)
    <2>1. Truthful(With(f, thread[t]))
      BY <1>1, <1>2 DEF With, NoCall, Truthful, Told, Unlabelled, Fields, Honest, Wrote, Signed, FallbackMode, Live, Template
    <2> QED BY <1>2, <2>1, ThreadKeepsTruth DEF BecomeDone
  <1>3. CASE /\ thread[t].job = "spec"
             /\ BecomeDone(t, [at |-> "done", text |-> Rules, label |-> RuleBased])
    <2> DEFINE f == With([at |-> "done", text |-> Rules, label |-> RuleBased], NoCall)
    <2>1. Truthful(With(f, thread[t]))
      BY <1>1, <1>3 DEF With, NoCall, Truthful, Told, Rules, NoText, Unlabelled, Fields, Honest, Wrote, Signed, RuleBased, Live
    <2> QED BY <1>3, <2>1, ThreadKeepsTruth DEF BecomeDone
  <1>4. CASE Become(t, Idle)
    <2>1. Truthful(With(Idle, thread[t]))
      BY DEF With, Idle, Truthful, Told, Rules, NoText, Unlabelled, Fields, Honest, Wrote, Signed, Live, Template
    <2> QED BY <1>4, <2>1, ThreadKeepsTruth
  <1> QED BY <1>2, <1>3, <1>4 DEF Refuse

-----------------------------------------------------------------------------
(* The steps of a job *)

\* A job that begins has no text yet, one that finds its result cached has
\* what was stored under its own key.
LEMMA BeginKeepsTruth ==
    ASSUME TruthInvariant, NEW t \in Threads, Begin(t)
    PROVE  TruthInvariant'
  <1>1. UNCHANGED <<setup, cache>>
    BY DEF Begin
  <1>2. PICK job \in Jobs, req \in Requests \cup {0} :
            LET fresh == [Idle EXCEPT !.job = job, !.task = FirstTask(job), !.mode = RequestedMode,
                                     !.req = IF job = "news" THEN jobs + 1 ELSE req]
                hit == CacheGet(ResultKey(job, fresh.req))
            IN  IF hit = {}
                THEN Become(t, [fresh EXCEPT !.at = IF job = "code" THEN "count" ELSE "invoke"])
                ELSE \E e \in hit :
                         Become(t, [fresh EXCEPT !.at = "done", !.text = e.text, !.label = e.mode])
    BY DEF Begin
  <1> DEFINE fresh == [Idle EXCEPT !.job = job, !.task = FirstTask(job), !.mode = RequestedMode,
                                  !.req = IF job = "news" THEN jobs + 1 ELSE req]
             hit == CacheGet(ResultKey(job, fresh.req))
             begun == [fresh EXCEPT !.at = IF job = "code" THEN "count" ELSE "invoke"]
             found(e) == [fresh EXCEPT !.at = "done", !.text = e.text, !.label = e.mode]
  <1>3. CASE Become(t, begun)
    <2>1. /\ Fields \subseteq DOMAIN begun
          /\ begun.at = "invoke" \/ (begun.at = "count" /\ begun.task = "analysis")
          /\ begun.draft = NoText /\ begun.draftMode = Template /\ begun.label = "none"
      BY DEF Fields, Idle, FirstTask
    <2> HIDE DEF begun
    <2>2. Truthful(With(begun, thread[t]))
      BY <2>1 DEF With, Truthful, Told, Rules, NoText, Unlabelled, Fields, Wrote, Live, Template
    <2> QED BY <1>1, <1>3, <2>2, ThreadKeepsTruth
  <1>4. CASE \E e \in hit : Become(t, found(e))
    <2>1. PICK e \in hit : Become(t, found(e))
      BY <1>4
    <2>2. e \in Range(cache) /\ e.key = ResultKey(job, fresh.req)
      BY <2>1 DEF CacheGet, Held
    <2>3. (job # "news" => Signed(e.text, e.mode)) /\ Told(job, e.text, e.mode)
      BY <2>2 DEF ResultKey, TruthInvariant, TruthfulEntry, Told
    <2>4. /\ Fields \subseteq DOMAIN found(e)
          /\ found(e).at = "done" /\ found(e).job = job
          /\ found(e).text = e.text /\ found(e).label = e.mode
          /\ found(e).draft = NoText /\ found(e).draftMode = Template
      BY DEF Fields, Idle
    <2> HIDE DEF found
    <2>5. Truthful(With(found(e), thread[t]))
      BY <2>3, <2>4 DEF With, Truthful, Told, Rules, NoText, Unlabelled, Fields, Wrote, Live, Template
    <2> QED BY <1>1, <2>1, <2>5, ThreadKeepsTruth
  <1> QED BY <1>2, <1>3, <1>4

\* A text found in the cache is as honest as when it was stored.
LEMMA InvokeKeepsTruth ==
    ASSUME TruthInvariant, NEW t \in Threads, Invoke(t)
    PROVE  TruthInvariant'
  <1>1. UNCHANGED <<setup, cache>>
    BY DEF Invoke
  <1>2. Truthful(thread[t]) /\ thread[t].label = "none"
    BY DEF TruthInvariant, Truthful, Told, Unlabelled, Invoke, At
  <1>3. CASE Refuse(t)
    BY <1>1, <1>3, RefuseKeepsTruth DEF Invoke, At, Unlabelled
  <1>4. CASE Become(t, [at |-> "send", model |-> 1, attempt |-> 1, key |-> cursor,
                        tried |-> {}, alone |-> TRUE])
    <2> DEFINE f == [at |-> "send", model |-> 1, attempt |-> 1, key |-> cursor,
                     tried |-> {}, alone |-> TRUE]
    <2>1. Truthful(With(f, thread[t]))
      BY <1>2 DEF With, Truthful, Told, Unlabelled, Fields
    <2> QED BY <1>1, <1>4, <2>1, ThreadKeepsTruth
  <1>5. CASE \E e \in CacheGet(TextKey(thread[t].task, thread[t].req)) :
                 Become(t, [at |-> "use", text |-> e.text, mode |-> e.mode])
    <2>1. PICK e \in CacheGet(TextKey(thread[t].task, thread[t].req)) :
              Become(t, [at |-> "use", text |-> e.text, mode |-> e.mode])
      BY <1>5
    <2>2. Honest(e.text, e.mode)
      BY <2>1 DEF CacheGet, Held, TextKey, TruthInvariant, TruthfulEntry, Told
    <2> DEFINE f == [at |-> "use", text |-> e.text, mode |-> e.mode]
    <2>3. Truthful(With(f, thread[t]))
      BY <1>2, <2>2 DEF With, Truthful, Told, Unlabelled, Fields
    <2> QED BY <1>1, <2>1, <2>3, ThreadKeepsTruth
  <1> QED BY <1>3, <1>4, <1>5 DEF Invoke

\* What a model answers is honest.
LEMMA AnsweredKeepsTruth ==
    ASSUME TruthInvariant, NEW t \in Threads, Answered(t)
    PROVE  TruthInvariant'
  <1>1. PICK text \in Answers(thread[t].task) :
            BecomeDone(t, [at |-> "count", text |-> text, mode |-> Live, model |-> thread[t].model])
    BY DEF Answered
  <1>2. text \in Written
    BY DEF Answers, Written
  <1> DEFINE f == With([at |-> "count", text |-> text, mode |-> Live, model |-> thread[t].model], NoCall)
  <1>3. Truthful(With(f, thread[t]))
    BY <1>2 DEF Answered, At, With, NoCall, Truthful, Told, Unlabelled, Fields, Honest, Wrote, TruthInvariant
  <1> QED BY <1>1, <1>3, ThreadKeepsTruth DEF Answered, BecomeDone

LEMMA FailedKeepsTruth ==
    ASSUME TruthInvariant, NEW t \in Threads, Failed(t) \/ Exhausted(t)
    PROVE  TruthInvariant'
  BY RefuseKeepsTruth DEF Failed, Exhausted, At, Unlabelled

LEMMA RateLimitedKeepsTruth ==
    ASSUME TruthInvariant, NEW t \in Threads, RateLimited(t)
    PROVE  TruthInvariant'
  <1>1. UNCHANGED <<setup, cache>>
    BY DEF RateLimited
  <1>2. Truthful(thread[t]) /\ thread[t].at = "send"
    BY DEF TruthInvariant, RateLimited, At
  <1> DEFINE next  == thread[t].model + 1
             again == [at |-> "rotate", seen |-> cursor, tried |-> Tried(t)]
             other == [model |-> next, attempt |-> 1, key |-> cursor, tried |-> Tried(t)]
             last  == [at |-> "exhausted", tried |-> Tried(t)]
  <1>3. \E f \in {again, other, last} : Become(t, f)
    BY DEF RateLimited
  <1>4. Truthful(With(again, thread[t])) /\ Truthful(With(other, thread[t]))
        /\ Truthful(With(last, thread[t]))
    BY <1>2 DEF With, Truthful, Told, Unlabelled, Fields
  <1> QED BY <1>1, <1>3, <1>4, ThreadKeepsTruth

\* A rotation touches nothing a text or a label depends on, of any thread.
LEMMA RotateKeepsTruth ==
    ASSUME TruthInvariant, NEW t \in Threads, Rotate(t)
    PROVE  TruthInvariant'
  <1>1. UNCHANGED <<setup, cache>> /\ DOMAIN thread' = Threads
    BY DEF Rotate
  <1>2. ASSUME NEW u \in Threads PROVE Truthful(thread'[u])
    <2>1. Truthful(thread[u])
      BY DEF TruthInvariant
    <2>2. CASE u = t
      <3>1. thread'[t] = [thread[t] EXCEPT !.at = "send", !.key = cursor', !.attempt = @ + 1, !.seen = 0]
        BY DEF Rotate
      <3> QED BY <2>1, <2>2, <3>1 DEF Rotate, At, Truthful, Told, Unlabelled, Fields
    <2>3. CASE u # t
      <3>1. thread'[u] = [thread[u] EXCEPT !.alone = FALSE]
        BY <2>3 DEF Rotate
      <3> QED BY <2>1, <3>1 DEF Truthful, Told, Unlabelled, Fields
    <2> QED BY <2>2, <2>3
  <1>3. Strict' = Strict
    BY <1>1 DEF Strict
  <1> QED BY <1>1, <1>2, <1>3 DEF TruthInvariant, Truthful, TruthfulEntry, Told, Honest

\* Counting a call leaves its text alone.
LEMMA CountKeepsTruth ==
    ASSUME TruthInvariant, NEW t \in Threads, ReadCount(t) \/ WriteCount(t)
    PROVE  TruthInvariant'
  <1>1. UNCHANGED <<setup, cache>>
    BY DEF ReadCount, WriteCount
  <1>2. Truthful(thread[t])
    BY DEF TruthInvariant
  <1>3. CASE ReadCount(t)
    <2> DEFINE f == [at |-> "counting", seen |-> usage[Bucket(t)].calls]
    <2>1. Truthful(With(f, thread[t]))
      BY <1>2, <1>3 DEF ReadCount, At, With, Truthful, Told, Unlabelled, Fields
    <2> QED BY <1>1, <1>3, <2>1, ThreadKeepsTruth DEF ReadCount
  <1>4. CASE WriteCount(t)
    <2>1. At(t, "counting") /\ BecomeDone(t, AfterCount(t))
      BY <1>4 DEF WriteCount
    <2>2. CASE AfterCount(t) = [at |-> "invoke", task |-> "codegen"]
      <3> DEFINE f == With([at |-> "invoke", task |-> "codegen"], NoCall)
      <3>1. Truthful(With(f, thread[t]))
        BY <1>2, <2>1 DEF At, With, NoCall, Truthful, Told, Unlabelled, Fields
      <3> QED BY <1>1, <2>1, <2>2, <3>1, ThreadKeepsTruth DEF BecomeDone
    <2>3. CASE thread[t].task # "analysis" /\ AfterCount(t) = [at |-> "store"]
      <3> DEFINE f == With([at |-> "store"], NoCall)
      <3>1. Truthful(With(f, thread[t]))
        BY <1>2, <2>1, <2>3 DEF At, With, NoCall, Truthful, Told, Honest, Wrote, Written, Rules, Unlabelled, Fields, Signed, Live
      <3> QED BY <1>1, <2>1, <2>3, <3>1, ThreadKeepsTruth DEF BecomeDone
    <2>4. CASE thread[t].task # "analysis" /\ AfterCount(t) = [at |-> "use"]
      <3> DEFINE f == With([at |-> "use"], NoCall)
      <3>1. Truthful(With(f, thread[t]))
        BY <1>2, <2>1, <2>4 DEF At, With, NoCall, Truthful, Told, Unlabelled, Fields
      <3> QED BY <1>1, <2>1, <2>4, <3>1, ThreadKeepsTruth DEF BecomeDone
    <2> QED BY <2>2, <2>3, <2>4 DEF AfterCount, CachedTasks
  <1> QED BY <1>3, <1>4

\* What is stored keeps its honesty: a text with its mode, a result with its
\* label.
LEMMA StoreKeepsTruth ==
    ASSUME TruthInvariant, NEW t \in Threads, Store(t)
    PROVE  TruthInvariant'
  <1> DEFINE th == thread[t]
  <1>1. Truthful(th) /\ th.at = "store" /\ setup' = setup /\ Become(t, [at |-> "trim"])
    BY DEF TruthInvariant, Store, At
  <1>2. Truthful(With([at |-> "trim"], th))
    BY <1>1 DEF With, Truthful, Told, Unlabelled, Fields
  <1>3. CASE /\ th.label = "none"
             /\ CacheSet(TextKey(th.task, th.req), Entry(TextKey(th.task, th.req), th.text, th.mode))
    <2> DEFINE entry == Entry(TextKey(th.task, th.req), th.text, th.mode)
    <2>1. TruthfulEntry(entry)
      BY <1>1, <1>3 DEF Entry, TextKey, TruthfulEntry, Truthful, Told
    <2> HIDE DEF entry
    <2>2. cache' \in Seq(Range(cache')) /\ Range(cache') \subseteq Range(cache) \cup {entry}
      BY <1>3, CacheSetRange DEF entry, TruthInvariant
    <2>3. \A e \in Range(cache') : TruthfulEntry(e)
      BY <2>1, <2>2 DEF TruthInvariant
    <2> QED BY <1>1, <1>2, <2>2, <2>3, StepKeepsTruth
  <1>4. CASE CacheSet(ResultKey(th.job, th.req), Entry(ResultKey(th.job, th.req), th.text, th.label))
    <2> DEFINE entry == Entry(ResultKey(th.job, th.req), th.text, th.label)
    <2>1. TruthfulEntry(entry)
      BY <1>1 DEF Entry, ResultKey, TruthfulEntry, Truthful, Told
    <2> HIDE DEF entry
    <2>2. cache' \in Seq(Range(cache')) /\ Range(cache') \subseteq Range(cache) \cup {entry}
      BY <1>4, CacheSetRange DEF entry, TruthInvariant
    <2>3. \A e \in Range(cache') : TruthfulEntry(e)
      BY <2>1, <2>2 DEF TruthInvariant
    <2> QED BY <1>1, <1>2, <2>2, <2>3, StepKeepsTruth
  <1> QED BY <1>3, <1>4 DEF Store

\* Trimming only drops entries.
LEMMA TrimKeepsTruth ==
    ASSUME TruthInvariant, NEW t \in Threads, TrimCache(t)
    PROVE  TruthInvariant'
  <1>1. Truthful(thread[t]) /\ thread[t].at = "trim" /\ setup' = setup
    BY DEF TruthInvariant, TrimCache, At
  <1>2. cache' \in Seq(Range(cache')) /\ Range(cache') \subseteq Range(cache)
    <2>1. CASE cache' = cache
      BY <2>1 DEF TruthInvariant
    <2>2. CASE cache # <<>> /\ cache' = Tail(cache)
      BY <2>2, TailRange DEF TruthInvariant
    <2>3. CASE cache = <<>> /\ cache' = Tail(cache) /\ Len(cache) > CacheSize
      BY <2>3, CallsAssumption
    <2> QED BY <2>1, <2>2, <2>3 DEF TrimCache
  <1>3. \A e \in Range(cache') : TruthfulEntry(e)
    BY <1>2 DEF TruthInvariant
  <1>4. CASE UNCHANGED thread
    <2>1. Strict' = Strict
      BY <1>1 DEF Strict
    <2> QED BY <1>2, <1>3, <1>4, <2>1 DEF TruthInvariant, Truthful, TruthfulEntry, Told, Honest
  <1>5. CASE Become(t, [at |-> IF thread[t].label = "none" THEN "use" ELSE "done"])
    <2> DEFINE f == [at |-> IF thread[t].label = "none" THEN "use" ELSE "done"]
    <2>1. Truthful(With(f, thread[t]))
      BY <1>1 DEF With, Truthful, Told, Unlabelled, Fields
    <2> QED BY <1>1, <1>2, <1>3, <1>5, <2>1, StepKeepsTruth
  <1> QED BY <1>4, <1>5 DEF TrimCache

-----------------------------------------------------------------------------
(* The use of an answer *)

\* A job is finished with a text and a label.
LEMMA FinishKeepsTruth ==
    ASSUME TruthInvariant, setup' = setup, cache' = cache, NEW t \in Threads, NEW text, NEW label,
           Finish(t, text, label), label # "none",
           thread[t].job # "news" => Signed(text, label), Told(thread[t].job, text, label)
    PROVE  TruthInvariant'
  <1> DEFINE f == [text |-> text, label |-> label, draft |-> NoText, draftMode |-> Template,
                   mode |-> Template, again |-> FALSE,
                   at |-> IF thread[t].job \in {"code", "news"} /\ setup.caching THEN "store" ELSE "done"]
  <1>1. Truthful(thread[t])
    BY DEF TruthInvariant
  <1>2. f.at \in {"store", "done"}
    OBVIOUS
  <1>3. Truthful(With(f, thread[t]))
    BY <1>1, <1>2 DEF With, Truthful, Told, Rules, NoText, Unlabelled, Fields, Wrote, Live, Template
  <1> QED BY <1>3, ThreadKeepsTruth DEF Finish

\* The text of an analysis is used when it parses, which a rule-based one does
\* too, under the mode it was written in.
LEMMA UsableIsSigned ==
    ASSUME NEW t \in Threads, Honest(thread[t].text, thread[t].mode), Usable(t)
    PROVE  Signed(thread[t].text, thread[t].mode) /\ thread[t].mode # "none"
  BY DEF Honest, Wrote, Signed, Usable, Written, Rules, Live, Template

\* A model wrote it, or strict mode is off.
LEMMA HonestIsTold ==
    ASSUME NEW job, NEW text, NEW mode, Honest(text, mode)
    PROVE  Told(job, text, mode)
  BY DEF Honest, Wrote, Written, Told, Rules

\* A text built by rules is signed for what it is.
LEMMA RulesAreSigned == Signed(Rules, RuleBased) /\ RuleBased # "none" /\ Template # "none" /\ Live # "none"
  BY DEF Signed, RuleBased, Live, Template

LEMMA UseKeepsTruth ==
    ASSUME TruthInvariant, NEW t \in Threads, Use(t)
    PROVE  TruthInvariant'
  <1>1. UNCHANGED <<setup, cache>> /\ thread[t].at = "use"
    BY DEF Use, At
  <1>2. Truthful(thread[t]) /\ Honest(thread[t].text, thread[t].mode)
    BY <1>1 DEF TruthInvariant, Truthful, Told
  <1>3. CASE UseCode(t)
    <2>1. CASE Become(t, [at |-> "invoke", task |-> "critic", draft |-> thread[t].text,
                          draftMode |-> thread[t].mode])
      <3> DEFINE f == [at |-> "invoke", task |-> "critic", draft |-> thread[t].text,
                       draftMode |-> thread[t].mode]
      <3>1. Truthful(With(f, thread[t]))
        BY <1>1, <1>2 DEF With, Truthful, Told, Unlabelled, Fields, Honest, Wrote, Written, Rules
      <3> QED BY <1>1, <2>1, <3>1, ThreadKeepsTruth
    <2>2. CASE Finish(t, IF thread[t].draft = "blank" THEN Padded ELSE thread[t].draft,
                      thread[t].draftMode)
      <3>1. /\ Signed(IF thread[t].draft = "blank" THEN Padded ELSE thread[t].draft,
                      thread[t].draftMode)
            /\ thread[t].draftMode # "none"
        BY <1>2 DEF Truthful, Told, Wrote, Written, Signed, Live, Template
      <3>2. Told(thread[t].job, IF thread[t].draft = "blank" THEN Padded ELSE thread[t].draft,
                 thread[t].draftMode)
        BY <1>2 DEF Truthful, Told, Padded, Rules
      <3> QED BY <1>1, <2>2, <3>1, <3>2, FinishKeepsTruth
    <2> QED BY <1>3, <2>1, <2>2 DEF UseCode
  <1>4. CASE UseNews(t)
    <2>1. thread[t].job = "news"
      BY <1>4 DEF UseNews
    <2>2. PICK text, label : /\ Finish(t, text, label)
                             /\ \/ text = thread[t].text /\ label = Live
                                \/ text = Rules /\ label = Template
      BY <1>4 DEF UseNews
    <2>3. Told(thread[t].job, text, label) /\ label # "none"
      BY <1>2, <2>1, <2>2 DEF Told, Honest, Wrote, Written, Rules, Live, Template
    <2> QED BY <1>1, <2>1, <2>2, <2>3, FinishKeepsTruth
  <1>5. CASE UseAnalysis(t) \/ UseSpec(t)
    <2>1. /\ thread[t].job \in {"history", "spec"}
          /\ \/ Usable(t) /\ Finish(t, thread[t].text, thread[t].mode)
             \/ Finish(t, Rules, RuleBased)
      BY <1>5 DEF UseAnalysis, UseSpec
    <2>2. /\ Told(thread[t].job, Rules, RuleBased)
          /\ Told(thread[t].job, thread[t].text, thread[t].mode)
      BY <1>2, <2>1, HonestIsTold DEF Told, RuleBased, Live
    <2> QED BY <1>1, <1>2, <2>1, <2>2, UsableIsSigned, RulesAreSigned, FinishKeepsTruth
  <1>6. CASE UseBehavior(t)
    <2>1. CASE \/ Usable(t) /\ Finish(t, thread[t].text, thread[t].mode)
               \/ ~Strict /\ Finish(t, Rules, RuleBased)
      <3>1. /\ Told(thread[t].job, thread[t].text, thread[t].mode)
            /\ ~Strict => Told(thread[t].job, Rules, RuleBased)
        BY <1>2, HonestIsTold DEF Told
      <3> QED BY <1>1, <1>2, <2>1, <3>1, UsableIsSigned, RulesAreSigned, FinishKeepsTruth
    <2>2. CASE Become(t, [at |-> "invoke", again |-> TRUE])
      <3> DEFINE f == [at |-> "invoke", again |-> TRUE]
      <3>1. Truthful(With(f, thread[t]))
        BY <1>1, <1>2 DEF With, Truthful, Told, Unlabelled, Fields
      <3> QED BY <1>1, <2>2, <3>1, ThreadKeepsTruth
    <2>3. CASE Become(t, Idle)
      <3>1. Truthful(With(Idle, thread[t]))
        BY DEF With, Idle, Truthful, Told, Rules, NoText, Unlabelled, Fields, Wrote, Live, Template
      <3> QED BY <1>1, <2>3, <3>1, ThreadKeepsTruth
    <2> QED BY <1>6, <2>1, <2>2, <2>3 DEF UseBehavior
  <1> QED BY <1>3, <1>4, <1>5, <1>6 DEF Use

LEMMA ReturnKeepsTruth ==
    ASSUME TruthInvariant, NEW t \in Threads, Return(t)
    PROVE  TruthInvariant'
  <1>1. Truthful(With(Idle, thread[t]))
    BY DEF With, Idle, Truthful, Told, Rules, NoText, Unlabelled, Fields, Wrote, Live, Template
  <1> QED BY <1>1, ThreadKeepsTruth DEF Return

-----------------------------------------------------------------------------
(* The calls: which keys a call has tried, and how many threads have still *)
(* to trim the cache                                                       *)

Keys == 0 .. (setup.keys - 1)

\* The n keys before k in the order of the rotation.
Before(k, n) == {x \in Keys : \/ x < k /\ k - x <= n
                              \/ x > k /\ k + setup.keys - x <= n}

\* What a call has tried when it sends to a model, for the n+1st time, with key k.
TriedBefore(model, k, n) == ((1 .. (model - 1)) \X Keys) \cup ({model} \X Before(k, n))

CallFields == {"at", "task", "label", "model", "attempt", "key", "tried", "alone", "seen"}

\* A call has a model, a key and a turn; undisturbed, it is at the cursor and has been at
\* every model before and at every key between.
Calling(th) ==
    /\ CallFields \subseteq DOMAIN th
    /\ th.at \in Places
    /\ th.model \in 0 .. Models /\ th.attempt \in 0 .. setup.keys
    /\ th.at \in {"send", "rotate"} =>
           /\ th.model \in 1 .. Models /\ th.attempt \in 1 .. setup.keys
           /\ th.key \in Keys
           /\ th.alone => th.key = cursor
    /\ th.at = "rotate" =>
           /\ th.attempt < setup.keys /\ th.seen \in Keys
           /\ th.alone => th.seen = cursor
    /\ th.alone =>
           /\ th.at = "send" => th.tried = TriedBefore(th.model, th.key, th.attempt - 1)
           /\ th.at = "rotate" =>
                  th.tried = TriedBefore(th.model, th.key, th.attempt - 1)
                             \cup {<<th.model, th.key>>}
           /\ th.at = "exhausted" => th.tried = (1 .. Models) \X Keys

Trimming == {t \in Threads : At(t, "trim")}

CallsInvariant ==
    /\ setup \in Setups
    /\ cursor \in 0 .. MaxKeys
    /\ cursor = 0 \/ cursor < setup.keys
    /\ jobs \in 0 .. MaxJobs
    /\ DOMAIN thread = Threads
    /\ \A t \in Threads : Calling(thread[t])
    /\ cache \in Seq(Range(cache))
    /\ IsFiniteSet(Trimming)
    /\ Len(cache) <= CacheSize + Cardinality(Trimming)

\* A rotation goes to the next key, around.
LEMMA NextKeyIs ==
    ASSUME setup \in Setups, NEW k \in Keys
    PROVE  /\ NextKey(k) = IF k + 1 = setup.keys THEN 0 ELSE k + 1
           /\ NextKey(k) \in Keys
  <1>1. setup.keys \in Nat /\ setup.keys > 0 /\ k \in Nat /\ k < setup.keys
    BY CallsAssumption DEF Setups, Keys
  <1>2. ASSUME NEW K \in Nat, NEW i \in Nat, i < K
        PROVE  (i + 1) % K = IF i + 1 = K THEN 0 ELSE i + 1
    BY <1>2
  <1>3. NextKey(k) = IF k + 1 = setup.keys THEN 0 ELSE k + 1
    BY <1>1, <1>2 DEF NextKey
  <1> QED BY <1>1, <1>3 DEF Keys

\* The key a rotation leaves comes before the one it goes to.
LEMMA BeforeNext ==
    ASSUME setup \in Setups, NEW k \in Keys, NEW n \in Nat, n < setup.keys - 1
    PROVE  Before(NextKey(k), n + 1) = Before(k, n) \cup {k}
  <1>1. setup.keys \in Nat /\ k \in Nat /\ k < setup.keys
    BY CallsAssumption DEF Setups, Keys
  <1>2. CASE k + 1 = setup.keys
    <2>1. NextKey(k) = 0
      BY <1>2, NextKeyIs
    <2>2. \A x \in Keys : x \in Before(0, n + 1) <=> x \in Before(k, n) \/ x = k
      BY <1>1, <1>2 DEF Before, Keys
    <2> QED BY <2>1, <2>2 DEF Before
  <1>3. CASE k + 1 # setup.keys
    <2>1. NextKey(k) = k + 1
      BY <1>3, NextKeyIs
    <2>2. \A x \in Keys : x \in Before(k + 1, n + 1) <=> x \in Before(k, n) \/ x = k
      BY <1>1, <1>3 DEF Before, Keys
    <2> QED BY <2>1, <2>2 DEF Before
  <1> QED BY <1>2, <1>3

\* All the others come before a key.
LEMMA BeforeAll ==
    ASSUME setup \in Setups, NEW k \in Keys
    PROVE  Before(k, setup.keys - 1) \cup {k} = Keys /\ Before(k, 0) = {}
  BY CallsAssumption DEF Before, Keys, Setups

\* What a call has tried once it was refused at a key, before the next key or model.
LEMMA TriedOnward ==
    ASSUME setup \in Setups, NEW k \in Keys, NEW m \in 1 .. Models, NEW n \in 0 .. (setup.keys - 1)
    PROVE  /\ n < setup.keys - 1 =>
                  TriedBefore(m, k, n) \cup {<<m, k>>} = TriedBefore(m, NextKey(k), n + 1)
           /\ n = setup.keys - 1 =>
                  /\ TriedBefore(m, k, n) \cup {<<m, k>>} = (1 .. m) \X Keys
                  /\ \A j \in Keys :
                         TriedBefore(m, k, n) \cup {<<m, k>>} = TriedBefore(m + 1, j, 0)
  <1>1. TriedBefore(m, k, n) \cup {<<m, k>>}
            = ((1 .. (m - 1)) \X Keys) \cup ({m} \X (Before(k, n) \cup {k}))
    BY DEF TriedBefore
  <1>2. n \in Nat /\ m \in Nat /\ m > 0
    OBVIOUS
  <1>3. n < setup.keys - 1 => Before(k, n) \cup {k} = Before(NextKey(k), n + 1)
    BY <1>2, BeforeNext
  <1>4. n = setup.keys - 1 => Before(k, n) \cup {k} = Keys
    BY BeforeAll
  <1>5. ((1 .. (m - 1)) \X Keys) \cup ({m} \X Keys) = (1 .. m) \X Keys
    BY <1>2
  <1>6. \A j \in Keys : TriedBefore(m + 1, j, 0) = (1 .. m) \X Keys
    BY <1>2, BeforeAll DEF TriedBefore
  <1>7. n < setup.keys - 1 =>
            TriedBefore(m, k, n) \cup {<<m, k>>} = TriedBefore(m, NextKey(k), n + 1)
    BY <1>1, <1>3 DEF TriedBefore
  <1> QED BY <1>1, <1>4, <1>5, <1>6, <1>7

LEMMA InitCalls == Init => CallsInvariant
  <1> SUFFICES ASSUME Init PROVE CallsInvariant
    OBVIOUS
  <1>1. /\ cursor = 0 /\ jobs = 0 /\ cache = <<>> /\ thread = [t \in Threads |-> Idle]
        /\ setup \in Setups /\ setup.keys \in Nat
    BY CallsAssumption DEF Init, Setups
  <1>2. \A t \in Threads : Calling(thread[t])
    BY <1>1, CallsAssumption DEF Calling, CallFields, Idle, Places
  <1>3. Trimming = {}
    BY <1>1 DEF Trimming, At, Idle
  <1>4. IsFiniteSet(Trimming) /\ Len(cache) <= CacheSize + Cardinality(Trimming)
    BY <1>1, <1>3, FS_EmptySet, CallsAssumption
  <1>5. cache \in Seq(Range(cache))
    BY <1>1
  <1> QED BY <1>1, <1>2, <1>4, <1>5, CallsAssumption DEF CallsInvariant

\* A step of one thread that leaves the cursor where it is.
LEMMA StepKeepsCalls ==
    ASSUME CallsInvariant, UNCHANGED <<setup, cursor>>, jobs' \in 0 .. MaxJobs,
           NEW t \in Threads, NEW fields, Become(t, fields),
           Calling(With(fields, thread[t])),
           cache' \in Seq(Range(cache')),
           \/ /\ Len(cache') <= Len(cache)
              /\ thread[t].at = "trim" <=> With(fields, thread[t]).at = "trim"
           \/ /\ Len(cache') <= Len(cache) + 1
              /\ thread[t].at # "trim" /\ With(fields, thread[t]).at = "trim"
           \/ /\ Len(cache') <= CacheSize
              /\ thread[t].at = "trim" /\ With(fields, thread[t]).at # "trim"
    PROVE  CallsInvariant'
  <1> DEFINE th == With(fields, thread[t])
  <1>1. /\ DOMAIN thread' = Threads
        /\ thread'[t] = th
        /\ \A u \in Threads \ {t} : thread'[u] = thread[u]
    BY BecomeMerges DEF CallsInvariant
  <1> HIDE DEF th
  <1>2. \A u \in Threads : Calling(thread'[u])
    BY <1>1 DEF CallsInvariant, th
  <1>3. ASSUME NEW u \in Threads PROVE Calling(thread[u])'
    <2>1. Calling(thread'[u])
      BY <1>2
    <2> QED BY <2>1 DEF Calling, Keys, TriedBefore, Before
  <1>4. Trimming' \ {t} = Trimming \ {t} /\ (t \in Trimming <=> thread[t].at = "trim")
        /\ (t \in Trimming' <=> th.at = "trim")
    BY <1>1 DEF Trimming, At
  <1>5. /\ IsFiniteSet(Trimming) /\ Cardinality(Trimming) \in Nat
        /\ Len(cache) <= CacheSize + Cardinality(Trimming)
        /\ Len(cache) \in Nat /\ Len(cache') \in Nat /\ CacheSize \in Nat
    BY FS_CardinalityType, CallsAssumption DEF CallsInvariant
  <1>6. IsFiniteSet(Trimming') /\ Len(cache') <= CacheSize + Cardinality(Trimming')
    <2>1. CASE Len(cache') <= Len(cache) /\ (thread[t].at = "trim" <=> th.at = "trim")
      <3>1. \A u : u \in Trimming' <=> u \in Trimming
        BY <1>4, <2>1
      <3>2. Trimming' = Trimming
        BY <3>1
      <3> QED BY <1>5, <2>1, <3>2
    <2>2. CASE Len(cache') <= Len(cache) + 1 /\ thread[t].at # "trim" /\ th.at = "trim"
      <3>1. Trimming' = Trimming \cup {t} /\ t \notin Trimming
        BY <1>4, <2>2
      <3>2. IsFiniteSet(Trimming') /\ Cardinality(Trimming') = Cardinality(Trimming) + 1
        BY <1>5, <3>1, FS_AddElement
      <3> QED BY <1>5, <2>2, <3>2
    <2>3. CASE Len(cache') <= CacheSize /\ thread[t].at = "trim" /\ th.at # "trim"
      <3>1. Trimming' = Trimming \ {t}
        BY <1>4, <2>3
      <3>2. IsFiniteSet(Trimming') /\ Cardinality(Trimming') \in Nat
        BY <1>5, <3>1, FS_RemoveElement, FS_CardinalityType
      <3> QED BY <1>5, <2>3, <3>2
    <2> QED BY <2>1, <2>2, <2>3 DEF th
  <1> QED BY <1>1, <1>3, <1>6 DEF CallsInvariant

\* Most steps leave the cache alone.
LEMMA ThreadKeepsCalls ==
    ASSUME CallsInvariant, UNCHANGED <<setup, cursor, cache, jobs>>, NEW t \in Threads, NEW fields,
           Become(t, fields), Calling(With(fields, thread[t])),
           thread[t].at # "trim", With(fields, thread[t]).at # "trim"
    PROVE  CallsInvariant'
  <1>1. jobs \in 0 .. MaxJobs /\ cache \in Seq(Range(cache)) /\ Len(cache) \in Nat
    BY DEF CallsInvariant
  <1> QED BY <1>1, StepKeepsCalls

\* Where no call is under way, a thread's part of the invariant is its shape.
LEMMA CallingAtRest ==
    ASSUME setup \in Setups, NEW th, CallFields \subseteq DOMAIN th, th.at \in Places,
           th.at \notin {"send", "rotate", "exhausted"},
           th.model \in 0 .. Models, th.attempt \in 0 .. setup.keys
    PROVE  Calling(th)
  BY DEF Calling

\* The places that end a call reset its model, its turn and its key.
LEMMA RefuseKeepsCalls ==
    ASSUME CallsInvariant, UNCHANGED <<setup, cursor, cache, jobs>>, NEW t \in Threads, Refuse(t),
           thread[t].at # "trim"
    PROVE  CallsInvariant'
  <1>1. Calling(thread[t]) /\ setup \in Setups /\ setup.keys \in Nat
    BY CallsAssumption DEF CallsInvariant, Setups
  <1>2. CASE BecomeDone(t, [at |-> "count", text |-> Rules, mode |-> FallbackMode])
    <2> DEFINE f == With([at |-> "count", text |-> Rules, mode |-> FallbackMode], NoCall)
    <2>1. /\ CallFields \subseteq DOMAIN With(f, thread[t]) /\ With(f, thread[t]).at = "count"
          /\ With(f, thread[t]).model = 0 /\ With(f, thread[t]).attempt = 0
      BY <1>1 DEF With, NoCall, Calling, CallFields
    <2>2. Calling(With(f, thread[t]))
      BY <1>1, <2>1, CallingAtRest, CallsAssumption DEF Places
    <2> QED BY <1>2, <2>1, <2>2, ThreadKeepsCalls DEF BecomeDone
  <1>3. CASE BecomeDone(t, [at |-> "done", text |-> Rules, label |-> RuleBased])
    <2> DEFINE f == With([at |-> "done", text |-> Rules, label |-> RuleBased], NoCall)
    <2>1. /\ CallFields \subseteq DOMAIN With(f, thread[t]) /\ With(f, thread[t]).at = "done"
          /\ With(f, thread[t]).model = 0 /\ With(f, thread[t]).attempt = 0
      BY <1>1 DEF With, NoCall, Calling, CallFields
    <2>2. Calling(With(f, thread[t]))
      BY <1>1, <2>1, CallingAtRest, CallsAssumption DEF Places
    <2> QED BY <1>3, <2>1, <2>2, ThreadKeepsCalls DEF BecomeDone
  <1>4. CASE Become(t, Idle)
    <2>1. /\ CallFields \subseteq DOMAIN With(Idle, thread[t]) /\ With(Idle, thread[t]).at = "idle"
          /\ With(Idle, thread[t]).model = 0 /\ With(Idle, thread[t]).attempt = 0
      BY DEF With, Idle, CallFields
    <2>2. Calling(With(Idle, thread[t]))
      BY <1>1, <2>1, CallingAtRest, CallsAssumption DEF Places
    <2> QED BY <1>4, <2>1, <2>2, ThreadKeepsCalls
  <1> QED BY <1>2, <1>3, <1>4 DEF Refuse

-----------------------------------------------------------------------------
(* The steps of a call *)

\* A step to a place where no call is under way.
LEMMA RestKeepsCalls ==
    ASSUME CallsInvariant, UNCHANGED <<setup, cursor, cache>>, jobs' \in 0 .. MaxJobs,
           NEW t \in Threads, NEW fields, Become(t, fields), thread[t].at # "trim",
           CallFields \subseteq DOMAIN With(fields, thread[t]),
           With(fields, thread[t]).at \in Places \ {"send", "rotate", "exhausted", "trim"},
           With(fields, thread[t]).model \in 0 .. Models,
           With(fields, thread[t]).attempt \in 0 .. setup.keys
    PROVE  CallsInvariant'
  <1> DEFINE th == With(fields, thread[t])
  <1>1. setup \in Setups /\ cache \in Seq(Range(cache)) /\ Len(cache) \in Nat
    BY DEF CallsInvariant
  <1>2. Calling(th)
    BY <1>1, CallingAtRest
  <1> HIDE DEF th
  <1>3. th.at # "trim"
    BY DEF th
  <1> QED BY <1>1, <1>2, <1>3, StepKeepsCalls DEF th

LEMMA BeginKeepsCalls ==
    ASSUME CallsInvariant, NEW t \in Threads, Begin(t)
    PROVE  CallsInvariant'
  <1>0. /\ UNCHANGED <<setup, cursor, cache>> /\ jobs < MaxJobs /\ jobs' = jobs + 1
        /\ At(t, "idle")
    BY DEF Begin
  <1>1. /\ UNCHANGED <<setup, cursor, cache>> /\ jobs < MaxJobs /\ jobs' = jobs + 1
        /\ thread[t].at = "idle" /\ setup.keys \in Nat
    BY <1>0, CallsAssumption DEF At, CallsInvariant, Setups
  <1>2. jobs' \in 0 .. MaxJobs
    BY <1>1, CallsAssumption DEF CallsInvariant
  <1>3. PICK job \in Jobs, req \in Requests \cup {0} :
            LET fresh == [Idle EXCEPT !.job = job, !.task = FirstTask(job), !.mode = RequestedMode,
                                     !.req = IF job = "news" THEN jobs + 1 ELSE req]
                hit == CacheGet(ResultKey(job, fresh.req))
            IN  IF hit = {}
                THEN Become(t, [fresh EXCEPT !.at = IF job = "code" THEN "count" ELSE "invoke"])
                ELSE \E e \in hit :
                         Become(t, [fresh EXCEPT !.at = "done", !.text = e.text, !.label = e.mode])
    BY DEF Begin
  <1> DEFINE fresh == [Idle EXCEPT !.job = job, !.task = FirstTask(job), !.mode = RequestedMode,
                                  !.req = IF job = "news" THEN jobs + 1 ELSE req]
             begun == [fresh EXCEPT !.at = IF job = "code" THEN "count" ELSE "invoke"]
             found(e) == [fresh EXCEPT !.at = "done", !.text = e.text, !.label = e.mode]
  <1>4. CASE Become(t, begun)
    <2>1. /\ CallFields \subseteq DOMAIN begun /\ begun.at \in {"count", "invoke"}
          /\ begun.model = 0 /\ begun.attempt = 0
      BY DEF CallFields, Idle
    <2> HIDE DEF begun
    <2>2. /\ CallFields \subseteq DOMAIN With(begun, thread[t])
          /\ With(begun, thread[t]).at \in {"count", "invoke"}
          /\ With(begun, thread[t]).model = 0 /\ With(begun, thread[t]).attempt = 0
      BY <2>1 DEF With, CallFields
    <2> QED BY <1>1, <1>2, <1>4, <2>2, RestKeepsCalls, CallsAssumption DEF Places
  <1>5. CASE \E e : Become(t, found(e))
    <2>1. PICK e : Become(t, found(e))
      BY <1>5
    <2>2. /\ CallFields \subseteq DOMAIN found(e) /\ found(e).at = "done"
          /\ found(e).model = 0 /\ found(e).attempt = 0
      BY DEF CallFields, Idle
    <2> HIDE DEF found
    <2>3. /\ CallFields \subseteq DOMAIN With(found(e), thread[t])
          /\ With(found(e), thread[t]).at = "done"
          /\ With(found(e), thread[t]).model = 0 /\ With(found(e), thread[t]).attempt = 0
      BY <2>2 DEF With, CallFields
    <2> QED BY <1>1, <1>2, <2>1, <2>3, RestKeepsCalls, CallsAssumption DEF Places
  <1> QED BY <1>3, <1>4, <1>5

\* A call starts from the cursor, with nothing tried.
LEMMA InvokeKeepsCalls ==
    ASSUME CallsInvariant, NEW t \in Threads, Invoke(t)
    PROVE  CallsInvariant'
  <1>1. /\ UNCHANGED <<setup, cursor, cache, jobs>> /\ thread[t].at = "invoke"
        /\ Calling(thread[t]) /\ setup \in Setups /\ jobs \in 0 .. MaxJobs
    BY DEF Invoke, At, CallsInvariant
  <1>2. CASE Refuse(t)
    BY <1>1, <1>2, RefuseKeepsCalls
  <1>3. CASE /\ RequestedMode = Live
             /\ Become(t, [at |-> "send", model |-> 1, attempt |-> 1, key |-> cursor,
                           tried |-> {}, alone |-> TRUE])
    <2> DEFINE f == [at |-> "send", model |-> 1, attempt |-> 1, key |-> cursor,
                     tried |-> {}, alone |-> TRUE]
               th == With(f, thread[t])
    <2>1. setup.keys > 0 /\ setup.keys \in Nat
      BY <1>1, <1>3, CallsAssumption DEF RequestedMode, Live, Template, Setups
    <2>2. cursor \in Keys
      BY <2>1 DEF CallsInvariant, Keys
    <2>3. TriedBefore(1, cursor, 0) = {}
      BY <1>1, <2>2, BeforeAll DEF TriedBefore
    <2>4. /\ CallFields \subseteq DOMAIN th /\ th.at = "send" /\ th.model = 1 /\ th.attempt = 1
          /\ th.key = cursor /\ th.tried = {} /\ th.alone = TRUE
      BY <1>1 DEF With, CallFields, Calling
    <2> HIDE DEF th
    <2>5. Calling(th)
      BY <2>1, <2>2, <2>3, <2>4, CallsAssumption DEF Calling, Places
    <2> QED BY <1>1, <1>3, <2>4, <2>5, ThreadKeepsCalls DEF th
  <1>4. CASE \E e \in CacheGet(TextKey(thread[t].task, thread[t].req)) :
                 Become(t, [at |-> "use", text |-> e.text, mode |-> e.mode])
    <2>1. PICK e : Become(t, [at |-> "use", text |-> e.text, mode |-> e.mode])
      BY <1>4
    <2> DEFINE th == With([at |-> "use", text |-> e.text, mode |-> e.mode], thread[t])
    <2>2. /\ CallFields \subseteq DOMAIN th /\ th.at = "use"
          /\ th.model = thread[t].model /\ th.attempt = thread[t].attempt
      BY <1>1 DEF With, CallFields, Calling
    <2> HIDE DEF th
    <2> QED BY <1>1, <2>1, <2>2, RestKeepsCalls DEF Calling, Places, th
  <1> QED BY <1>2, <1>3, <1>4 DEF Invoke

LEMMA AnsweredKeepsCalls ==
    ASSUME CallsInvariant, NEW t \in Threads, Answered(t)
    PROVE  CallsInvariant'
  <1>1. PICK text :
            BecomeDone(t, [at |-> "count", text |-> text, mode |-> Live, model |-> thread[t].model])
    BY DEF Answered
  <1>2. /\ UNCHANGED <<setup, cursor, cache, jobs>> /\ thread[t].at = "send"
        /\ Calling(thread[t]) /\ jobs \in 0 .. MaxJobs /\ setup.keys \in Nat
    BY CallsAssumption DEF Answered, At, CallsInvariant, Setups
  <1> DEFINE f == With([at |-> "count", text |-> text, mode |-> Live, model |-> thread[t].model],
                       NoCall)
             th == With(f, thread[t])
  <1>3. /\ CallFields \subseteq DOMAIN th /\ th.at = "count"
        /\ th.model = thread[t].model /\ th.attempt = 0
    BY <1>2 DEF With, NoCall, CallFields, Calling
  <1>4. Become(t, f)
    BY <1>1 DEF BecomeDone
  <1> HIDE DEF f
  <1> QED BY <1>2, <1>3, <1>4, RestKeepsCalls DEF Calling, Places

LEMMA FailedKeepsCalls ==
    ASSUME CallsInvariant, NEW t \in Threads, Failed(t) \/ Exhausted(t)
    PROVE  CallsInvariant'
  BY RefuseKeepsCalls DEF Failed, Exhausted, At

\* A refused key counts as tried; after the last, the next model starts over from the
\* cursor, or the call is exhausted.
LEMMA RateLimitedKeepsCalls ==
    ASSUME CallsInvariant, NEW t \in Threads, RateLimited(t)
    PROVE  CallsInvariant'
  <1> DEFINE old == thread[t]
             next == old.model + 1
  <1>1. /\ UNCHANGED <<setup, cursor, cache, jobs>> /\ old.at = "send"
        /\ Calling(old) /\ setup \in Setups /\ setup.keys \in Nat
    BY CallsAssumption DEF RateLimited, At, CallsInvariant, Setups
  <1>2. /\ CallFields \subseteq DOMAIN old
        /\ old.model \in 1 .. Models /\ old.attempt \in 1 .. setup.keys /\ old.key \in Keys
        /\ old.alone => /\ old.key = cursor
                        /\ old.tried = TriedBefore(old.model, old.key, old.attempt - 1)
    BY <1>1 DEF Calling
  <1>3. cursor \in Keys
    BY <1>1, <1>2 DEF CallsInvariant, Keys
  <1>4. old.alone => Tried(t) = TriedBefore(old.model, old.key, old.attempt - 1)
                                \cup {<<old.model, old.key>>}
    BY <1>2 DEF Tried
  <1>5. old.attempt - 1 \in 0 .. (setup.keys - 1)
    BY <1>1, <1>2
  <1>6. old.alone /\ ~(old.attempt < setup.keys) =>
            /\ Tried(t) = (1 .. old.model) \X Keys
            /\ Tried(t) = TriedBefore(next, cursor, 0)
    <2> DEFINE n == old.attempt - 1
    <2>1. n \in 0 .. (setup.keys - 1) /\ (~(old.attempt < setup.keys) => n = setup.keys - 1)
      BY <1>1, <1>2, <1>5
    <2> HIDE DEF n
    <2>2. n = setup.keys - 1 =>
              /\ TriedBefore(old.model, old.key, n) \cup {<<old.model, old.key>>}
                 = (1 .. old.model) \X Keys
              /\ TriedBefore(old.model, old.key, n) \cup {<<old.model, old.key>>}
                 = TriedBefore(old.model + 1, cursor, 0)
      BY <1>1, <1>2, <1>3, <2>1, TriedOnward
    <2> QED BY <1>4, <2>1, <2>2 DEF n
  <1>7. CASE old.attempt < setup.keys
    <2> DEFINE f == [at |-> "rotate", seen |-> cursor, tried |-> Tried(t)]
               th == With(f, old)
    <2>1. Become(t, f)
      BY <1>7 DEF RateLimited
    <2>2. /\ CallFields \subseteq DOMAIN th /\ th.at = "rotate" /\ th.model = old.model
          /\ th.attempt = old.attempt /\ th.key = old.key /\ th.tried = Tried(t)
          /\ th.alone = old.alone /\ th.seen = cursor
      BY <1>2 DEF With, CallFields
    <2> HIDE DEF f
    <2>3. Calling(th)
      <3> HIDE DEF th
      <3> QED BY <1>1, <1>2, <1>3, <1>4, <1>7, <2>2 DEF Calling, Places
    <2> QED BY <1>1, <2>1, <2>2, <2>3, ThreadKeepsCalls
  <1>8. CASE ~(old.attempt < setup.keys) /\ next <= Models
    <2> DEFINE f == [model |-> next, attempt |-> 1, key |-> cursor, tried |-> Tried(t)]
               th == With(f, old)
    <2>1. Become(t, f)
      BY <1>8 DEF RateLimited
    <2>2. /\ CallFields \subseteq DOMAIN th /\ th.at = "send" /\ th.model = next
          /\ th.attempt = 1 /\ th.key = cursor /\ th.tried = Tried(t) /\ th.alone = old.alone
      BY <1>1, <1>2 DEF With, CallFields
    <2> HIDE DEF f
    <2>3. Calling(th)
      <3>1. next \in 1 .. Models /\ 1 \in 1 .. setup.keys
        BY <1>1, <1>2, <1>8, CallsAssumption
      <3> HIDE DEF th, next
      <3> QED BY <1>1, <1>3, <1>6, <1>8, <2>2, <3>1 DEF Calling, Places
    <2> QED BY <1>1, <2>1, <2>2, <2>3, ThreadKeepsCalls
  <1>9. CASE ~(old.attempt < setup.keys) /\ ~(next <= Models)
    <2> DEFINE f == [at |-> "exhausted", tried |-> Tried(t)]
               th == With(f, old)
    <2>1. Become(t, f)
      BY <1>9 DEF RateLimited
    <2>2. /\ CallFields \subseteq DOMAIN th /\ th.at = "exhausted" /\ th.model = old.model
          /\ th.attempt = old.attempt /\ th.tried = Tried(t) /\ th.alone = old.alone
      BY <1>2 DEF With, CallFields
    <2>3. old.model = Models
      BY <1>2, <1>9, CallsAssumption
    <2> HIDE DEF f
    <2>4. Calling(th)
      <3> HIDE DEF th
      <3> QED BY <1>1, <1>2, <1>6, <1>9, <2>2, <2>3 DEF Calling, Places
    <2> QED BY <1>1, <2>1, <2>2, <2>4, ThreadKeepsCalls
  <1> QED BY <1>7, <1>8, <1>9

\* A rotation moves the cursor on for its own call and disturbs every other.
LEMMA RotateKeepsCalls ==
    ASSUME CallsInvariant, NEW t \in Threads, Rotate(t)
    PROVE  CallsInvariant'
  <1> DEFINE old == thread[t]
  <1>0. UNCHANGED <<setup, cache, jobs>>
    BY DEF Rotate
  <1>1. /\ UNCHANGED <<setup, cache, jobs>> /\ old.at = "rotate" /\ cursor' = NextKey(old.seen)
        /\ Calling(old) /\ setup \in Setups /\ setup.keys \in Nat
        /\ thread' = [u \in Threads |->
               IF u = t THEN [old EXCEPT !.at = "send", !.key = cursor', !.attempt = @ + 1,
                                         !.seen = 0]
               ELSE [thread[u] EXCEPT !.alone = FALSE]]
    BY CallsAssumption DEF Rotate, At, CallsInvariant, Setups
  <1>2. /\ CallFields \subseteq DOMAIN old
        /\ old.model \in 1 .. Models /\ old.attempt \in 1 .. setup.keys /\ old.key \in Keys
        /\ old.attempt < setup.keys /\ old.seen \in Keys
        /\ old.alone =>
               /\ old.key = cursor /\ old.seen = cursor
               /\ old.tried = TriedBefore(old.model, old.key, old.attempt - 1)
                              \cup {<<old.model, old.key>>}
    BY <1>1 DEF Calling
  <1>3. cursor' \in Keys
    BY <1>1, <1>2, NextKeyIs
  <1>4. cursor' \in 0 .. MaxKeys /\ cursor' < setup'.keys
    BY <1>1, <1>3, CallsAssumption DEF Keys, Setups
  <1>5. old.alone => old.tried = TriedBefore(old.model, cursor', old.attempt)
    <2> DEFINE n == old.attempt - 1
    <2>1. n \in 0 .. (setup.keys - 1) /\ n < setup.keys - 1 /\ n + 1 = old.attempt
      BY <1>1, <1>2
    <2> HIDE DEF n
    <2>2. TriedBefore(old.model, old.key, n) \cup {<<old.model, old.key>>}
              = TriedBefore(old.model, NextKey(old.key), n + 1)
      BY <1>1, <1>2, <2>1, TriedOnward
    <2> QED BY <1>1, <1>2, <2>1, <2>2 DEF n
  <1>6. ASSUME NEW u \in Threads PROVE Calling(thread[u])' /\ (At(u, "trim")' <=> At(u, "trim"))
    <2>1. CASE u = t
      <3> DEFINE th == [old EXCEPT !.at = "send", !.key = cursor', !.attempt = @ + 1, !.seen = 0]
      <3>1. thread'[u] = th
        BY <1>1, <2>1
      <3>2. /\ CallFields \subseteq DOMAIN th /\ th.at = "send" /\ th.model = old.model
            /\ th.attempt = old.attempt + 1 /\ th.key = cursor' /\ th.tried = old.tried
            /\ th.alone = old.alone
        BY <1>2 DEF CallFields
      <3> HIDE DEF th
      <3>3. /\ th.attempt \in 1 .. setup.keys /\ th.attempt \in 0 .. setup.keys
            /\ th.model \in 0 .. Models /\ th.attempt - 1 = old.attempt
        BY <1>1, <1>2, <3>2
      <3>4. th.alone => th.tried = TriedBefore(th.model, th.key, th.attempt - 1)
        BY <1>5, <3>2, <3>3
      <3>5. /\ Keys' = Keys
            /\ TriedBefore(thread[u].model, thread[u].key, thread[u].attempt - 1)'
               = TriedBefore(th.model, th.key, th.attempt - 1)
        BY <1>0, <3>1 DEF Keys, TriedBefore, Before
      <3>6. Calling(thread[u])'
        BY <1>0, <1>2, <1>3, <3>1, <3>2, <3>3, <3>4, <3>5 DEF Calling, Places
      <3>7. At(u, "trim")' <=> At(u, "trim")
        BY <1>1, <2>1, <3>1, <3>2 DEF At
      <3> QED BY <3>6, <3>7
    <2>2. CASE u # t
      <3> DEFINE th == [thread[u] EXCEPT !.alone = FALSE]
      <3>1. thread'[u] = th /\ Calling(thread[u])
        BY <1>1, <2>2 DEF CallsInvariant
      <3>2. /\ CallFields \subseteq DOMAIN th /\ th.at = thread[u].at
            /\ th.model = thread[u].model /\ th.attempt = thread[u].attempt
            /\ th.key = thread[u].key /\ th.seen = thread[u].seen /\ th.alone = FALSE
        BY <3>1 DEF Calling, CallFields
      <3> HIDE DEF th
      <3>3. Keys' = Keys
        BY <1>0 DEF Keys
      <3>4. Calling(thread[u])'
        BY <1>0, <3>1, <3>2, <3>3 DEF Calling
      <3> QED BY <3>1, <3>2, <3>4 DEF At
    <2> QED BY <2>1, <2>2
  <1>7. Trimming' = Trimming
    BY <1>6 DEF Trimming
  <1>8. DOMAIN thread' = Threads
    BY <1>1
  <1> QED BY <1>1, <1>4, <1>6, <1>7, <1>8 DEF CallsInvariant

\* A step that names none of a call's numbers keeps them.
LEMMA PlaceKeepsCalls ==
    ASSUME CallsInvariant, UNCHANGED <<setup, cursor, cache, jobs>>, NEW t \in Threads,
           NEW fields, Become(t, fields), thread[t].at # "trim",
           "at" \in DOMAIN fields,
           fields.at \in Places \ {"send", "rotate", "exhausted", "trim"},
           "model" \notin DOMAIN fields \/ fields.model = 0,
           "attempt" \notin DOMAIN fields \/ fields.attempt = 0
    PROVE  CallsInvariant'
  <1> DEFINE th == With(fields, thread[t])
  <1>1. Calling(thread[t]) /\ jobs \in 0 .. MaxJobs /\ setup.keys \in Nat
    BY CallsAssumption DEF CallsInvariant, Setups
  <1>2. /\ CallFields \subseteq DOMAIN thread[t]
        /\ thread[t].model \in 0 .. Models /\ thread[t].attempt \in 0 .. setup.keys
    BY <1>1 DEF Calling
  <1>3. /\ CallFields \subseteq DOMAIN th /\ th.at = fields.at
        /\ th.model \in {thread[t].model, 0} /\ th.attempt \in {thread[t].attempt, 0}
    BY <1>2 DEF With, CallFields
  <1> HIDE DEF th
  <1>4. th.model \in 0 .. Models /\ th.attempt \in 0 .. setup.keys
    BY <1>1, <1>2, <1>3, CallsAssumption
  <1> QED BY <1>1, <1>3, <1>4, RestKeepsCalls DEF th

LEMMA CountKeepsCalls ==
    ASSUME CallsInvariant, NEW t \in Threads, ReadCount(t) \/ WriteCount(t)
    PROVE  CallsInvariant'
  <1>1. UNCHANGED <<setup, cursor, cache, jobs>> /\ thread[t].at # "trim"
    BY DEF ReadCount, WriteCount, At
  <1>2. CASE ReadCount(t)
    <2> DEFINE f == [at |-> "counting", seen |-> usage[Bucket(t)].calls]
    <2>1. Become(t, f)
      BY <1>2 DEF ReadCount
    <2>2. /\ "at" \in DOMAIN f /\ f.at = "counting"
          /\ "model" \notin DOMAIN f /\ "attempt" \notin DOMAIN f
      OBVIOUS
    <2> HIDE DEF f
    <2> QED BY <1>1, <2>1, <2>2, PlaceKeepsCalls DEF Places
  <1>3. CASE WriteCount(t)
    <2>1. BecomeDone(t, AfterCount(t))
      BY <1>3 DEF WriteCount
    <2> DEFINE f == With(AfterCount(t), NoCall)
    <2>2. /\ "at" \in DOMAIN f /\ f.at \in {"invoke", "store", "use"}
          /\ f.model = 0 /\ f.attempt = 0
      BY DEF AfterCount, With, NoCall
    <2>3. Become(t, f)
      BY <2>1 DEF BecomeDone
    <2> HIDE DEF f
    <2> QED BY <1>1, <2>2, <2>3, PlaceKeepsCalls DEF Places
  <1> QED BY <1>2, <1>3

\* A store may leave the cache one entry larger; the thread has then to trim it.
LEMMA CacheSetLength ==
    ASSUME cache \in Seq(Range(cache)), NEW key, NEW entry, CacheSet(key, entry)
    PROVE  cache' \in Seq(Range(cache')) /\ Len(cache') <= Len(cache) + 1
  <1>1. cache' \in Seq(Range(cache'))
    BY CacheSetRange
  <1> DEFINE S == Range(cache)
  <1>2. cache \in Seq(S)
    OBVIOUS
  <1> HIDE DEF S
  <1>3. Len(cache') <= Len(cache) + 1
    <2>1. CASE cache' = cache
      BY <1>2, <2>1
    <2>2. CASE cache' = Append(cache, entry)
      <3>1. cache \in Seq(S \cup {entry})
        BY <1>2
      <3> QED BY <2>2, <3>1
    <2>3. CASE cache' = [i \in DOMAIN cache |-> IF cache[i].key = key THEN entry ELSE cache[i]]
      <3>1. Len(cache) \in Nat /\ DOMAIN cache' = 1 .. Len(cache)
        BY <1>2, <2>3
      <3>2. Len(cache') \in Nat /\ DOMAIN cache' = 1 .. Len(cache')
        BY <1>1
      <3> QED BY <3>1, <3>2
    <2> QED BY <2>1, <2>2, <2>3 DEF CacheSet
  <1> QED BY <1>1, <1>3

LEMMA StoreKeepsCalls ==
    ASSUME CallsInvariant, NEW t \in Threads, Store(t)
    PROVE  CallsInvariant'
  <1>1. /\ UNCHANGED <<setup, cursor, jobs>> /\ thread[t].at = "store"
        /\ Become(t, [at |-> "trim"]) /\ \E key, entry : CacheSet(key, entry)
    BY DEF Store, At
  <1>2. /\ Calling(thread[t]) /\ setup \in Setups /\ jobs \in 0 .. MaxJobs
        /\ cache \in Seq(Range(cache))
    BY DEF CallsInvariant
  <1>3. cache' \in Seq(Range(cache')) /\ Len(cache') <= Len(cache) + 1
    BY <1>1, <1>2, CacheSetLength
  <1> DEFINE th == With([at |-> "trim"], thread[t])
  <1>4. /\ CallFields \subseteq DOMAIN th /\ th.at = "trim"
        /\ th.model = thread[t].model /\ th.attempt = thread[t].attempt
    BY <1>2 DEF With, Calling, CallFields
  <1> HIDE DEF th
  <1>5. Calling(th)
    BY <1>2, <1>4, CallingAtRest DEF Calling, Places
  <1> QED BY <1>1, <1>2, <1>3, <1>4, <1>5, StepKeepsCalls DEF th

\* A thread leaves the cache only when it holds no more than its size.
LEMMA TrimKeepsCalls ==
    ASSUME CallsInvariant, NEW t \in Threads, TrimCache(t)
    PROVE  CallsInvariant'
  <1>1. /\ UNCHANGED <<setup, cursor, jobs>> /\ thread[t].at = "trim"
        /\ cache' = IF Len(cache) > CacheSize THEN Tail(cache) ELSE cache
    BY DEF TrimCache, At
  <1>2. /\ Calling(thread[t]) /\ setup \in Setups /\ jobs \in 0 .. MaxJobs
        /\ cache \in Seq(Range(cache)) /\ Len(cache) \in Nat /\ CacheSize \in Nat
    BY CallsAssumption DEF CallsInvariant
  <1>3. /\ cache' \in Seq(Range(cache'))
        /\ Len(cache') = IF Len(cache) > CacheSize THEN Len(cache) - 1 ELSE Len(cache)
    <2>1. CASE Len(cache) > CacheSize
      <3>1. cache # <<>> /\ cache' = Tail(cache)
        BY <1>1, <1>2, <2>1
      <3> DEFINE S == Range(cache)
      <3>2. cache \in Seq(S)
        BY <1>2
      <3> HIDE DEF S
      <3>3. Len(Tail(cache)) = Len(cache) - 1
        BY <3>1, <3>2
      <3> QED BY <1>2, <2>1, <3>1, <3>3, TailRange
    <2>2. CASE ~(Len(cache) > CacheSize)
      BY <1>1, <1>2, <2>2
    <2> QED BY <2>1, <2>2
  <1>4. CASE Len(cache) > CacheSize + 1 /\ UNCHANGED thread
    <2>1. Trimming' = Trimming /\ Keys' = Keys
      BY <1>1, <1>4 DEF Trimming, At, Keys
    <2>2. \A u \in Threads : Calling(thread[u])'
      BY <1>1, <1>4 DEF CallsInvariant, Calling, Keys, TriedBefore, Before
    <2>3. Cardinality(Trimming) \in Nat
      BY FS_CardinalityType DEF CallsInvariant
    <2>4. Len(cache') <= CacheSize + Cardinality(Trimming)
      BY <1>2, <1>3, <2>3 DEF CallsInvariant
    <2> QED BY <1>1, <1>3, <1>4, <2>1, <2>2, <2>4 DEF CallsInvariant
  <1>5. CASE /\ ~(Len(cache) > CacheSize + 1)
             /\ Become(t, [at |-> IF thread[t].label = "none" THEN "use" ELSE "done"])
    <2> DEFINE f == [at |-> IF thread[t].label = "none" THEN "use" ELSE "done"]
               th == With(f, thread[t])
    <2>1. /\ CallFields \subseteq DOMAIN th /\ th.at \in {"use", "done"}
          /\ th.model = thread[t].model /\ th.attempt = thread[t].attempt
      BY <1>2 DEF With, Calling, CallFields
    <2> HIDE DEF th
    <2>2. Calling(th)
      BY <1>2, <2>1, CallingAtRest DEF Calling, Places
    <2>3. Len(cache') <= CacheSize
      BY <1>2, <1>3, <1>5
    <2> QED BY <1>1, <1>2, <1>3, <1>5, <2>1, <2>2, <2>3, StepKeepsCalls DEF th
  <1> QED BY <1>4, <1>5 DEF TrimCache

LEMMA IdleKeepsCalls ==
    ASSUME CallsInvariant, UNCHANGED <<setup, cursor, cache, jobs>>, NEW t \in Threads,
           Become(t, Idle), thread[t].at # "trim"
    PROVE  CallsInvariant'
  <1>1. "at" \in DOMAIN Idle /\ Idle.at = "idle" /\ Idle.model = 0 /\ Idle.attempt = 0
    BY DEF Idle
  <1> QED BY <1>1, PlaceKeepsCalls DEF Places

LEMMA UseKeepsCalls ==
    ASSUME CallsInvariant, NEW t \in Threads, Use(t)
    PROVE  CallsInvariant'
  <1>1. UNCHANGED <<setup, cursor, cache, jobs>> /\ thread[t].at # "trim"
    BY DEF Use, At
  <1>2. ASSUME NEW text, NEW label, Finish(t, text, label) PROVE CallsInvariant'
    <2> DEFINE f == [text |-> text, label |-> label, draft |-> NoText, draftMode |-> Template,
                     mode |-> Template, again |-> FALSE,
                     at |-> IF thread[t].job \in {"code", "news"} /\ setup.caching
                            THEN "store" ELSE "done"]
    <2>1. /\ "at" \in DOMAIN f /\ f.at \in {"store", "done"}
          /\ "model" \notin DOMAIN f /\ "attempt" \notin DOMAIN f
      OBVIOUS
    <2>2. Become(t, f)
      BY <1>2 DEF Finish
    <2> HIDE DEF f
    <2> QED BY <1>1, <2>1, <2>2, PlaceKeepsCalls DEF Places
  <1>3. CASE Become(t, [at |-> "invoke", task |-> "critic", draft |-> thread[t].text,
                        draftMode |-> thread[t].mode])
    <2> DEFINE f == [at |-> "invoke", task |-> "critic", draft |-> thread[t].text,
                     draftMode |-> thread[t].mode]
    <2>1. /\ "at" \in DOMAIN f /\ f.at = "invoke"
          /\ "model" \notin DOMAIN f /\ "attempt" \notin DOMAIN f
      OBVIOUS
    <2>2. Become(t, f)
      BY <1>3
    <2> HIDE DEF f
    <2> QED BY <1>1, <2>1, <2>2, PlaceKeepsCalls DEF Places
  <1>4. CASE Become(t, [at |-> "invoke", again |-> TRUE])
    <2> DEFINE f == [at |-> "invoke", again |-> TRUE]
    <2>1. /\ "at" \in DOMAIN f /\ f.at = "invoke"
          /\ "model" \notin DOMAIN f /\ "attempt" \notin DOMAIN f
      OBVIOUS
    <2>2. Become(t, f)
      BY <1>4
    <2> HIDE DEF f
    <2> QED BY <1>1, <2>1, <2>2, PlaceKeepsCalls DEF Places
  <1>5. CASE Become(t, Idle)
    BY <1>1, <1>5, IdleKeepsCalls
  <1> QED BY <1>2, <1>3, <1>4, <1>5 DEF Use, UseCode, UseNews, UseAnalysis, UseSpec, UseBehavior

LEMMA CallsAreInductive == CallsInvariant /\ [Next]_vars => CallsInvariant'
  <1> SUFFICES ASSUME CallsInvariant, [Next]_vars
               PROVE  CallsInvariant'
    OBVIOUS
  <1>1. CASE UNCHANGED vars
    <2>1. UNCHANGED <<setup, cursor, cache, jobs, thread>>
      BY <1>1 DEF vars
    <2>2. Trimming' = Trimming
      BY <2>1 DEF Trimming, At
    <2> QED BY <2>1, <2>2 DEF CallsInvariant, Calling, Keys, TriedBefore, Before
  <1>2. CASE Next
    <2>1. PICK t \in Threads : Step(t)
      BY <1>2 DEF Next
    <2>2. ASSUME Return(t) PROVE CallsInvariant'
      BY <2>2, IdleKeepsCalls DEF Return, At
    <2> QED BY <2>1, <2>2, BeginKeepsCalls, InvokeKeepsCalls, AnsweredKeepsCalls,
               FailedKeepsCalls, RateLimitedKeepsCalls, RotateKeepsCalls, CountKeepsCalls,
               StoreKeepsCalls, TrimKeepsCalls, UseKeepsCalls DEF Step
  <1> QED BY <1>1, <1>2

-----------------------------------------------------------------------------
(* The theorems *)

LEMMA TruthIsInductive == TruthInvariant /\ [Next]_vars => TruthInvariant'
  <1> SUFFICES ASSUME TruthInvariant, [Next]_vars
               PROVE  TruthInvariant'
    OBVIOUS
  <1>1. CASE UNCHANGED vars
    <2>1. UNCHANGED <<setup, cache, thread>>
      BY <1>1 DEF vars
    <2>2. Strict' = Strict
      BY <2>1 DEF Strict
    <2> QED BY <2>1, <2>2 DEF TruthInvariant, Truthful, TruthfulEntry, Told, Honest
  <1>2. CASE Next
    <2>1. PICK t \in Threads : Step(t)
      BY <1>2 DEF Next
    <2> QED BY <2>1, BeginKeepsTruth, InvokeKeepsTruth, AnsweredKeepsTruth, FailedKeepsTruth,
               RateLimitedKeepsTruth, RotateKeepsTruth, CountKeepsTruth, StoreKeepsTruth,
               TrimKeepsTruth, UseKeepsTruth, ReturnKeepsTruth DEF Step
  <1> QED BY <1>1, <1>2

\* A result labelled as a model's was written by one: through refused answers,
\* fallbacks, second requests and the cache, whatever the threads do meanwhile
\* (invoke_text_task, generate_strategy_code and the analyses).
THEOREM LabelsAreTrue == Spec => []ProvenanceIsKept
  <1>1. TruthInvariant => ProvenanceIsKept
    BY DEF TruthInvariant, Truthful, Told, Signed, At, ProvenanceIsKept
  <1> QED BY <1>1, InitTruth, TruthIsInductive, PTL DEF Spec

\* In strict mode rules write no code and no behaviour report, what they write says that
\* no model did, also when it is served from the cache, and no fallback text is cached
\* (invoke_text_task, strict, and the handlers that do without an answer).
THEOREM StrictModeTellsFallbacks == Spec => []StrictFallbacksAreTold
  <1>1. ASSUME TruthInvariant, Strict PROVE StrictFallbacksAreTold
    <2>1. \A t \in Threads : At(t, "done") /\ thread[t].text = Rules
              => thread[t].job \notin {"code", "behavior"} /\ thread[t].label # Live
      BY <1>1 DEF TruthInvariant, Truthful, Told, At
    <2>2. \A e \in Range(cache) : e.text = Rules => e.key[1] = "result" /\ e.mode # Live
      BY <1>1 DEF TruthInvariant, TruthfulEntry, Told, Honest, Wrote, Written, Rules
    <2> QED BY <2>1, <2>2 DEF StrictFallbacksAreTold
  <1>2. TruthInvariant => StrictFallbacksAreTold
    BY <1>1 DEF StrictFallbacksAreTold
  <1> QED BY <1>2, InitTruth, TruthIsInductive, PTL DEF Spec

\* The cursor always names a key there is, a call in flight a model and a key it may use,
\* and the cache is over its size by at most the threads that have still to trim it, for
\* any number of threads (_rotate_provider_api_key, _trim_cache).
THEOREM CallsAreTyped == Spec => []TypeOK
  <1>1. ASSUME CallsInvariant PROVE TypeOK
    <2>1. ASSUME NEW t \in Threads
          PROVE  /\ thread[t].at \in Places
                 /\ thread[t].model \in 0 .. Models
                 /\ thread[t].attempt \in 0 .. setup.keys
                 /\ At(t, "send") => thread[t].key < setup.keys
      <3>1. Calling(thread[t]) /\ setup.keys \in Nat
        BY <1>1, CallsAssumption DEF CallsInvariant, Setups
      <3> QED BY <3>1 DEF Calling, At, Keys
    <2>2. Len(cache) <= CacheSize + Cardinality({t \in Threads : At(t, "trim")})
      BY <1>1 DEF CallsInvariant, Trimming
    <2> QED BY <1>1, <2>1, <2>2 DEF CallsInvariant, TypeOK
  <1> QED BY <1>1, InitCalls, CallsAreInductive, PTL DEF Spec

\* A call whose rotations nobody disturbed gives up only after every model was tried with
\* every key, however many there are: the cursor it shares comes back to where it was
\* (_invoke_live_chat).
THEOREM UndisturbedCallsTryEveryKey == Spec => []AloneTriesEveryKey
  <1>1. ASSUME CallsInvariant PROVE AloneTriesEveryKey
    <2>1. \A t \in Threads : Calling(thread[t])
      BY <1>1 DEF CallsInvariant
    <2> QED BY <2>1 DEF Calling, At, Keys, AloneTriesEveryKey
  <1> QED BY <1>1, InitCalls, CallsAreInductive, PTL DEF Spec

=============================================================================
