----------------------------- MODULE ModelCalls -----------------------------
(***************************************************************************)
(* Calls to language models (infra/llm_runtime.py) and the analyses of     *)
(* api/workflow_service.py that use their answers.                         *)
(*                                                                         *)
(* A call tries every model of its profile and, for each, the keys of the  *)
(* provider while it is rate limited; the process keeps one cursor into    *)
(* the keys, which the worker threads share.  A call that gets no answer   *)
(* raises in strict mode and falls back to a text built by rules otherwise.*)
(* Answers, fallbacks included, are counted in one usage bucket per task   *)
(* and some are cached.  The handler that asked then checks the answer,    *)
(* may ask once more, and labels its result.                               *)
(*                                                                         *)
(* Texts are abstracted to who wrote them and whether they parse.  Tokens, *)
(* prompts and traces are left out.                                        *)
(***************************************************************************)
EXTENDS Integers, Sequences, FiniteSets, SequencesExt

CONSTANTS Threads,   \* worker threads
          Requests,  \* distinct strategy-code requests; the other jobs never repeat
          MaxKeys,   \* keys the environment may hold for the provider
          Models,    \* models in a profile
          CacheSize, \* performance_llm_cache_size
          MaxJobs    \* bound: jobs started

ASSUME CallsAssumption ==
    /\ Threads # {}
    /\ {MaxKeys, CacheSize, MaxJobs} \subseteq Nat
    /\ Models \in Nat \ {0}

VARIABLES
    setup,  \* the settings and environment of the process, fixed at its start
    cursor, \* _provider_key_cursor of the provider
    cache,  \* _result_cache, oldest entry first
    usage,  \* usage_totals: a bucket per task and model, with the fallbacks in recent_calls
    jobs,   \* jobs started so far
    thread  \* thread[t]: what t is doing

vars == <<setup, cursor, cache, usage, jobs, thread>>

-----------------------------------------------------------------------------
Jobs == {"code", "news", "history", "spec", "behavior"}
Tasks == {"analysis", "codegen", "critic", "news", "history", "spec", "behavior"}
CachedTasks == {"codegen", "news"}   \* tasks called with a cache_key

\* Who wrote a text and, for a model's, whether the handler can use it.
Rules == "rules"
Padded == "padded"   \* a template put in place of a model's blank answer
\* Code is taken whatever it says unless it is blank; a review is never read.
Answers(task) ==
    CASE task = "critic" -> {"good"}
      [] task = "codegen" -> {"good", "blank"}
      [] OTHER -> {"good", "malformed", "blank"}
NoText == "none"

Live == "live_llm"
Template == "template_fallback"
RuleBased == "rule_based"

\* Whether the runtime is enabled and strict, whether results are cached, how many
\* keys there are, and whether the provider has a base URL and is one it can call.
Setups == {s \in [enabled : BOOLEAN, strict : BOOLEAN, caching : BOOLEAN,
                  supported : BOOLEAN, keys : 0 .. MaxKeys] :
              s.supported \/ (s.enabled /\ s.keys > 0)}   \* or it makes no difference

\* generation_mode of a profile: the keys are there; the provider may not be.
RequestedMode == IF setup.enabled /\ setup.keys > 0 THEN Live ELSE Template
Strict == setup.enabled /\ setup.strict

\* A bucket keeps the mode of the call that created it.
NoBucket == [calls |-> 0, mode |-> "none", fallbacks |-> 0]

Idle == [at |-> "idle", job |-> "none", req |-> 0, task |-> "none", again |-> FALSE,
         model |-> 0, attempt |-> 0, key |-> 0, tried |-> {}, alone |-> TRUE,
         seen |-> 0, text |-> NoText, mode |-> Template, draft |-> NoText,
         draftMode |-> Template, label |-> "none"]

Init ==
    /\ setup \in Setups
    /\ cursor = 0
    /\ cache = <<>>
    /\ usage = [k \in Tasks \X (1 .. Models) |-> NoBucket]
    /\ jobs = 0
    /\ thread = [t \in Threads |-> Idle]

NoCall == [model |-> 0, attempt |-> 0, key |-> 0, tried |-> {}, alone |-> TRUE, seen |-> 0]

Bigger(a, b) == IF a > b THEN a ELSE b
At(t, place) == thread[t].at = place

\* A record with some of its fields replaced (TLC's @@ cannot be reasoned about).
With(fields, record) ==
    [x \in DOMAIN fields \cup DOMAIN record |-> IF x \in DOMAIN fields THEN fields[x] ELSE record[x]]

Become(t, fields) == thread' = [thread EXCEPT ![t] = With(fields, @)]
\* The call is over.
BecomeDone(t, fields) == Become(t, With(fields, NoCall))

-----------------------------------------------------------------------------
(* The result cache: first in, first out; a hit does not renew an entry.   *)

TextKey(task, req) == <<"text", task, req>>
ResultKey(job, req) == <<"result", job, req>>
Held(key) == {e \in Range(cache) : e.key = key}
CacheGet(key) == IF setup.caching THEN Held(key) ELSE {}

CacheSet(key, entry) ==
    cache' = IF ~setup.caching THEN cache
             ELSE IF Held(key) = {} THEN Append(cache, entry)
             ELSE [i \in DOMAIN cache |-> IF cache[i].key = key THEN entry ELSE cache[i]]

\* _record_cache_hit creates the bucket when there is none.
RecordHit(task) ==
    usage' = [usage EXCEPT ![<<task, 1>>].mode = IF @ = "none" THEN RequestedMode ELSE @]

Entry(key, text, mode) == [key |-> key, text |-> text, mode |-> mode]

\* _trim_cache runs after every store and drops the oldest.  A thread may store
\* before another has trimmed.
TrimCache(t) ==
    /\ At(t, "trim")
    /\ cache' = IF Len(cache) > CacheSize THEN Tail(cache) ELSE cache
    /\ IF Len(cache) > CacheSize + 1 THEN UNCHANGED thread
       ELSE Become(t, [at |-> IF thread[t].label = "none" THEN "use" ELSE "done"])
    /\ UNCHANGED <<setup, cursor, usage, jobs>>

-----------------------------------------------------------------------------
(* Starting a job.  A strategy-code request or a news summary first looks  *)
(* for a cached result; the analysis that precedes code generation is only *)
(* counted, no model is called for it.                                     *)

FirstTask(job) == IF job = "code" THEN "analysis" ELSE job

Begin(t) ==
    /\ At(t, "idle") /\ jobs < MaxJobs
    /\ jobs' = jobs + 1
    /\ \E job \in Jobs, req \in Requests \cup {0} :
        /\ (req \in Requests) <=> (job = "code")
        /\ LET fresh == [Idle EXCEPT !.job = job, !.task = FirstTask(job), !.mode = RequestedMode,
                                    !.req = IF job = "news" THEN jobs + 1 ELSE req]
               hit == CacheGet(ResultKey(job, fresh.req))
           IN  IF hit = {}
               THEN /\ Become(t, [fresh EXCEPT !.at = IF job = "code" THEN "count" ELSE "invoke"])
                    /\ UNCHANGED usage
               ELSE /\ \E e \in hit :
                        Become(t, [fresh EXCEPT !.at = "done", !.text = e.text, !.label = e.mode])
                    /\ RecordHit(IF job = "code" THEN "codegen" ELSE job)
    /\ UNCHANGED <<setup, cursor, cache>>

-----------------------------------------------------------------------------
(* invoke_text_task and _invoke_live_chat.                                 *)

RequestedKept == RequestedMode   \* Mutant: the profile is not replaced.

\* A fallback never keeps the mode that was requested.
FallbackMode == Template

\* Mutant: a call without an answer falls back in strict mode too.
RefuseQuietly(t) == BecomeDone(t, [at |-> "count", text |-> Rules, mode |-> FallbackMode])

\* The call ends without an answer; only the analyses of documentation catch the
\* exception strict mode raises.
Refuse(t) ==
    IF ~Strict THEN BecomeDone(t, [at |-> "count", text |-> Rules, mode |-> FallbackMode])
    ELSE IF thread[t].job = "spec"
    THEN BecomeDone(t, [at |-> "done", text |-> Rules, label |-> RuleBased])
    ELSE Become(t, Idle)

Invoke(t) ==
    /\ At(t, "invoke")
    /\ LET task == thread[t].task
           hit == IF task \in CachedTasks THEN CacheGet(TextKey(task, thread[t].req)) ELSE {}
       IN  IF hit # {}
           THEN /\ \E e \in hit : Become(t, [at |-> "use", text |-> e.text, mode |-> e.mode])
                /\ RecordHit(task)
           ELSE /\ IF RequestedMode # Live \/ ~setup.supported THEN Refuse(t)
                   ELSE Become(t, [at |-> "send", model |-> 1, attempt |-> 1, key |-> cursor,
                                   tried |-> {}, alone |-> TRUE])
                /\ UNCHANGED usage
    /\ UNCHANGED <<setup, cursor, cache, jobs>>

Tried(t) == thread[t].tried \cup {<<thread[t].model, thread[t].key>>}

Answered(t) ==
    /\ At(t, "send")
    /\ \E text \in Answers(thread[t].task) :
        BecomeDone(t, [at |-> "count", text |-> text, mode |-> Live, model |-> thread[t].model])
    /\ UNCHANGED <<setup, cursor, cache, usage, jobs>>

\* Any other error, time-out included, ends the call at once.
Failed(t) ==
    /\ At(t, "send")
    /\ Refuse(t)
    /\ UNCHANGED <<setup, cursor, cache, usage, jobs>>

\* A rate-limited key: on to the next key, then to the next model, from the key
\* the cursor is at by now.
RateLimited(t) ==
    /\ At(t, "send")
    /\ LET next == thread[t].model + 1
       IN  IF thread[t].attempt < setup.keys
           THEN Become(t, [at |-> "rotate", seen |-> cursor, tried |-> Tried(t)])
           ELSE IF next <= Models
           THEN Become(t, [model |-> next, attempt |-> 1, key |-> cursor, tried |-> Tried(t)])
           ELSE Become(t, [at |-> "exhausted", tried |-> Tried(t)])
    /\ UNCHANGED <<setup, cursor, cache, usage, jobs>>

SameKey(i) == i        \* Mutant: the cursor is written back as it was.
Unwrapped(i) == i + 1  \* Mutant: no modulo.
NextKey(i) == (i + 1) % setup.keys

\* _rotate_provider_api_key writes what it computed from the cursor it read.
Rotate(t) ==
    /\ At(t, "rotate")
    /\ cursor' = NextKey(thread[t].seen)
    /\ thread' = [u \in Threads |->
           IF u = t THEN [thread[t] EXCEPT !.at = "send", !.key = cursor', !.attempt = @ + 1, !.seen = 0]
           ELSE [thread[u] EXCEPT !.alone = FALSE]]
    /\ UNCHANGED <<setup, cache, usage, jobs>>

Exhausted(t) ==
    /\ At(t, "exhausted")
    /\ Refuse(t)
    /\ UNCHANGED <<setup, cursor, cache, usage, jobs>>

-----------------------------------------------------------------------------
(* _record_usage adds one to the count it read; the answer is stored after.*)

AfterCount(t) ==
    CASE thread[t].task = "analysis" -> [at |-> "invoke", task |-> "codegen"]
      [] thread[t].task \in CachedTasks /\ setup.caching -> [at |-> "store"]
      [] OTHER -> [at |-> "use"]

\* A call that was not answered counts for the first model of the profile.
Bucket(t) == <<thread[t].task, Bigger(thread[t].model, 1)>>

ReadCount(t) ==
    /\ At(t, "count")
    /\ Become(t, [at |-> "counting", seen |-> usage[Bucket(t)].calls])
    /\ UNCHANGED <<setup, cursor, cache, usage, jobs>>

Counted(bucket, calls, mode) ==
    [calls |-> calls,
     mode |-> IF bucket.mode = "none" THEN mode ELSE bucket.mode,
     fallbacks |-> bucket.fallbacks + (IF mode = Live THEN 0 ELSE 1)]

WriteCount(t) ==
    /\ At(t, "counting")
    /\ LET th == thread[t]
       IN  usage' = [usage EXCEPT ![Bucket(t)] = Counted(@, th.seen + 1, th.mode)]
    /\ BecomeDone(t, AfterCount(t))
    /\ UNCHANGED <<setup, cursor, cache, jobs>>

\* usage_snapshot: an agent is advised to change its model when most of its calls
\* fall back, and all calls of a bucket have the bucket's mode.
AgentCalls(task) == MapThenSumSet(LAMBDA i : usage[<<task, i>>].calls, 1 .. Models)
AgentFallbacks(task) == MapThenSumSet(LAMBDA i : usage[<<task, i>>].fallbacks, 1 .. Models)
Advised(task) ==
    /\ AgentCalls(task) >= 3
    /\ 2 * MapThenSumSet(LAMBDA i : LET b == usage[<<task, i>>] IN IF b.mode = Live THEN 0 ELSE b.calls,
                         1 .. Models) >= AgentCalls(task)

\* _cache_set, for the text of a task or for the result of a job.
Store(t) ==
    /\ At(t, "store")
    /\ LET th == thread[t]
       IN  IF th.label = "none"
           THEN CacheSet(TextKey(th.task, th.req), Entry(TextKey(th.task, th.req), th.text, th.mode))
           ELSE CacheSet(ResultKey(th.job, th.req), Entry(ResultKey(th.job, th.req), th.text, th.label))
    /\ Become(t, [at |-> "trim"])
    /\ UNCHANGED <<setup, cursor, usage, jobs>>

-----------------------------------------------------------------------------
(* What the handlers make of an answer.                                    *)

\* The JSON the handler asked for; a fallback text always is, but the one for the
\* behaviour analysis is refused by its own disclaimer.
Usable(t) == thread[t].text \in (IF thread[t].job = "behavior" THEN {"good"} ELSE {"good", Rules})

Finish(t, text, label) ==
    Become(t, [text |-> text, label |-> label, draft |-> NoText, draftMode |-> Template,
               mode |-> Template, again |-> FALSE,
               at |-> IF thread[t].job \in {"code", "news"} /\ setup.caching THEN "store" ELSE "done"])

\* generate_strategy_code: the critic reviews the code, its own text is not used.
UseCode(t) ==
    /\ thread[t].job = "code"
    /\ IF thread[t].task = "codegen"
       THEN Become(t, [at |-> "invoke", task |-> "critic", draft |-> thread[t].text,
                       draftMode |-> thread[t].mode])
       ELSE Finish(t, IF thread[t].draft = "blank" THEN Padded ELSE thread[t].draft, thread[t].draftMode)

\* summarize_intelligence: translation_status is "live_llm_completed" for any
\* text that parses.
UseNews(t) ==
    /\ thread[t].job = "news"
    /\ IF Usable(t) THEN Finish(t, thread[t].text, Live) ELSE Finish(t, Rules, Template)

\* The analyses of the intelligence history and of habits and goals.
UseAnalysis(t) ==
    /\ thread[t].job = "history"
    /\ IF Usable(t) THEN Finish(t, thread[t].text, thread[t].mode) ELSE Finish(t, Rules, RuleBased)

\* The documentation analyses; the specification the rules wrote may be invalid too.
UseSpec(t) ==
    /\ thread[t].job = "spec"
    /\ \/ Usable(t) /\ Finish(t, thread[t].text, thread[t].mode)
       \/ thread[t].text # "good" /\ Finish(t, Rules, RuleBased)

\* _generate_behavioral_llm_reports asks once more when a model's answer cannot
\* be used.
UseBehavior(t) ==
    /\ thread[t].job = "behavior"
    /\ IF Usable(t) THEN Finish(t, thread[t].text, thread[t].mode)
       ELSE IF thread[t].mode = Live /\ ~thread[t].again
       THEN Become(t, [at |-> "invoke", again |-> TRUE])
       ELSE IF Strict THEN Become(t, Idle)
       ELSE Finish(t, Rules, RuleBased)

Use(t) ==
    /\ At(t, "use")
    /\ UseCode(t) \/ UseNews(t) \/ UseAnalysis(t) \/ UseSpec(t) \/ UseBehavior(t)
    /\ UNCHANGED <<setup, cursor, cache, usage, jobs>>

Return(t) ==
    /\ At(t, "done")
    /\ Become(t, Idle)
    /\ UNCHANGED <<setup, cursor, cache, usage, jobs>>

-----------------------------------------------------------------------------
Step(t) ==
    \/ Begin(t) \/ Invoke(t) \/ Answered(t) \/ Failed(t) \/ RateLimited(t) \/ Rotate(t)
    \/ Exhausted(t) \/ ReadCount(t) \/ WriteCount(t) \/ Store(t) \/ TrimCache(t) \/ Use(t)
    \/ Return(t)

Next == \E t \in Threads : Step(t)

Spec == Init /\ [][Next]_vars

Symmetric == Permutations(Threads)

-----------------------------------------------------------------------------
Places == {"idle", "invoke", "send", "rotate", "exhausted", "count", "counting", "store", "trim",
           "use", "done"}

\* Types: the cursor names a key, a call is at a model and a key it has, and the
\* cache is over its size by no more than the threads that have still to trim it.
TypeOK ==
    /\ setup \in Setups
    /\ cursor \in 0 .. MaxKeys
    /\ cursor = 0 \/ cursor < setup.keys
    /\ jobs \in 0 .. MaxJobs
    /\ \A t \in Threads :
        /\ thread[t].at \in Places
        /\ thread[t].model \in 0 .. Models
        /\ thread[t].attempt \in 0 .. setup.keys
        /\ At(t, "send") => thread[t].key < setup.keys
    /\ Len(cache) <= CacheSize + Cardinality({t \in Threads : At(t, "trim")})

\* A result that says a model wrote it has a text a model wrote: through the
\* cache, a refused answer, a second request and its fallback.  The two results
\* the code labels otherwise are left out: the translation status of a news
\* summary (CompletedMeansLive), and the template put in place of a blank answer.
ProvenanceIsKept ==
    \A t \in Threads :
        At(t, "done") /\ thread[t].job # "news" /\ thread[t].label = Live
            => thread[t].text \in {"good", "malformed", Padded}

\* In strict mode a result written by rules is never code nor a behaviour report, and
\* says that no model wrote it, after a refused call, an unusable answer, a second
\* request and when it is served from the cache; no text of a fallback is cached
\* (invoke_text_task, strict, and the handlers that do without an answer).
StrictFallbacksAreTold ==
    Strict =>
        /\ \A t \in Threads :
              At(t, "done") /\ thread[t].text = Rules
                  => thread[t].job \notin {"code", "behavior"} /\ thread[t].label # Live
        /\ \A e \in Range(cache) : e.text = Rules => e.key[1] = "result" /\ e.mode # Live

\* A call that nobody else's rotation disturbed gives up with "credential rotation
\* exhausted" only when every model was tried with every key.
AloneTriesEveryKey ==
    \A t \in Threads :
        At(t, "exhausted") /\ thread[t].alone
            => thread[t].tried = (1 .. Models) \X (0 .. setup.keys - 1)

\* infra/config_validator.py:146 tells the user of strict mode that fallback outputs
\* are forbidden for the tasks that ask a model: no result is then written by rules.
StrictForbidsFallbacks ==
    Strict => \A t \in Threads : At(t, "done") => thread[t].text # Rules

\* docs/no-fabrication.md:17 forbids a result that claims a completed analysis
\* by a model when no model answered.
CompletedMeansLive ==
    \A t \in Threads :
        At(t, "done") /\ thread[t].label = Live => thread[t].text \in {"good", "malformed"}

\* docs/ui-page-function-report.md:185: an agent that mostly falls back is shown
\* with the advice to change its model (these tasks are the only one of their agent).
SwitchAdvised ==
    \A k \in {"news", "history", "critic", "behavior"} :
        AgentCalls(k) >= 3 /\ 2 * AgentFallbacks(k) >= AgentCalls(k) => Advised(k)
=============================================================================
