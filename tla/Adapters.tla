----------------------------- MODULE Adapters ------------------------------
(***************************************************************************)
(* One generation through one provider's adapter: the call the router      *)
(* makes, with the retries it grants a retryable error, and for a video    *)
(* the polls of its row afterwards (proxy/router.rs, proxy/poller.rs).     *)
(* The provider may take a request whose answer is lost, fail at any time, *)
(* and finish, purge or fail a job.  What differs between adapters is how  *)
(* they read what comes back.                                              *)
(***************************************************************************)
EXTENDS Replies, ImageAdapters, Naturals

CONSTANTS
  MaxRetries,  \* of the deployment
  PollLimit,   \* max_attempts of an image adapter's polling loop
  Nil

ASSUME AdaptersAssumption == MaxRetries \in Nat /\ PollLimit \in Nat \ {0}

VARIABLES
  who,      \* the adapter
  pc,       \* where the call is, "row" once a video's row waits for the poller
  attempt,  \* the attempt of the router
  polls,    \* polls of the image adapter in this attempt
  job,      \* what has become of the job the adapter works with
  old,      \* the row is past MAX_ACTIVE_AGE
  result,   \* what the generation came to
  bought,   \* history: generations the provider began
  last,     \* history: the last answer
  told,     \* history: the provider said how a generation ended
  missed    \* history: a finished image was not downloaded for want of an answer

progress    == <<pc, attempt, polls, result>>
history     == <<bought, last, told, missed>>
adapterVars == <<who, progress, job, old, history>>

IsVideo  == who \in DOMAIN Videos
Generate == IF IsVideo THEN Videos[who].generate ELSE Images[who].generate
Poll     == IF IsVideo THEN Videos[who].poll ELSE Images[who].poll
Fetch    == Images[who].fetch

\* A job that works or has something to deliver.
Live == {"running", "done"}

TypeOK ==
  /\ who \in DOMAIN Videos \cup DOMAIN Images
  /\ pc \in {"start", "upload", "post", "poll", "fetch", "row", "then", "over"}
  /\ attempt \in 0 .. MaxRetries
  /\ polls \in 0 .. PollLimit
  /\ job \in Live \cup {"none", "bare", "failed", "gone"}
  /\ old \in BOOLEAN
  /\ result \in {"none", "delivered", "gated", "hollow", "failed", "error", "dropped", "reaped"}
  /\ bought \in 0 .. MaxRetries + 1
  /\ last = Nil \/ last.code \in Codes
  /\ told \in BOOLEAN
  /\ missed \in BOOLEAN

AdapterInit ==
  /\ who \in DOMAIN Videos \cup DOMAIN Images
  /\ pc = "start"
  /\ attempt = 0
  /\ polls = 0
  /\ job = "none"
  /\ old = FALSE
  /\ result = "none"
  /\ bought = 0
  /\ last = Nil
  /\ told = FALSE
  /\ missed = FALSE

----------------------------------------------------------------------------
(* The provider *)

Unavailable == Silence \cup {Reply(code, word, FALSE) : code \in {"429", "5xx"},
                                                         word \in {"cut", "error"}}
Denial      == {Reply("4xx", word, FALSE) : word \in {"cut", "error"}}

PostReplies ==
  Unavailable \cup Denial
  \cup {Reply("2xx", word, word \in {"inline", "url"}) :
          word \in Generate.gives \cup {"cut", "error"}}

\* Whether the provider began to work: certain unless the answer is missing.
Begun(r) ==
  CASE r.code = "2xx" /\ r.word \in Generate.gives -> {TRUE}
    [] r.code \in Lost \cup {"5xx"} \/ (r.code = "2xx" /\ r.word = "cut") -> BOOLEAN
    [] OTHER -> {FALSE}

\* What a finished or unfinished job is answered with; "Task_not_found" is BFL's.
Words ==
  CASE job = "running"           -> {"working"}
    [] job \in {"done", "bare"}  -> Poll.done
    [] job = "failed"            -> Poll.failed \ {"Task_not_found"}
    [] OTHER                     -> {}

JobReplies ==
  Unavailable
  \cup (IF job \in {"gone", "none"}
          THEN Denial \cup {Reply("4xx", word, FALSE) :
                              word \in Poll.failed \cap {"Task_not_found"}}
          ELSE {Reply("2xx", word, job = "done") : word \in Words}
               \cup {Reply("2xx", "cut", FALSE)})

FileReplies ==
  Unavailable \cup Denial \cup {Reply("2xx", "image", TRUE), Reply("2xx", "cut", FALSE)}

\* A job ends on its own, with nothing to deliver ("bare") where the answer to the poll
\* can show it; what is finished is kept for some time.
Work ==
  /\ pc \in {"poll", "fetch", "row", "then"}
  /\ \/ /\ job = "running"
        /\ job' \in {"done", "failed", "gone"} \cup
             (IF Poll.then = "content" THEN {} ELSE {"bare"})
     \/ job \in {"done", "bare", "failed"} /\ job' = "gone"
  /\ UNCHANGED <<who, progress, old, history>>

----------------------------------------------------------------------------
(* The call *)

\* The router repeats a call that failed retryably or ran into the timeout.
Again ==
  /\ polls' = 0
  /\ IF attempt < MaxRetries
       THEN pc' = "start" /\ attempt' = attempt + 1 /\ UNCHANGED result
       ELSE pc' = "over" /\ result' = "error" /\ UNCHANGED attempt

MoveTo(step) == pc' = step /\ UNCHANGED <<attempt, polls, result>>
Over(how)  == pc' = "over" /\ result' = how /\ UNCHANGED <<attempt, polls>>

StartCall ==
  /\ pc = "start"
  /\ \/ Generate.refuses /\ Over("error")
     \/ Generate.uploads /\ MoveTo("upload")
     \/ MoveTo("post")
  /\ UNCHANGED <<who, job, old, history>>

Upload == \E r \in FileReplies :
  /\ pc = "upload"
  /\ last' = r
  /\ CASE Uploaded(r) = "again" -> Again
       [] Uploaded(r) = "fatal" -> Over("error")
       [] Uploaded(r) = "read"  -> MoveTo("upload") \/ MoveTo("post")
  /\ UNCHANGED <<who, job, old, bought, told, missed>>

Post == \E r \in PostReplies : \E begun \in Begun(r) :
  LET reading == Submitted(Generate.read, r) IN
  /\ pc = "post"
  /\ last' = r
  /\ bought' = bought + (IF begun THEN 1 ELSE 0)
  /\ told' = (told \/ r.asset \/ r.code = "4xx" \/ (r.code = "2xx" /\ r.word = "error"))
  /\ CASE reading = "again" -> Again /\ UNCHANGED job
       [] reading = "fatal" -> Over("error") /\ UNCHANGED job
       [] reading = "read"  ->
            /\ job' = CASE r.asset -> "done" [] r.word = "job" -> "running" [] OTHER -> "gone"
            /\ CASE r.word = "inline" -> Over("delivered")
                 [] r.word = "url"    -> MoveTo("fetch")
                 [] OTHER             -> MoveTo(IF IsVideo THEN "row" ELSE "poll")
  /\ UNCHANGED <<who, old, missed>>

\* The provider said how the job ended.
Concludes(r) == r.word \in Poll.done \cup Poll.failed

\* One turn of an image adapter's polling loop.
PollImage == \E r \in JobReplies :
  LET reading == Polled(Poll.read, r)
      word    == IF reading = "read" THEN r.word ELSE "none"
  IN
  /\ pc = "poll"
  /\ last' = r
  /\ told' = (told \/ Concludes(r))
  /\ CASE reading = "again"                          -> Again
       [] reading = "fatal" \/ word \in Poll.failed  -> Over("error")
       [] word \in Poll.done                         ->
            IF r.asset THEN MoveTo("fetch") ELSE Over("error")
       [] OTHER                                      ->
            IF polls + 1 = PollLimit THEN Again
            ELSE polls' = polls + 1 /\ UNCHANGED <<pc, attempt, result>>
  /\ UNCHANGED <<who, job, old, bought, missed>>

FetchImage == \E r \in FileReplies :
  LET reading == Fetched(Fetch, r) IN
  /\ pc = "fetch"
  /\ last' = r
  /\ missed' = (missed \/ r.code \in Lost)
  /\ CASE reading = "again" -> Again
       [] reading = "fatal" -> Over("error")
       [] reading = "read"  -> Over("delivered")
  /\ UNCHANGED <<who, job, old, bought, told>>

\* The router's timeout; one that hits the submission is a slow answer of Post.
GiveUp ==
  /\ pc \in {"upload", "poll", "fetch"}
  /\ missed' = (missed \/ pc = "fetch")
  /\ Again
  /\ UNCHANGED <<who, job, old, bought, last, told>>

----------------------------------------------------------------------------
(* The row of a video *)

\* A retryable error, or a job that goes on, keeps the row until it is too old.
Wait == IF old THEN Over("reaped") ELSE MoveTo("row")

\* What a body that was read says of the row.
Judged(r) ==
  CASE r.word \in Poll.failed -> "failed"
    [] r.word \in Poll.done   ->
         IF Poll.then \in {"none", "file"} /\ ~r.asset THEN Poll.bare
         ELSE IF Poll.then = "none" THEN "delivered" ELSE "then"
    [] OTHER                  -> "open"

\* poll_status, up to the request that follows it.
Ask == \E r \in JobReplies :
  LET reading == Polled(Poll.read, r) IN
  /\ pc = "row"
  /\ last' = r
  /\ told' = (told \/ Concludes(r))
  /\ CASE reading = "again" -> Wait
       [] reading = "fatal" -> Over("dropped")
       [] reading = "read"  ->
            CASE Judged(r) = "open" -> Wait
              [] Judged(r) = "then" -> MoveTo("then")
              [] OTHER              -> Over(Judged(r))
  /\ UNCHANGED <<who, job, old, bought, missed>>

\* The result of a fal request, the content of an OpenAI video, MiniMax' file.
Then == \E r \in JobReplies :
  LET reading == IF Poll.then = "content" THEN ReadContent(r) ELSE ReadPollJson(r) IN
  /\ pc = "then"
  /\ last' = r
  /\ CASE Poll.then = "file" -> Over(IF r.asset THEN "delivered" ELSE "hollow")
       [] Poll.then # "file" /\ reading = "again" -> Wait
       [] Poll.then # "file" /\ reading = "fatal" -> Over("dropped")
       [] Poll.then # "file" /\ reading = "read"  ->
            Over(CASE Poll.then = "content" -> "gated"
                   [] r.asset               -> "delivered"
                   [] OTHER                 -> Poll.bare)
  /\ UNCHANGED <<who, job, old, bought, told, missed>>

Age ==
  /\ pc \in {"row", "then"}
  /\ ~old
  /\ old' = TRUE
  /\ UNCHANGED <<who, progress, job, history>>

----------------------------------------------------------------------------

AdapterNext ==
  \/ Work
  \/ StartCall \/ Upload \/ Post \/ PollImage \/ FetchImage \/ GiveUp
  \/ Ask \/ Then \/ Age

AdapterSpec == AdapterInit /\ [][AdapterNext]_adapterVars

----------------------------------------------------------------------------
(* Properties *)

\* Adapters whose poll takes a passing failure for the end: every error object of
\* Tencent's RPC, a broken or rate limited download of an OpenAI video.
Touchy == {"hunyuan_video", "openai_video"}

\* Adapters that take an answer 4xx for a job still at work.
Deaf == {"bedrock_video", "kling_video", "leonardo_video", "runway_video"}

\* The row of a video follows its job.  It is failed before its time only if the job
\* has ended without a video, or the answer could not be read, or the adapter is one of
\* the touchy ones; and it stays open after an answer that says the job is over, or
\* does not exist, only with the adapters that do not listen (a doc comment of
\* read_poll_json says that every provider's polls do).
RowsFollowJobs == IsVideo =>
  /\ result = "failed" => job \notin Live
  /\ result = "dropped" => job \notin Live \/ last.word = "cut" \/ who \in Touchy
  /\ pc = "row" /\ last.code = "4xx" => who \in Deaf
  /\ pc = "row" /\ told => Poll.then # "none"

\* Adapters that store what the image's address answers, an error page included.
Trusting == {"bytedance_image", "recraft_image"}

\* What is delivered is what the provider made: a video's job is done when its row is
\* completed, an image comes from an answer of success.  A video is completed without
\* an address only if its job has none, or MiniMax' file could not be looked up.
DeliveredIsResult ==
  /\ result \in {"delivered", "gated"} =>
       IF IsVideo THEN job = "done" ELSE last.code = "2xx" \/ who \in Trusting
  /\ result = "hollow" => job = "bare" \/ who = "minimax_video"

\* Once the provider has said how a generation ended, refusals included, none is bought
\* any more, unless the finished image could not be fetched for want of an answer.  The
\* BFL adapter is the exception: an answer without an id is polled with an empty one.
PaidOnce == [][bought' > bought /\ told => missed \/ who = "bfl_image"]_adapterVars
============================================================================
