------------------------------ MODULE Replies ------------------------------
(***************************************************************************)
(* What can come back from one HTTP request to a provider, and the ways    *)
(* the adapters have of reading it (litegen-core/src/providers).  Every    *)
(* reading yields "again" (a ProviderError that is retryable), "fatal"     *)
(* (one that is not) or "read" (a body to look into).                      *)
(***************************************************************************)

\* No answer: timed out or not connected, or broken off before the status.
Lost  == {"slow", "reset"}
Codes == Lost \cup {"2xx", "4xx", "429", "5xx"}

\* "429" stands for 408 too.  The word is what the body says: "cut" if it is no JSON
\* or was broken off, "error" if it is JSON without what was asked for, "none" if
\* there is none.  The asset, or its address, may go with the word.
Reply(code, word, asset) == [code |-> code, word |-> word, asset |-> asset]
Silence == {Reply(code, "none", FALSE) : code \in Lost}

----------------------------------------------------------------------------
(* Submitting a generation *)

\* Body first, then the status, then the id.
SubmitJson(r) ==
  CASE r.code = "slow" -> "again"
    [] r.code = "reset" \/ r.word = "cut" -> "fatal"
    [] r.code = "5xx" /\ r.word # "cut" -> "again"
    [] OTHER -> IF r.code = "2xx" /\ r.word # "error" THEN "read" ELSE "fatal"

\* As SubmitJson, but an answer without an id is taken for one with an empty id.
SubmitLax(r) ==
  IF r.code = "2xx" /\ r.word = "error" THEN "read" ELSE SubmitJson(r)

\* The status first, the body of a failure is not parsed.  busy: 429 is retryable.
SubmitStatus(r, busy) ==
  CASE r.code = "slow" \/ r.code = "5xx" \/ (busy /\ r.code = "429") -> "again"
    [] r.code = "2xx" /\ r.word \notin {"cut", "error"} -> "read"
    [] OTHER -> "fatal"

\* The body alone: whatever the status, no id or an error code is final.
SubmitBlind(r) ==
  CASE r.code = "slow" -> "again"
    [] r.code # "slow" /\ r.word \in {"none", "cut", "error"} -> "fatal"
    [] OTHER -> "read"

Submitted(how, r) ==
  CASE how = "json"   -> SubmitJson(r)
    [] how = "lax"    -> SubmitLax(r)
    [] how = "status" -> SubmitStatus(r, FALSE)
    [] how = "busy"   -> SubmitStatus(r, TRUE)
    [] how = "blind"  -> SubmitBlind(r)

\* A reference image is uploaded before: only a lost request is retryable.
Uploaded(r) ==
  CASE r.code \in Lost -> "again"
    [] r.code = "2xx" /\ r.word = "image" -> "read"
    [] OTHER -> "fatal"

----------------------------------------------------------------------------
(* Polling a job *)

\* A faulty read_poll_json: a rate limit is taken for the end of the job.
ReadPollJsonBusy(r) ==
  CASE r.code \in Lost \cup {"5xx"} -> "again"
    [] r.code \in {"4xx", "429"} -> "fatal"
    [] OTHER -> IF r.word = "cut" THEN "fatal" ELSE "read"

ReadPollJson(r) ==
  CASE r.code \in Lost \cup {"5xx", "429"} -> "again"
    [] r.code = "4xx" -> "fatal"
    [] OTHER -> IF r.word = "cut" THEN "fatal" ELSE "read"

\* The status is not looked at.
ReadParsed(r) ==
  CASE r.code \in Lost -> "again"
    [] r.word = "cut" -> "fatal"
    [] OTHER -> "read"

\* Neither is a body that cannot be read: unwrap_or_default.
ReadLenient(r) == IF r.code \in Lost THEN "again" ELSE "read"

\* Every error object is final, a rate limit among them.
ReadRpc(r) ==
  CASE r.code = "slow" -> "again"
    [] r.code # "slow" /\ r.word \in {"none", "cut", "error"} -> "fatal"
    [] OTHER -> "read"

Polled(how, r) ==
  CASE how = "poll_json" -> ReadPollJson(r)
    [] how = "parsed"    -> ReadParsed(r)
    [] how = "lenient"   -> ReadLenient(r)
    [] how = "rpc"       -> ReadRpc(r)

----------------------------------------------------------------------------
(* Fetching the asset *)

\* A faulty fetch_image_bytes: a failed download is tried again.
FetchAgain(r) ==
  CASE r.code \in Lost \cup {"5xx", "429"} -> "again"
    [] r.code = "2xx" /\ r.word # "cut" -> "read"
    [] OTHER -> "fatal"

\* A faulty fetch_image_bytes: the status of the download is not looked at.
FetchUnchecked(r) ==
  CASE r.code \in Lost -> "again"
    [] r.word = "cut" -> "fatal"
    [] OTHER -> "read"

FetchChecked(r) ==
  CASE r.code \in Lost -> "again"
    [] r.code = "2xx" /\ r.word # "cut" -> "read"
    [] OTHER -> "fatal"

\* Whatever body arrives is taken for the image.
FetchBlind(r) ==
  CASE r.code \in Lost -> "again"
    [] r.word = "cut" -> "fatal"
    [] OTHER -> "read"

Fetched(how, r) ==
  CASE how = "checked" -> FetchChecked(r)
    [] how = "blind"   -> FetchBlind(r)

\* The content of an OpenAI video, fetched as part of the poll.
ReadContent(r) ==
  CASE r.code \in {"slow", "5xx"} -> "again"
    [] r.code = "2xx" /\ r.word # "cut" -> "read"
    [] OTHER -> "fatal"
============================================================================
