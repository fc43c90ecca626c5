--------------------------- MODULE VideoAdapters ---------------------------
(***************************************************************************)
(* The video adapters (providers/video): how each submits a generation and *)
(* how it reads the words its provider answers a poll with.                *)
(***************************************************************************)

\* generate: how the answer to the submission is read, whether it may refuse a
\* request that lacks what the model needs, whether it uploads images before, and
\* what a good answer holds.
Submits(how)  == [read |-> how, refuses |-> FALSE, uploads |-> FALSE, gives |-> {"job"}]
Choosy(gen)   == [gen EXCEPT !.refuses = TRUE]
Uploading(gen) == [gen EXCEPT !.uploads = TRUE]

\* poll_status: how an answer is read, the words for a job that is done and for one
\* that failed (an underscore for a blank), what done without an address comes to, and
\* the request that follows.
Polls(how, done, failed, bare) ==
  [read |-> how, done |-> done, failed |-> failed, bare |-> bare, then |-> "none"]
Before(request, poll) == [poll EXCEPT !.then = request]

----------------------------------------------------------------------------

BedrockGenerate == Choosy(Submits("json"))
BedrockPoll     == Polls("lenient", {"Completed"}, {"Failed"}, "hollow")

BytedanceGenerate == Submits("json")
BytedancePoll     ==
  Polls("poll_json", {"succeeded"}, {"failed", "cancelled", "expired"}, "hollow")

\* strict_completion: of some models an error or a missing address is a failure.
FalGenerate     == Choosy(Submits("json"))
FalPoll(strict) == Before("result",
  IF strict
    THEN Polls("poll_json", {"COMPLETED"}, {"FAILED", "COMPLETED_with_error"}, "failed")
    ELSE Polls("poll_json", {"COMPLETED"}, {"FAILED"}, "hollow"))

GoogleGenerate == Submits("json")
GooglePoll     == Polls("poll_json", {"done"}, {"done_with_error"}, "failed")

HunyuanGenerate == Choosy(Submits("blind"))
HunyuanPoll     == Polls("rpc", {"DONE"}, {"FAIL"}, "failed")

KlingGenerate == Submits("blind")
KlingPoll     == Polls("lenient", {"succeed"}, {"failed"}, "hollow")

LeonardoGenerate == Choosy(Uploading(Submits("blind")))
LeonardoPoll     == Polls("lenient", {"COMPLETE"}, {"FAILED"}, "hollow")

LumaGenerate == Submits("json")
LumaPoll     == Polls("poll_json", {"completed"}, {"failed"}, "hollow")

MinimaxGenerate == Submits("json")
MinimaxPoll     == Before("file", Polls("poll_json", {"Success"}, {"Fail"}, "hollow"))

MinimaxV2Generate == Submits("busy")
MinimaxV2Poll     == Polls("poll_json", {"succeeded"}, {"failed", "cancelled"}, "failed")

OpenaiGenerate == Submits("json")
OpenaiPoll     ==
  Before("content", Polls("poll_json", {"completed", "succeeded"}, {"failed"}, "hollow"))

PixverseGenerate == Uploading(Submits("blind"))
PixversePoll     == Polls("poll_json", {"1"}, {"7", "8"}, "hollow")

ReplicateGenerate == Submits("json")
ReplicatePoll     == Polls("poll_json", {"succeeded"}, {"failed", "canceled"}, "hollow")

RunwayGenerate == Choosy(Submits("json"))
RunwayPoll     == Polls("parsed", {"SUCCEEDED"}, {"FAILED", "CANCELLED"}, "hollow")

ViduGenerate == Choosy(Submits("json"))
ViduPoll     == Polls("poll_json", {"success"}, {"failed"}, "hollow")

----------------------------------------------------------------------------

VideoAdapter(generate, poll) == [generate |-> generate, poll |-> poll]

Videos ==
  [bedrock_video   |-> VideoAdapter(BedrockGenerate, BedrockPoll),
   bytedance_video |-> VideoAdapter(BytedanceGenerate, BytedancePoll),
   fal_video       |-> VideoAdapter(FalGenerate, FalPoll(FALSE)),
   fal_strict      |-> VideoAdapter(FalGenerate, FalPoll(TRUE)),
   google_video    |-> VideoAdapter(GoogleGenerate, GooglePoll),
   hunyuan_video   |-> VideoAdapter(HunyuanGenerate, HunyuanPoll),
   kling_video     |-> VideoAdapter(KlingGenerate, KlingPoll),
   leonardo_video  |-> VideoAdapter(LeonardoGenerate, LeonardoPoll),
   luma_video      |-> VideoAdapter(LumaGenerate, LumaPoll),
   minimax_video   |-> VideoAdapter(MinimaxGenerate, MinimaxPoll),
   minimax_v2      |-> VideoAdapter(MinimaxV2Generate, MinimaxV2Poll),
   openai_video    |-> VideoAdapter(OpenaiGenerate, OpenaiPoll),
   pixverse_video  |-> VideoAdapter(PixverseGenerate, PixversePoll),
   replicate_video |-> VideoAdapter(ReplicateGenerate, ReplicatePoll),
   runway_video    |-> VideoAdapter(RunwayGenerate, RunwayPoll),
   vidu_video      |-> VideoAdapter(ViduGenerate, ViduPoll)]
============================================================================
