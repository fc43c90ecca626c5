--------------------------- MODULE ImageAdapters ---------------------------
(***************************************************************************)
(* The image adapters (providers/image): generate submits, polls a job if  *)
(* the provider works on one, and fetches the image, all in one call.      *)
(***************************************************************************)
EXTENDS VideoAdapters

\* An answer gives a job to poll, the image itself or its address.
Gives(gen, what) == [gen EXCEPT !.gives = what]

\* A done job without an address is an error: Polls(..., "failed").
ImageAdapter(generate, poll, fetch) ==
  [generate |-> generate, poll |-> poll, fetch |-> fetch]

NoPoll == Polls("parsed", {}, {}, "failed")
AtOnce(generate, fetch) == ImageAdapter(generate, NoPoll, fetch)

----------------------------------------------------------------------------
(* Jobs *)

BflImagePoll ==
  Polls("parsed", {"Ready"},
        {"Error", "Content_Moderated", "Request_Moderated", "Task_not_found"}, "failed")
BflImage == ImageAdapter(Submits("lax"), BflImagePoll, "checked")

\* rpc, SubmitHunyuanImageJob and Image 3.0 alike.
HunyuanImagePoll == Polls("rpc", {"5"}, {"4"}, "failed")
HunyuanImage     == ImageAdapter(Submits("blind"), HunyuanImagePoll, "checked")
HunyuanImage3    == ImageAdapter(Submits("blind"), HunyuanImagePoll, "checked")

KlingImagePoll == Polls("lenient", {"succeed"}, {"failed"}, "failed")
KlingImage     == ImageAdapter(Submits("blind"), KlingImagePoll, "checked")

LeonardoImagePoll == Polls("lenient", {"COMPLETE"}, {"FAILED"}, "failed")
LeonardoImage     == ImageAdapter(Uploading(Submits("blind")), LeonardoImagePoll, "checked")

LumaImagePoll == Polls("parsed", {"completed"}, {"failed"}, "failed")
LumaImage     == ImageAdapter(Submits("json"), LumaImagePoll, "checked")

\* A prediction that succeeded while it was submitted is not polled.
ReplicateImagePoll == Polls("parsed", {"succeeded"}, {"failed", "canceled"}, "failed")
ReplicateImage     ==
  ImageAdapter(Gives(Submits("json"), {"job", "url"}), ReplicateImagePoll, "checked")

RunwayImagePoll == Polls("parsed", {"SUCCEEDED"}, {"FAILED", "CANCELLED"}, "failed")
RunwayImage     == ImageAdapter(Submits("json"), RunwayImagePoll, "checked")

----------------------------------------------------------------------------
(* Images in the answer *)

BedrockImage   == AtOnce(Gives(Submits("json"), {"inline"}), "checked")
BytedanceImage == AtOnce(Gives(Submits("json"), {"inline", "url"}), "blind")
FalImage       == AtOnce(Gives(Submits("json"), {"url"}), "checked")
GoogleImage    == AtOnce(Gives(Submits("json"), {"inline"}), "checked")
IdeogramImage  == AtOnce(Gives(Submits("json"), {"url"}), "checked")
MinimaxImage   == AtOnce(Gives(Submits("json"), {"inline"}), "checked")
OpenaiImage    == AtOnce(Gives(Submits("json"), {"inline", "url"}), "checked")
RecraftImage   == AtOnce(Gives(Submits("json"), {"inline", "url"}), "blind")

\* The V2 API answers with the bytes of the image, the V1 API with JSON.
StabilityImage(v2) ==
  AtOnce(Gives(Submits(IF v2 THEN "status" ELSE "json"), {"inline"}), "checked")

Images ==
  [bedrock_image   |-> BedrockImage,
   bfl_image       |-> BflImage,
   bytedance_image |-> BytedanceImage,
   fal_image       |-> FalImage,
   google_image    |-> GoogleImage,
   hunyuan_image   |-> HunyuanImage,
   hunyuan_image3  |-> HunyuanImage3,
   ideogram_image  |-> IdeogramImage,
   kling_image     |-> KlingImage,
   leonardo_image  |-> LeonardoImage,
   luma_image      |-> LumaImage,
   minimax_image   |-> MinimaxImage,
   openai_image    |-> OpenaiImage,
   recraft_image   |-> RecraftImage,
   replicate_image |-> ReplicateImage,
   runway_image    |-> RunwayImage,
   stability_v1    |-> StabilityImage(FALSE),
   stability_v2    |-> StabilityImage(TRUE)]
============================================================================
