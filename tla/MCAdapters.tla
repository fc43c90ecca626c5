---------------------------- MODULE MCAdapters -----------------------------
(* Every adapter, with two retries and two polls of an image's job in each attempt. *)
EXTENDS Adapters
============================================================================
