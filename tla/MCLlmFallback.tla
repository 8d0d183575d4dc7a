--------------------------- MODULE MCLlmFallback ----------------------------
(* Instances of LlmFallback for TLC. *)
EXTENDS LlmFallback

CONSTANTS sms1, sms2, voice
=============================================================================
