---------------------------- MODULE Vocabulary ----------------------------
(***************************************************************************)
(* What the six protocols call the same things: the reasons an answer      *)
(* stops, and the tokens it used.                                          *)
(***************************************************************************)
EXTENDS Naturals, Sequences, FiniteSets

CONSTANT Nil            \* an absent field

ASSUME VocabularyAssumption == Nil \notin Nat

Protocols == {"openai", "anthropic", "bedrock", "cohere", "gemini", "responses"}

StopReasons == {"EndTurn", "StopSequence", "MaxTokens", "ToolUse", "Safety",
                "Refusal", "PauseTurn", "Error", "Other"}

-----------------------------------------------------------------------------
(* Token usage.  The IR keeps the uncached input and the cache hits apart. *)

Usage(inp, cached, outp) == [inp |-> inp, cached |-> cached, outp |-> outp]
NoUsage == Usage(0, Nil, 0)

OrZero(n) == IF n = Nil THEN 0 ELSE n
HasUsage(u) == u.inp # 0 \/ u.outp # 0 \/ OrZero(u.cached) # 0

(* Protocols whose prompt count is a total that includes the cache hits. *)
FromTotal(w) ==
  LET hit == OrZero(w.cached)
  IN  Usage(IF w.inp < hit THEN 0 ELSE w.inp - hit, w.cached, w.outp)
ToTotal(u) == Usage(u.inp + OrZero(u.cached), u.cached, u.outp)

(* A later report overrides what it states and leaves the rest. *)
MergeUsage(acc, u) ==
  Usage(IF u.inp # 0 THEN u.inp ELSE acc.inp,
        IF u.cached # Nil THEN u.cached ELSE acc.cached,
        IF u.outp # 0 THEN u.outp ELSE acc.outp)

-----------------------------------------------------------------------------
(* Stop reasons: the IR reason of a native token, and the native token of  *)
(* an IR reason, for each protocol.                                        *)

read_openai_stop_reason(w) ==
  CASE w = "stop" -> "EndTurn" [] w = "length" -> "MaxTokens"
    [] w \in {"tool_calls", "function_call"} -> "ToolUse"
    [] w = "content_filter" -> "Safety" [] OTHER -> "Other"

write_openai_stop_reason(s) ==
  CASE s = "MaxTokens" -> "length" [] s = "ToolUse" -> "tool_calls"
    [] s = "Safety" -> "content_filter" [] OTHER -> "stop"

read_anthropic_stop_reason(w) ==
  CASE w = "end_turn" -> "EndTurn" [] w = "max_tokens" -> "MaxTokens"
    [] w = "stop_sequence" -> "StopSequence" [] w = "tool_use" -> "ToolUse"
    [] w = "pause_turn" -> "PauseTurn" [] w = "refusal" -> "Refusal"
    [] OTHER -> "Other"

write_anthropic_stop_reason(s) ==
  CASE s = "MaxTokens" -> "max_tokens" [] s = "ToolUse" -> "tool_use"
    [] s = "StopSequence" -> "stop_sequence" [] s = "PauseTurn" -> "pause_turn"
    [] s = "Refusal" -> "refusal" [] OTHER -> "end_turn"

stop_reason_map(w) ==
  CASE w = "end_turn" -> "EndTurn" [] w = "max_tokens" -> "MaxTokens"
    [] w = "stop_sequence" -> "StopSequence" [] w = "tool_use" -> "ToolUse"
    [] w \in {"content_filtered", "guardrail_intervened"} -> "Safety"
    [] OTHER -> "Other"

stop_reason_reverse(s) ==
  CASE s = "MaxTokens" -> "max_tokens" [] s = "ToolUse" -> "tool_use"
    [] s = "StopSequence" -> "stop_sequence" [] s = "Safety" -> "content_filtered"
    [] OTHER -> "end_turn"

read_cohere_stop_reason(w) ==
  CASE w = "COMPLETE" -> "EndTurn" [] w = "MAX_TOKENS" -> "MaxTokens"
    [] w = "TOOL_CALL" -> "ToolUse" [] w = "STOP_SEQUENCE" -> "StopSequence"
    [] w = "ERROR_TOXIC" -> "Safety" [] w = "ERROR" -> "Error"
    [] OTHER -> "Other"

write_cohere_stop_reason(s) ==
  CASE s = "MaxTokens" -> "MAX_TOKENS" [] s = "ToolUse" -> "TOOL_CALL"
    [] s = "StopSequence" -> "STOP_SEQUENCE" [] s = "Safety" -> "ERROR_TOXIC"
    [] s = "Error" -> "ERROR" [] OTHER -> "COMPLETE"

map_gemini_finish_reason(w) ==
  CASE w = "STOP" -> "EndTurn" [] w = "MAX_TOKENS" -> "MaxTokens"
    [] w \in {"SAFETY", "RECITATION", "IMAGE_SAFETY", "SPII", "BLOCKLIST",
              "PROHIBITED_CONTENT"} -> "Safety"
    [] w = "MALFORMED_FUNCTION_CALL" -> "Error" [] OTHER -> "Other"

write_gemini_stop_reason(s) ==
  CASE s = "MaxTokens" -> "MAX_TOKENS" [] s = "Safety" -> "SAFETY"
    [] s \in {"EndTurn", "StopSequence", "ToolUse"} -> "STOP"
    [] OTHER -> "OTHER"

read_responses_incomplete_reason(w) ==
  CASE w = "max_output_tokens" -> "MaxTokens" [] w = "content_filter" -> "Safety"
    [] w = "refusal" -> "Refusal" [] OTHER -> "Other"

write_responses_status(s) ==
  IF s \in {"MaxTokens", "Safety"} THEN "incomplete" ELSE "completed"

write_responses_incomplete_reason(s) ==
  CASE s = "MaxTokens" -> "max_output_tokens" [] s = "Safety" -> "content_filter"
    [] OTHER -> "other"
=============================================================================
