------------------------------- MODULE ChatIR -------------------------------
(***************************************************************************)
(* The intermediate representation of a chat request and of a whole chat   *)
(* answer, the ids of tool calls, and the request settings.  Text is a     *)
(* sequence of pieces (natural numbers), so that joining texts is          *)
(* concatenation and the empty string is <<>>.                             *)
(*                                                                         *)
(* A message on the wire is [role, content, calls, id] in every dialect:   *)
(* the dialects whose messages are lists of blocks leave calls and id      *)
(* empty, OpenAI chat and Cohere keep their tool calls in calls and the id *)
(* a tool message answers in id, and an item of the Responses dialect that *)
(* is not a message has its type as its role.                              *)
(***************************************************************************)
EXTENDS Vocabulary, SequencesExt

Text(d, cc)              == [k |-> "text", d |-> d, cc |-> cc]
Image(src, d)            == [k |-> "image", src |-> src, d |-> d]
Thinking(d, sig, hidden) == [k |-> "thinking", d |-> d, sig |-> sig, redacted |-> hidden]
ToolUse(id, name, d)     == [k |-> "use", id |-> id, name |-> name, d |-> d]
ToolResult(id, content)  == [k |-> "result", id |-> id, content |-> content]
Json(d)                  == [k |-> "json", d |-> d]

(* Blocks that only a wire has: Gemini names a function where the others   *)
(* have an id, and Bedrock marks a cache boundary with a block of its own. *)
FunctionCall(name, d)           == [k |-> "functionCall", name |-> name, d |-> d]
FunctionResponse(name, content) == [k |-> "functionResponse", name |-> name, content |-> content]
CachePoint                      == [k |-> "cachePoint"]

Message(role, content)       == [role |-> role, content |-> content]
Wire(role, content, calls, id) ==
  [role |-> role, content |-> content, calls |-> calls, id |-> id]

Is(kinds, b) == b.k \in kinds
Only(s, kinds) == SelectSeq(s, LAMBDA b : b.k \in kinds)
Without(s, kinds) == SelectSeq(s, LAMBDA b : b.k \notin kinds)
Each(s, Op(_)) == [i \in DOMAIN s |-> Op(s[i])]
EachFlat(s, Op(_)) == FlattenSeq(Each(s, Op))

(* The text of a list of blocks, joined. *)
Joined(s) == EachFlat(Only(s, {"text"}), LAMBDA b : b.d)
Plain(d) == Text(d, FALSE)

-----------------------------------------------------------------------------
(* Tool-call ids: an id a provider issued, the same id reshaped for a      *)
(* client of another dialect, the id made up for a Gemini function call,   *)
(* and a function's name used in place of an id.                           *)

Native(by, n)  == [t |-> "native", by |-> by, n |-> n]
Minted(p, id)  == [t |-> "minted", p |-> p, of |-> id]
NameAsId(name) == [t |-> "name", name |-> name]
EmptyId        == NameAsId("")   \* a result that came without an id

synth_tool_call_id(index, name) == [t |-> "synth", index |-> index, name |-> name]

(* Whether a dialect has a prefix of its own for tool ids. *)
native_tool_id_prefix(p) == p \in {"anthropic", "openai", "responses", "bedrock"}

(* OpenAI chat and Responses share the prefix call_. *)
SamePrefix(p, q) == p = q \/ {p, q} = {"openai", "responses"}

native_for(p, id) == IF native_tool_id_prefix(p) THEN Minted(p, id) ELSE id

decode_native_tool_id(p, id) ==
  IF id.t = "minted" /\ native_tool_id_prefix(p) /\ SamePrefix(p, id.p) THEN id.of ELSE id

DecodeBlock_ResultsOnly(p, b) ==
  IF Is({"result"}, b) THEN [b EXCEPT !.id = decode_native_tool_id(p, b.id)] ELSE b

DecodeBlock(p, b) ==
  IF Is({"use", "result"}, b) THEN [b EXCEPT !.id = decode_native_tool_id(p, b.id)] ELSE b

decode_request_tool_ids(p, messages) ==
  Each(messages, LAMBDA m :
         [m EXCEPT !.content = Each(m.content, LAMBDA b : DecodeBlock(p, b))])

remap_block(p, b) ==
  IF Is({"use", "result"}, b) THEN [b EXCEPT !.id = native_for(p, b.id)] ELSE b

-----------------------------------------------------------------------------
(* Request settings.  Token counts are in units of 1024 tokens.  A request *)
(* keeps in plain the settings that are copied as they are by the dialects *)
(* that have them.                                                         *)

Settings == {"top_p", "top_k", "stop", "penalties", "seed", "user",
             "parallel_tool_calls", "response_format", "logprobs"}

(* How hard to think: a word, a number of tokens, or as the model likes. *)
Effort(w)  == [t |-> "effort", w |-> w]
Budget(n)  == [t |-> "budget", n |-> n]
Dynamic    == [t |-> "dynamic"]

EffortTable == [minimal |-> 1, low |-> 4, medium |-> 8, high |-> 16]

to_budget(ask) ==
  CASE ask.t = "budget" -> ask.n
    [] ask.t = "effort" -> EffortTable[ask.w]
    [] ask.t = "dynamic" -> EffortTable.medium

to_effort(ask) ==
  CASE ask.t = "effort" -> ask.w
    [] ask.t = "dynamic" -> "medium"
    [] ask.t = "budget" ->
         IF ask.n >= EffortTable.high THEN "high"
         ELSE IF ask.n >= EffortTable.medium THEN "medium"
         ELSE IF ask.n >= EffortTable.low THEN "low"
         ELSE "minimal"

as_openai_reasoning_effort(w) == IF w = "minimal" THEN "low" ELSE w

-----------------------------------------------------------------------------
(* IrReq::prepare_for_egress and IrResp::prepare_for_ingress: what happens *)
(* to a request between the reader of one dialect and the writer of        *)
(* another, and to an answer on its way back.                              *)

requires_max_tokens(q) == q = "anthropic"
cache_markers_model_gated(q) == q = "bedrock"

(* What the operator declares of a lane. *)
Lane(reasoning, caching) == [reasoning |-> reasoning, caching |-> caching]

DefaultMaxTokens == 4

Uncached(b) == IF Is({"text"}, b) THEN [b EXCEPT !.cc = FALSE] ELSE b

prepare_for_egress(p, q, lane, ir) ==
  LET cache == lane.caching \/ ~cache_markers_model_gated(q)
      Gate(blocks) == IF cache THEN blocks ELSE Each(blocks, Uncached)
  IN  [ir EXCEPT
        !.max = IF @ = Nil /\ requires_max_tokens(q) THEN DefaultMaxTokens ELSE @,
        !.n = IF @ # Nil /\ @ > 1 THEN 1 ELSE @,
        !.reasoning = IF lane.reasoning THEN @ ELSE Nil,
        !.system = Gate(@),
        !.tools = SelectSeq(@, LAMBDA t : ~t.hosted),
        !.messages = decode_request_tool_ids(p,
                       Each(@, LAMBDA m : [m EXCEPT !.content = Gate(@)]))]

prepare_for_ingress(p, content) == Each(content, LAMBDA b : remap_block(p, b))
=============================================================================
