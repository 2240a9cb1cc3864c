----------------------------- MODULE ChatReaders -----------------------------
(***************************************************************************)
(* The six readers: a request of a client, and a whole answer of an        *)
(* upstream, into the intermediate representation.                         *)
(***************************************************************************)
EXTENDS ChatIR

-----------------------------------------------------------------------------
(* Messages.  A reader yields the system blocks and the messages.          *)

Dialogue(system, messages) == [system |-> system, messages |-> messages]

OfRole(msgs, roles) == SelectSeq(msgs, LAMBDA m : m.role \in roles)

(* A dialect whose tool calls ride on the assistant message and whose tool *)
(* results are messages of their own, flattened to text.                   *)
ReadToolMessage(m) ==
  Message("tool", <<ToolResult(IF m.id = Nil THEN EmptyId ELSE m.id,
                               <<Plain(Joined(m.content))>>)>>)

ReadTurn(m) ==
  IF m.role = "tool" THEN ReadToolMessage(m)
  ELSE Message(m.role, m.content \o (IF m.role = "assistant" THEN m.calls ELSE <<>>))

(* A system message without a text still leaves an empty block. *)
OpenaiSystem(m) == IF m.content = <<>> THEN <<Plain(<<>>)>> ELSE m.content

OpenaiMessages(w) ==
  Dialogue(EachFlat(OfRole(w.messages, {"system", "developer"}), OpenaiSystem),
               Each(OfRole(w.messages, {"user", "assistant", "tool"}), ReadTurn))

CohereMessages(w) ==
  Dialogue(EachFlat(OfRole(w.messages, {"system"}), LAMBDA m : Only(m.content, {"text"})),
               Each(OfRole(w.messages, {"user", "assistant", "tool"}), ReadTurn))

AnthropicMessages(w) ==
  Dialogue(w.system \o EachFlat(OfRole(w.messages, {"system"}), LAMBDA m : m.content),
               Each(OfRole(w.messages, {"user", "assistant"}),
                    LAMBDA m : Message(m.role, m.content)))

(* A cache point marks the block before it. *)
set_preceding_block_cache_control(blocks) ==
  LET Marked(i) == i < Len(blocks) /\ blocks[i + 1].k = "cachePoint"
      ReadBlock(i) == IF Is({"text"}, blocks[i]) THEN [blocks[i] EXCEPT !.cc = Marked(i)]
                      ELSE blocks[i]
  IN  Without([i \in DOMAIN blocks |-> ReadBlock(i)], {"cachePoint"})

BedrockSystem(w) == set_preceding_block_cache_control(w.system)

BedrockMessages(w) ==
  Dialogue(BedrockSystem(w),
           Each(w.messages, LAMBDA m :
                  Message(m.role, set_preceding_block_cache_control(m.content))))

(* Gemini has no ids: a call gets one made from its index in the request,  *)
(* a response keeps the name of its function.                              *)
ReadGeminiPart(b, index) ==
  CASE b.k = "functionCall" -> ToolUse(synth_tool_call_id(index, b.name), b.name, b.d)
    [] b.k = "functionResponse" -> ToolResult(NameAsId(b.name), b.content)
    [] OTHER -> b

CallsIn(blocks) == Len(Only(blocks, {"functionCall"}))

ReadGeminiParts(parts, before) ==
  [j \in DOMAIN parts |-> ReadGeminiPart(parts[j], before + CallsIn(SubSeq(parts, 1, j - 1)))]

GeminiMessages(w) ==
  LET Before(i) == CallsIn(EachFlat(SubSeq(w.messages, 1, i - 1), LAMBDA m : m.content))
      Role(m) == IF m.role = "model" THEN "assistant" ELSE "user"
  IN  Dialogue(w.system,
        [i \in DOMAIN w.messages |->
           Message(Role(w.messages[i]), ReadGeminiParts(w.messages[i].content, Before(i)))])

(* Every item of a Responses request is a message of its own. *)
ReadItem(m) ==
  CASE m.role = "function_call" -> <<Message("assistant", m.calls)>>
    [] m.role = "function_call_output" -> <<Message("tool", <<ToolResult(m.id, m.content)>>)>>
    [] m.role = "reasoning" ->
         LET t == m.content[1]
         IN  IF t.d = <<>> /\ t.sig = Nil THEN <<>> ELSE <<Message("assistant", m.content)>>
    [] m.role \in {"user", "assistant"} -> <<Message(m.role, m.content)>>
    [] OTHER -> <<>>

ResponsesMessages(w) ==
  Dialogue(SelectSeq(w.system \o EachFlat(OfRole(w.messages, {"system", "developer"}),
                                              LAMBDA m : m.content),
                         LAMBDA b : b.d # <<>>),
               EachFlat(w.messages, ReadItem))

-----------------------------------------------------------------------------
(* Settings. *)

Request(talk, w, settings) ==
  [system |-> talk.system, messages |-> talk.messages,
   max |-> IF w.max = 0 THEN Nil ELSE w.max, temp |-> w.temp, n |-> Nil,
   tools |-> w.tools, choice |-> w.choice, reasoning |-> Nil,
   plain |-> w.plain \cap settings]

(* The ask to think, in the forms a dialect knows. *)
IfForm(ask, forms) == IF ask # Nil /\ ask.t \in forms THEN ask ELSE Nil

OpenaiSettings == Settings \ {"top_k"}
OpenaiRequest(w) ==
  [Request(OpenaiMessages(w), w, OpenaiSettings) EXCEPT
     !.n = w.n, !.reasoning = IfForm(w.reasoning, {"effort"})]

AnthropicSettings == {"top_p", "top_k", "stop", "user", "parallel_tool_calls"}
AnthropicRequest(w) ==
  [Request(AnthropicMessages(w), w, AnthropicSettings) EXCEPT
     !.reasoning = IfForm(w.reasoning, {"budget"})]

BedrockSettings == {"top_p", "top_k", "stop"}
read_bedrock_tool_choice(c) == IF c = "none" THEN Nil ELSE c
BedrockRequest(w) ==
  [Request(BedrockMessages(w), w, BedrockSettings) EXCEPT
     !.choice = read_bedrock_tool_choice(w.choice)]

CohereSettings == {"top_p", "top_k", "stop", "penalties", "seed", "response_format"}
read_cohere_tool_choice(c) == IF c \in {"required", "none"} THEN c ELSE Nil
CohereRequest(w) ==
  [Request(CohereMessages(w), w, CohereSettings) EXCEPT
     !.choice = read_cohere_tool_choice(w.choice)]

GeminiSettings == Settings \ {"user", "parallel_tool_calls"}
GeminiRequest(w) ==
  [Request(GeminiMessages(w), w, GeminiSettings) EXCEPT
     !.n = w.n, !.reasoning = IfForm(w.reasoning, {"dynamic", "budget"})]

ResponsesSettings == {"top_p", "response_format"}
ResponsesRequest(w) ==
  [Request(ResponsesMessages(w), w, ResponsesSettings) EXCEPT
     !.reasoning = IfForm(w.reasoning, {"effort"})]

read_request(p, w) ==
  CASE p = "openai" -> OpenaiRequest(w)       [] p = "anthropic" -> AnthropicRequest(w)
    [] p = "bedrock" -> BedrockRequest(w)     [] p = "cohere" -> CohereRequest(w)
    [] p = "gemini" -> GeminiRequest(w)       [] p = "responses" -> ResponsesRequest(w)

-----------------------------------------------------------------------------
(* Whole answers.  An answer on the wire is [content, calls, stop, usage]; *)
(* a reader yields the blocks, the reason to stop and the usage.           *)

Answer(content, stop, usage) == [content |-> content, stop |-> stop, usage |-> usage]

NonEmpty(b) == ~Is({"text"}, b) \/ b.d # <<>>

(* A dialect that has no reason of its own for a tool call: the calls say it. *)
StopForCalls(content, stop) ==
  IF stop = "EndTurn" /\ Only(content, {"use"}) # <<>> THEN "ToolUse" ELSE stop

OpenaiAnswer(a) ==
  Answer(SelectSeq(Only(a.content, {"thinking"}) \o Only(a.content, {"text"}), NonEmpty)
           \o a.calls,
         read_openai_stop_reason(a.stop), FromTotal(a.usage))

AnthropicAnswer(a) == Answer(a.content, read_anthropic_stop_reason(a.stop), a.usage)

BedrockAnswer(a) == Answer(a.content, stop_reason_map(a.stop), a.usage)

CohereAnswer(a) ==
  Answer(Only(a.content, {"text"}) \o a.calls, read_cohere_stop_reason(a.stop),
         [a.usage EXCEPT !.cached = Nil])

(* The index of a made-up id starts over with every answer. *)
GeminiAnswer(a) ==
  LET content == SelectSeq(ReadGeminiParts(a.content, 0), NonEmpty)
  IN  Answer(content, StopForCalls(content, map_gemini_finish_reason(a.stop)),
             FromTotal(a.usage))

ResponsesAnswer(a) ==
  LET content == SelectSeq(a.content, LAMBDA b :
                   ~(Is({"thinking"}, b) /\ b.d = <<>> /\ b.sig = Nil))
      stop == IF a.stop = "completed" THEN "EndTurn" ELSE read_responses_incomplete_reason(a.stop)
  IN  Answer(content, StopForCalls(content, stop), FromTotal(a.usage))

read_response(q, a) ==
  CASE q = "openai" -> OpenaiAnswer(a)       [] q = "anthropic" -> AnthropicAnswer(a)
    [] q = "bedrock" -> BedrockAnswer(a)     [] q = "cohere" -> CohereAnswer(a)
    [] q = "gemini" -> GeminiAnswer(a)       [] q = "responses" -> ResponsesAnswer(a)
=============================================================================
