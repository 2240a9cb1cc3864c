---------------------------- MODULE Conversation ----------------------------
(***************************************************************************)
(* A client of one dialect holds a conversation of several turns with      *)
(* tools through the gateway, which is stateless: every turn brings the    *)
(* whole history, goes to an upstream of any dialect (failover and         *)
(* weighting choose afresh every time), and the ids of tool calls are      *)
(* reshaped on the way to the client and recovered on the way back.  The   *)
(* operator may have gates rewrite every request before it is routed.      *)
(***************************************************************************)
EXTENDS PromptRewrite

CONSTANTS Upstreams,    \* the dialects of the lanes
          Talks         \* conversations: the client's dialect, the settings it sends, what
                        \* the operator declares of the lanes, the gates that rewrite, and
                        \* a bound on the turns

ASSUME ConversationAssumption ==
  /\ Upstreams \subseteq Protocols
  /\ \A t \in Talks : t.client \in Protocols /\ t.turns \in Nat

VARIABLES
  talk,     \* [client, ask, lane, gates, turns]: fixed for the conversation
  phase,    \* "ready": the client sends next; "held": the gateway has the request;
            \* "upstream": a lane has it; "answered"; "refused"
  history,  \* the messages the client sends with every request, in its dialect
  said,     \* what was really said, in order
  held,     \* the request in the gateway: parsed, for the first hop, and the retained
            \* bytes, and whether a gate rewrote it
  sent,     \* the request as the upstream sees it: [to, body]
  got,      \* the answer: as it was said, as it was written, as the client saw it
  turns     \* user turns so far

vars == <<talk, phase, history, said, held, sent, got, turns>>

-----------------------------------------------------------------------------
(* What was said: texts, calls (with the issuer and the id it gave) and    *)
(* results (with the call they answer).  A piece of data is the position   *)
(* at which it was said.                                                   *)

SaidText(who, d)         == [k |-> "text", who |-> who, d |-> d]
SaidCall(by, name, d)    == [k |-> "call", by |-> by, name |-> name, d |-> d]
SaidResult(of, d)        == [k |-> "result", of |-> of, d |-> d]

CallsOf(s) == SelectSeq(s, LAMBDA e : e.k = "call")

Piece(n) == <<n>>
-----------------------------------------------------------------------------
(* The client.  It replays what it was answered, the way the SDKs of its   *)
(* dialect do, and answers every call.                                     *)

Echo(p, a) ==
  CASE p \in {"openai", "cohere"} -> <<Wire("assistant", a.content, a.calls, Nil)>>
    [] p = "gemini" -> <<Wire("model", a.content, <<>>, Nil)>>
    [] p = "responses" ->
         Each(a.content, LAMBDA b :
           CASE b.k = "use" -> Wire("function_call", <<>>, <<b>>, Nil)
             [] b.k = "thinking" -> Wire("reasoning", <<b>>, <<>>, Nil)
             [] OTHER -> Wire("assistant", <<b>>, <<>>, Nil))
    [] OTHER -> <<Wire("assistant", a.content, <<>>, Nil)>>

ReceivedCalls(a) == Only(a.content, {"use", "functionCall"}) \o a.calls

(* results[i] answers calls[i]; words is what the user says besides. *)
Results(p, calls, results, words) ==
  LET R(i) == <<Plain(results[i])>> \o (IF p = "bedrock" THEN <<Json(results[i])>> ELSE <<>>)
      say == IF words = <<>> THEN <<>> ELSE <<Wire("user", words, <<>>, Nil)>>
  IN  CASE p \in {"openai", "cohere"} ->
             [i \in DOMAIN calls |-> Wire("tool", R(i), <<>>, calls[i].id)] \o say
        [] p = "responses" ->
             [i \in DOMAIN calls |-> Wire("function_call_output", R(i), <<>>, calls[i].id)] \o say
        [] p = "gemini" ->
             <<Wire("user", [i \in DOMAIN calls |-> FunctionResponse(calls[i].name, R(i))]
                              \o words, <<>>, Nil)>>
        [] OTHER ->
             <<Wire("user", [i \in DOMAIN calls |-> ToolResult(calls[i].id, R(i))] \o words,
                    <<>>, Nil)>>

(* A user's words; a client that marks cache boundaries marks this one. *)
Words(p, d) ==
  CASE p = "anthropic" -> <<Text(d, TRUE)>>
    [] p = "bedrock" -> <<Plain(d), CachePoint>>
    [] OTHER -> <<Plain(d)>>

(* The first message shows a picture, by a reference only its vendor can   *)
(* resolve where the dialect has one.                                      *)
Picture(p) ==
  Image(CASE p = "bedrock" -> "s3" [] p = "responses" -> "file" [] OTHER -> "url", <<>>)

Prompt == <<0>>
KeepsSystemApart == {"anthropic", "bedrock", "gemini", "responses"}

ClientRequest(t, h) ==
  [system |-> IF t.client \in KeepsSystemApart THEN <<Plain(Prompt)>> ELSE <<>>,
   messages |-> (IF t.client \in KeepsSystemApart THEN <<>>
                 ELSE <<Wire("system", <<Plain(Prompt)>>, <<>>, Nil)>>) \o h,
   max |-> t.ask.max, temp |-> t.ask.temp, n |-> t.ask.n, tools |-> t.ask.tools,
   choice |-> t.ask.choice, reasoning |-> t.ask.reasoning, plain |-> t.ask.plain]

-----------------------------------------------------------------------------
(* The upstreams.  An answer has a shape; the lane issues ids of its own.  *)

Shapes == {"text", "cut", "thoughts", "call", "calls", "twins"}
CallNames(shape) ==
  CASE shape = "call" -> <<"f">>
    [] shape = "calls" -> <<"f", "g">>
    [] shape = "twins" -> <<"f", "f">>
    [] OTHER -> <<>>
HasText(shape) == shape \notin {"calls", "twins"}

NativeCall(q, name, d) ==
  IF q = "gemini" THEN FunctionCall(name, Piece(d)) ELSE ToolUse(Native(q, d), name, Piece(d))

NativeThoughts(q, d) ==
  CASE q \in {"anthropic", "bedrock"} -> <<Thinking(Piece(d), "signed", FALSE),
                                          Thinking(Piece(d), Nil, TRUE)>>
    [] q \in {"gemini", "responses", "openai"} -> <<Thinking(Piece(d), Nil, FALSE)>>
    [] OTHER -> <<>>

NativeStop(q, shape) ==
  LET row == CASE q = "openai" -> <<"stop", "length", "tool_calls">>
               [] q \in {"anthropic", "bedrock"} -> <<"end_turn", "max_tokens", "tool_use">>
               [] q = "cohere" -> <<"COMPLETE", "MAX_TOKENS", "TOOL_CALL">>
               [] q = "gemini" -> <<"STOP", "MAX_TOKENS", "STOP">>
               [] q = "responses" -> <<"completed", "max_output_tokens", "completed">>
  IN  CASE shape = "cut" -> row[2] [] CallNames(shape) # <<>> -> row[3] [] OTHER -> row[1]

(* Five tokens of prompt, two of them from the cache. *)
NativeUsage(q) ==
  CASE q \in {"openai", "gemini", "responses"} -> Usage(5, 2, 1)
    [] q = "cohere" -> Usage(3, Nil, 1)
    [] OTHER -> Usage(3, 2, 1)

(* The text and the calls of a shape, with their positions. *)
Spoken(q, shape, s) ==
  LET words == IF HasText(shape) THEN <<SaidText("assistant", Len(s) + 1)>> ELSE <<>>
      from == Len(s) + Len(words)
      names == CallNames(shape)
  IN  words \o [i \in DOMAIN names |-> SaidCall(q, names[i], from + i)]

NativeAnswer(q, shape, s) ==
  LET spoken == Spoken(q, shape, s)
      texts == [i \in DOMAIN SelectSeq(spoken, LAMBDA e : e.k = "text") |-> Plain(Piece(spoken[i].d))]
      calls == Each(CallsOf(spoken), LAMBDA e : NativeCall(q, e.name, e.d))
      blocks == (IF shape = "thoughts" THEN NativeThoughts(q, 100) ELSE <<>>) \o texts
      apart == q \in {"openai", "cohere"}
  IN  WireAnswer(IF apart THEN blocks ELSE blocks \o calls, IF apart THEN calls ELSE <<>>,
                 NativeStop(q, shape), NativeUsage(q))

-----------------------------------------------------------------------------
Init ==
  /\ talk \in Talks
  /\ phase = "ready"
  /\ history = <<Wire("user", Append(Words(talk.client, Piece(1)), Picture(talk.client)), <<>>, Nil)>>
  /\ said = <<SaidText("user", 1)>>
  /\ held = Nil
  /\ sent = Nil
  /\ got = Nil
  /\ turns = 1

(* The request arrives: the gates see the parsed body, and what they make   *)
(* of it takes the place of the retained bytes too.                        *)
Retained_AsReceived(bytes, pass) == bytes

Retained(bytes, pass) == IF pass.applied THEN pass.body ELSE bytes

Arrive ==
  LET w == ClientRequest(talk, history)
      pass == apply_global_rewrites(talk.client, w, talk.gates)
  IN  /\ phase = "ready"
      /\ IF pass.refused
         THEN phase' = "refused" /\ UNCHANGED held
         ELSE /\ phase' = "held"
              /\ held' = [first |-> TRUE, dom |-> pass.body, bytes |-> Retained(w, pass),
                          rewritten |-> pass.applied]
      /\ UNCHANGED <<talk, history, said, sent, got, turns>>

(* An attempt on one lane.  The first hop consumes the parsed body, unless  *)
(* the lane speaks the client's dialect and gets the bytes as they are; a  *)
(* later one parses the retained bytes afresh.                             *)
Attempt(q) ==
  LET w == IF held.first /\ q # talk.client THEN held.dom ELSE held.bytes
  IN  /\ phase = "held"
      /\ sent' = [to |-> q, body |-> translate_request(talk.client, q, talk.lane, w)]
      /\ held' = [held EXCEPT !.first = FALSE]
      /\ phase' = "upstream"
      /\ UNCHANGED <<talk, history, said, got, turns>>

AttemptFails ==
  /\ phase = "upstream"
  /\ phase' = "held"
  /\ sent' = Nil
  /\ UNCHANGED <<talk, history, said, held, got, turns>>

Reply(shape) ==
  LET q == sent.to
      a == NativeAnswer(q, shape, said)
      seen == translate_response(talk.client, q, a)
  IN  /\ phase = "upstream"
      /\ CallNames(shape) # <<>> => sent.body.tools # <<>>
      /\ got' = [native |-> a, seen |-> seen, by |-> q, said |-> Spoken(q, shape, said)]
      /\ history' = history \o Echo(talk.client, seen)
      /\ said' = said \o Spoken(q, shape, said)
      /\ phase' = "answered"
      /\ sent' = Nil
      /\ held' = Nil
      /\ UNCHANGED <<talk, turns>>

(* The client answers the calls it received, or goes on talking, or both. *)
ClientTurn(speaks) ==
  LET calls == ReceivedCalls(got.seen)
      open == CallsOf(got.said)
      results == [i \in DOMAIN open |-> SaidResult(open[i].d, Len(said) + i)]
      d == Len(said) + Len(results) + 1
  IN  /\ phase = "answered"
      /\ turns < talk.turns
      /\ Len(calls) = Len(open)
      /\ open = <<>> => speaks
      /\ history' = history \o Results(talk.client, calls, Each(results, LAMBDA r : Piece(r.d)),
                                       IF speaks THEN Words(talk.client, Piece(d)) ELSE <<>>)
      /\ said' = said \o results \o (IF speaks THEN <<SaidText("user", d)>> ELSE <<>>)
      /\ phase' = "ready"
      /\ turns' = turns + 1
      /\ got' = Nil
      /\ UNCHANGED <<talk, held, sent>>

Next ==
  \/ Arrive
  \/ \E q \in Upstreams : Attempt(q)
  \/ AttemptFails
  \/ \E shape \in Shapes : Reply(shape)
  \/ \E speaks \in BOOLEAN : ClientTurn(speaks)

Spec == Init /\ [][Next]_vars

-----------------------------------------------------------------------------
(* What the upstream sees. *)

Blocks(w) == EachFlat(w.messages, LAMBDA m :
  IF m.role \in {"system", "developer"} THEN <<>>
  ELSE IF m.role \in {"tool", "function_call_output"} THEN <<ToolResult(m.id, m.content)>>
  ELSE m.content \o m.calls)

TextPieces(w) == EachFlat(Only(Blocks(w), {"text"}), LAMBDA b : b.d)
CallPieces(w) == EachFlat(Only(Blocks(w), {"use", "functionCall"}), LAMBDA b : b.d)
ResultPieces(w) ==
  EachFlat(Only(Blocks(w), {"result", "functionResponse"}), LAMBDA b : Joined(b.content))

SystemPieces(w) ==
  Joined(w.system) \o EachFlat(OfRole(w.messages, {"system"}), LAMBDA m : Joined(m.content))

Positions(s, kind) == Each(SelectSeq(s, LAMBDA e : e.k = kind), LAMBDA e : e.d)

InFlight == phase = "upstream" /\ ~held.rewritten

(* A piece is the position at which it was said, so order is order of     *)
(* numbers.  The Responses writer puts what a message says before the      *)
(* items of its calls and results (tool_items): the words of a user who    *)
(* answers calls and goes on talking in one message come before the        *)
(* results.                                                                *)
AllPieces(w) ==
  EachFlat(Only(Blocks(w), {"text", "use", "functionCall", "result", "functionResponse"}), LAMBDA b :
    IF b.k \in {"result", "functionResponse"} THEN Joined(b.content) ELSE b.d)
WordsBeforeResults(words, result) ==
  /\ sent.to = "responses"
  /\ said[words].k = "text" /\ said[words].who = "user"
  /\ \A d \in result..(words - 1) : said[d].k = "result"
InOrder(pieces) ==
  \A i, j \in DOMAIN pieces :
    i < j => pieces[i] < pieces[j] \/ WordsBeforeResults(pieces[i], pieces[j])

(* Whatever dialect the client speaks and whichever lanes answered before, *)
(* the system prompt and every text, call and tool result of the           *)
(* conversation reach the upstream exactly once, and in the order in which *)
(* they were said, but for the words that Responses gets early.            *)
ContentArrives ==
  InFlight =>
    /\ SystemPieces(sent.body) = Prompt
    /\ TextPieces(sent.body) = Positions(said, "text")
    /\ CallPieces(sent.body) = Positions(said, "call")
    /\ ResultPieces(sent.body) = Positions(said, "result")
    /\ InOrder(AllPieces(sent.body))

(* What a gate put in place of the turns is what every lane gets, on the    *)
(* first hop and after a failed one, translated or as it is: each text in   *)
(* the mouth of the one who said it, in order, and nothing of the turns the *)
(* gate replaced.  (A Gemini client's thoughts come back as its words.)    *)
Spoke(w, roles) ==
  SelectSeq(EachFlat(OfRole(w.messages, roles), LAMBDA m : Joined(m.content)),
            LAMBDA d : d # 1100)
SaidBy(who) == Each(SelectSeq(said, LAMBDA e : e.k = "text" /\ e.who = who), LAMBDA e : e.d)

RewriteReaches ==
  phase = "upstream" /\ held.rewritten =>
    /\ Spoke(sent.body, {"user"}) = Redacted(SaidBy("user"))
    /\ Spoke(sent.body, {"assistant", "model"}) = Redacted(SaidBy("assistant"))
    /\ CallPieces(sent.body) = <<>>
    /\ \A d \in Range(TextPieces(sent.body) \o ResultPieces(sent.body)) : d > 1000
    /\ Only(Blocks(sent.body), {"thinking", "image", "json"}) = <<>>

(* A tool result names the call it answers: of the calls before it that    *)
(* carry its id the nearest is the call the client answered.  A Gemini     *)
(* upstream is given names: the responses of a function answer its calls   *)
(* in order.  A Gemini client has no ids to give back, so only an upstream *)
(* of its own dialect can pair its results.                                *)
Ordinal(b, i) == Cardinality({h \in 1..i : b[h].k = b[i].k /\ b[h].name = b[i].name})
Answers(w, i, j) ==
  LET b == Blocks(w)
  IN  /\ j < i
      /\ \/ b[i].k = "result" /\ b[j].k = "use" /\ b[j].id = b[i].id
         \/ /\ b[i].k = "functionResponse" /\ b[j].k = "functionCall"
            /\ b[j].name = b[i].name /\ Ordinal(b, j) = Ordinal(b, i)

ResultsAnswerCalls ==
  InFlight /\ (talk.client = "gemini" => sent.to = "gemini") =>
    LET b == Blocks(sent.body)
    IN  \A i \in DOMAIN b : \A e \in Range(said) :
          (/\ b[i].k \in {"result", "functionResponse"}
           /\ e.k = "result"
           /\ Joined(b[i].content) = Piece(e.d)) =>
             \E j \in DOMAIN b :
               /\ Answers(sent.body, i, j)
               /\ b[j].d = Piece(e.of)
               /\ \A k \in DOMAIN b : Answers(sent.body, i, k) => k <= j

(* An upstream that issued a call sees its own id on it again, however the *)
(* id was reshaped for the client and whoever answered in between.         *)
IssuerSeesItsId ==
  InFlight /\ talk.client # "gemini" =>
    \A b \in Range(Only(Blocks(sent.body), {"use"})) :
      \A e \in Range(CallsOf(said)) :
        (b.d = Piece(e.d) /\ e.by = sent.to) => b.id = Native(sent.to, e.d)

(* Calls and results stay paired under ids their issuers know, however ids  *)
(* are reshaped on the way (decode_request_tool_ids, the tool id codecs of   *)
(* the readers and writers).                                               *)
CallsStayPaired == ResultsAnswerCalls /\ IssuerSeesItsId

(* What the dialect of the upstream demands of a translated request. *)
BedrockAccepts(w) ==
  /\ \A i \in DOMAIN w.messages : w.messages[i].content # <<>>
  /\ \A i \in 1..(Len(w.messages) - 1) : w.messages[i].role # w.messages[i + 1].role
  /\ w.choice # Nil => w.tools # <<>>
  /\ talk.lane.caching \/ Only(Blocks(w) \o w.system, {"cachePoint"}) = <<>>

(* A choice among tools needs tools; the one exception are hosted tools,   *)
(* which are taken out while the choice stays.                             *)
AllHosted == talk.ask.tools # <<>> /\ \A t \in Range(talk.ask.tools) : t.hosted

AnthropicAccepts(w) ==
  /\ w.max # Nil
  /\ w.choice # Nil => w.tools # <<>> \/ AllHosted
  /\ \A b \in Range(Blocks(w)) : b.k = "thinking" => b.sig # Nil \/ b.redacted
  /\ w.reasoning # Nil =>
       /\ w.reasoning.n \in 1..(w.max - 1)
       /\ w.temp = Nil
       /\ w.choice \notin {"required", "tool"}
       /\ w.plain \cap {"top_p", "top_k"} = {}

(* A tool message comes after the message with the call it answers, with   *)
(* nothing between them but other tool messages.  Parallel calls of a      *)
(* Responses client are messages each, and stand between as well; the      *)
(* results of a Gemini client name no call.                                *)
BetweenCallAndResult(m) ==
  m.role = "tool" \/ (talk.client = "responses" /\ m.calls # <<>> /\ m.content = <<>>)
FollowsItsCall(w, i) ==
  \E j \in 1..(i - 1) :
    /\ \A k \in (j + 1)..(i - 1) : BetweenCallAndResult(w.messages[k])
    /\ IF talk.client = "gemini" THEN w.messages[j].calls # <<>>
       ELSE \E c \in Range(w.messages[j].calls) : c.id = w.messages[i].id

OpenaiAccepts(w) ==
  /\ \A i \in DOMAIN w.messages : w.messages[i].role = "tool" => FollowsItsCall(w, i)
  /\ w.reasoning # Nil => w.reasoning.w \in {"low", "medium", "high"}

(* Gemini wants user and model to alternate.  The writer keeps every       *)
(* message, an empty one too, so that it breaks no alternation; it does    *)
(* not restore one that the client's dialect does not have, where every    *)
(* result and every Responses item is a message.                           *)
Side(m) == IF m.role \in {"assistant", "model", "function_call", "reasoning"} THEN "model" ELSE "user"
Alternate(messages) ==
  \A i \in 1..(Len(messages) - 1) : Side(messages[i]) # Side(messages[i + 1])

GeminiAccepts(w) ==
  /\ \A i \in DOMAIN w.messages : w.messages[i].content # <<>>
  /\ Alternate(history) => Alternate(w.messages)

(* A translated request keeps to the rules of the dialect it is written    *)
(* in, as the writers state them, however the history it was made of came  *)
(* about: alternating roles and cache marks (Bedrock), roles that          *)
(* alternate if the client's did (Gemini), signed thinking, a budget below *)
(* max_tokens and a tool choice only beside tools (Anthropic), tool        *)
(* messages directly after their calls (OpenAI); one candidate, no hosted  *)
(* tool, no reference only another vendor can resolve, and no thinking for *)
(* a lane that does not think.  The exceptions are those named above:      *)
(* hosted tools, split parallel calls, the results of a Gemini client.     *)
TranslationIsAccepted ==
  LET w == sent.body
      q == sent.to
  IN  InFlight /\ talk.client # q =>
        /\ w.n = Nil \/ w.n <= 1
        /\ talk.lane.reasoning \/ w.reasoning = Nil
        /\ \A t \in Range(w.tools) : ~t.hosted
        /\ \A b \in Range(Blocks(w)) :
             /\ b.k = "image" => (b.src = "s3" => q = "bedrock") /\ (b.src = "file" => q = "responses")
             /\ b.k = "result" /\ q # "bedrock" => Only(b.content, {"json"}) = <<>>
        /\ q \in {"anthropic", "bedrock", "cohere"} => w.temp \in {Nil, 0, 1}
        /\ q = "bedrock" => BedrockAccepts(w)
        /\ q = "anthropic" => AnthropicAccepts(w)
        /\ q = "openai" => OpenaiAccepts(w)
        /\ q = "gemini" => GeminiAccepts(w)

(* The client sees what the upstream said: the same text and calls, a reason *)
(* to stop that means the same in its dialect, and the same tokens (Cohere   *)
(* has no field for the cached ones).                                      *)
ClientTokens(p, u) ==
  IF p \in {"openai", "gemini", "responses"} THEN u.inp ELSE u.inp + OrZero(u.cached)

AnswerFaithful ==
  phase = "answered" =>
    LET p == talk.client
        seen == got.seen
        truth == got.said
    IN  /\ Joined(seen.content) = Positions(truth, "text")
        /\ Each(ReceivedCalls(seen), LAMBDA b : <<b.name, b.d>>) =
             Each(CallsOf(truth), LAMBDA e : <<e.name, Piece(e.d)>>)
        /\ read_response(p, seen).stop = read_response(got.by, got.native).stop
        /\ p # "cohere" =>
             ClientTokens(p, seen.usage) = ClientTokens(got.by, got.native.usage)
        /\ seen.usage.outp = 1

(* Nothing of the conversation is lost or repeated on its way to the       *)
(* upstream or back, nor put in another order on its way to the upstream,  *)
(* but for the words Responses gets early (the chat readers and writers).  *)
NothingIsLost == ContentArrives /\ AnswerFaithful
=============================================================================
