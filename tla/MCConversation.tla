--------------------------- MODULE MCConversation ---------------------------
EXTENDS Conversation

Function(name) == [name |-> name, hosted |-> FALSE]
Hosted == [name |-> "web_search", hosted |-> TRUE]

BaseAsk ==
  [max |-> Nil, temp |-> Nil, n |-> Nil, tools |-> <<Function("f"), Function("g")>>,
   choice |-> Nil, reasoning |-> Nil, plain |-> {}]

(* Thinking asked for in a number of tokens, in a word, and as the model likes. *)
Thinks(r, max) ==
  [BaseAsk EXCEPT !.reasoning = r, !.max = max, !.temp = 2, !.n = 2, !.choice = "required",
                  !.plain = {"top_p", "top_k", "parallel_tool_calls"}]

Open == Lane(TRUE, TRUE)
Plainest == Lane(FALSE, FALSE)

(* Settings need one turn, ids and histories need three, a rewritten history two. *)
SettingAsks ==
  {[BaseAsk EXCEPT !.tools = <<Hosted>>, !.choice = "required", !.temp = 2],
   [BaseAsk EXCEPT !.tools = <<>>, !.plain = {"parallel_tool_calls"}],
   Thinks(Effort("high"), 4), Thinks(Budget(2), 8), Thinks(Dynamic, 1)}

SomeGates ==
  {<<"redact">>, <<"down", "tool", "garbage">>, <<"silent">>, <<"blocks">>,
   <<"redact", "refuse">>}

MCTalks ==
  [client: Protocols, ask: {BaseAsk}, lane: {Open, Plainest}, gates: {<<>>}, turns: {3}]
    \cup [client: Protocols, ask: SettingAsks, lane: {Open, Plainest}, gates: {<<>>}, turns: {1}]
    \cup [client: Protocols, ask: {BaseAsk}, lane: {Plainest}, gates: SomeGates, turns: {2}]
MCProtocols == Protocols
=============================================================================
