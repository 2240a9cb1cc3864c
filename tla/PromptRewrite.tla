--------------------------- MODULE PromptRewrite ---------------------------
(***************************************************************************)
(* The gates that may rewrite a prompt (`prompt: rw`): what they are shown *)
(* of a request of any dialect, what their reply is taken for, and how it  *)
(* is put back into the body.  They run before the request is routed.      *)
(*                                                                         *)
(* The body has the dialect's list of turns (a client sends one always; a  *)
(* Responses input that is a bare string is a list of one turn here).      *)
(***************************************************************************)
EXTENDS ChatWriters

(* The texts of a content: what has no `text` of its own (pictures, calls, *)
(* results inside a turn) adds none.  A Gemini thought is a part with a    *)
(* text.                                                                   *)
flatten_content(p, content) ==
  EachFlat(Only(content, IF p = "gemini" THEN {"text", "thinking"} ELSE {"text"}), LAMBDA b : b.d)

(* An item of a Responses request that is no message has neither a role    *)
(* nor a content, nor a text at its root, and reads as an empty turn of    *)
(* the user.                                                               *)
HasContent(p, m) == p = "responses" => m.role \in {"user", "assistant", "system", "developer"}

ProjectedRole(p, m) ==
  CASE p = "gemini" /\ m.role = "model" -> "assistant"
    [] ~HasContent(p, m) -> "user"
    [] OTHER -> m.role

(* What a gate sees: the system prompt where it is a field of its own, and *)
(* one turn for every turn of the body, be its text empty.                 *)
build_prompt_projection(p, w) ==
  [system |-> flatten_content(p, w.system),
   messages |-> Each(w.messages, LAMBDA m :
     [role |-> ProjectedRole(p, m),
      text |-> IF HasContent(p, m) THEN flatten_content(p, m.content) ELSE <<>>])]

(* A reply, if one came and parsed: whether it refuses, the turns it would *)
(* have (each a role and a content, one string or a list of blocks) and    *)
(* the tools it would add.  A rewrite without turns is none.               *)
parse_rewrite(reply) == reply.messages # <<>>

(* Reject before rewrite before abstain; a call that fails or is too late  *)
(* and a reply of the wrong kind abstain.                                  *)
transform_outcome(reply) ==
  CASE reply.sent # "ok" -> "abstain"
    [] reply.sent = "ok" /\ reply.reject -> "reject"
    [] reply.sent = "ok" /\ ~reply.reject /\ parse_rewrite(reply) -> "rewrite"
    [] OTHER -> "abstain"

(* The dialects that take the turns of a reply as they are, and its tools  *)
(* too; the others take one string per turn, framed anew, and no tools.    *)
Verbatim == {"openai", "anthropic", "cohere"}

FramedRole(p, role) ==
  IF p # "gemini" THEN role
  ELSE IF role \in {"assistant", "model"} THEN "model" ELSE "user"

(* The turns of the reply take the place of all the turns of the body, and *)
(* the system prompt stays where it is a field of its own.  A turn that    *)
(* cannot be framed leaves the body as it was.                             *)
Applies(p, reply) == p \in Verbatim \/ \A i \in DOMAIN reply.messages : reply.messages[i].string

apply_rewrite_to_body(p, w, reply) ==
  [w EXCEPT
     !.messages = Each(reply.messages, LAMBDA m :
                         Wire(FramedRole(p, m.role), m.content, <<>>, Nil)),
     !.tools = IF p \in Verbatim THEN @ \o reply.tools ELSE @]

(* The gates.  One puts something else in place of every text it is shown, *)
(* in one string or in a list of blocks, and may bring a tool; one refuses *)
(* whatever else it says; one says nothing; one cannot be reached and one  *)
(* does not speak the protocol.                                            *)
Redacted(d) == Each(d, LAMBDA x : x + 1000)

GateReply(kind, seen) ==
  [sent |-> IF kind \in {"down", "garbage"} THEN kind ELSE "ok",
   reject |-> kind = "refuse",
   messages |-> IF kind = "silent" THEN <<>>
                ELSE Each(seen.messages, LAMBDA m :
                       [role |-> m.role, content |-> <<Plain(Redacted(m.text))>>,
                        string |-> kind # "blocks"]),
   tools |-> IF kind = "tool" THEN <<[name |-> "h", hosted |-> FALSE]>> ELSE <<>>]

(* The pass over the gates, each of which sees what those before it left,  *)
(* up to one that refuses.                                                 *)
apply_global_rewrites(p, w, gates) ==
  LET Fire(acc, g) ==
        LET reply == GateReply(g, build_prompt_projection(p, acc.body))
            verb == transform_outcome(reply)
        IN  CASE ~acc.refused /\ verb = "reject" -> [acc EXCEPT !.refused = TRUE]
              [] ~acc.refused /\ verb = "rewrite" /\ Applies(p, reply) ->
                   [acc EXCEPT !.applied = TRUE,
                               !.body = apply_rewrite_to_body(p, acc.body, reply)]
              [] OTHER -> acc
  IN  FoldLeft(Fire, [refused |-> FALSE, applied |-> FALSE, body |-> w], gates)
=============================================================================
