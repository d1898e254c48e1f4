----------------------------- MODULE MCExchange -----------------------------
(* Exchange on requests that take every branch of the translators, three    *)
(* aliases and two hook modifications.  A text is the place of its message. *)
EXTENDS Exchange

Says(roles) == [i \in 1..Len(roles) |-> [role |-> roles[i], text |-> i]]

Plain(prefix) == [prefix |-> prefix, form |-> "plain"]

Asks(prefix, roles, stream) ==
    [model |-> Plain(prefix), messages |-> Says(roles), maxTokens |-> 0, stream |-> stream, n |-> 0]

Conversations ==
    {<<a, b, c>> : a, b, c \in {"system", "user", "assistant"}}
        \cup {<<"system">>, <<"user">>, <<"user", "tool">>, <<"assistant", "system">>}

MCCalls ==
    {[header |-> "", req |-> Asks(m, roles, FALSE)] :
         m \in {"gpt", "claude-", "gemini-"}, roles \in Conversations}
    \cup {[header |-> "", req |-> Asks(m, <<"system", "user">>, TRUE)] :
              m \in {"claude-", "gemini-"}}
    \cup {[header |-> "unknown", req |-> [Asks("o3", <<"user">>, TRUE) EXCEPT !.n = 2]]}
    \cup {[header |-> "gemini", req |-> [Asks("other", <<"user">>, FALSE) EXCEPT !.maxTokens = 9]]}
    \cup {[header |-> "gemini",
           req |-> [Asks("other", <<"user">>, FALSE) EXCEPT !.model.form = "marked"]]}

\* One endpoint and one model make no URL.
MCAliases ==
    {[model |-> Plain("other"), provider |-> "openai", url |-> "plain"],
     [model |-> Plain("claude-"), provider |-> "", url |-> "malformed"],
     [model |-> [prefix |-> "gemini-", form |-> "malformed"], provider |-> "", url |-> ""]}

\* One names another provider's model; one has a message without its text, and a
\* limit that is no number.
MCEdits ==
    {[fields |-> {"model", "stream"}, to |-> Asks("claude-", << >>, FALSE)],
     [fields |-> {"messages", "stream"},
      to |-> [Asks("gpt", << >>, FALSE) EXCEPT
                 !.messages = <<[role |-> "system", text |-> 7], [role |-> "assistant", text |-> 0]>>]]}

MCEnvironments == {{"OPENAI_API_KEY", "ANTHROPIC_API_KEY", "GEMINI_API_KEY"}, {"GOOGLE_API_KEY"}}
MCUsages == {NoTokens, [in |-> 2, out |-> 1], [in |-> 1, out |-> 2]}
=============================================================================
