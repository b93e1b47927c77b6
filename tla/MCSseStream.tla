------------------------------ MODULE MCSseStream ------------------------------
(* What the service may send, scenario by scenario.                         *)
EXTENDS SseStream

Say(cells)          == [kind |-> "assistant", content |-> cells]
Tool(i, json, last) == [kind |-> "tool", id |-> i, input |-> json, stop |-> last]
Reason(cells, s, r) == [kind |-> "reasoning", text |-> cells, signature |-> s, redacted |-> r]
Context(full)       == [kind |-> "contextUsage", full |-> full]
Exception(tooLong)  == [kind |-> "exception", tooLong |-> tooLong]
Error               == [kind |-> "error"]

EmptyObject == <<"{", "}">>

MCMenu ==
    [tags   |-> [thinking |-> TRUE, buffered |-> FALSE, most |-> 5, events |->
                    {Say(<<"u">>), Say(<<"a", "<">>), Say(<<"thinking>", "v">>),
                     Say(<<"b", "<", "/">>),
                     Say(<<"thinking>", "n">>), Say(<<"n", "a">>)}],
     mixed  |-> [thinking |-> TRUE, buffered |-> TRUE, most |-> 4, events |->
                    {Say(<<"u">>), Say(<<"n", "<", "thinking>">>), Say(<<"b", "<">>),
                     Say(<<"<", "/", "thinking>">>), Say(<<"n", "n", "a">>),
                     Tool("t1", EmptyObject, TRUE), Error}],
     native |-> [thinking |-> TRUE, buffered |-> FALSE, most |-> 4, events |->
                    {Say(<<"u">>), Say(<<"a", "n", "b">>),
                     Reason(<<"v">>, FALSE, FALSE), Reason(<<>>, TRUE, FALSE),
                     Reason(<<"b">>, TRUE, FALSE), Reason(<<>>, FALSE, TRUE),
                     Tool("t1", EmptyObject, TRUE), Exception(FALSE)}],
     invoke |-> [thinking |-> FALSE, buffered |-> FALSE, most |-> 4, events |->
                    {Say(<<"u">>), Say(<<"a", "<">>), Say(<<"call">>), Say(<<"fence">>),
                     Say(<<"call", "<", "invoke">>), Say(<<"invoke?", "<", "/">>),
                     Say(<<"invoke>", "v">>), Say(<<"<", "/", "invoke>", "<", "invoke">>),
                     Tool("t1", EmptyObject, TRUE)}],
     xml    |-> [thinking |-> FALSE, buffered |-> FALSE, most |-> 4, events |->
                    {Say(<<"a", "<">>), Say(<<"tool_use", ">", "v">>),
                     Say(<<"<", "tool_use", "n">>), Say(<<">", "v">>), Say(<<"tool_use", "r>", "u">>),
                     Say(<<"v", "<", "/">>), Say(<<"tool_use", ">", "b">>),
                     Say(<<"<", "/", "tool_use", ">", "u">>)}],
     tools  |-> [thinking |-> FALSE, buffered |-> FALSE, most |-> 4, events |->
                    {Say(<<"u">>), Tool("t1", <<"{">>, FALSE), Tool("t1", <<"}">>, TRUE),
                     Tool("t2", EmptyObject, FALSE), Tool("t2", <<>>, TRUE),
                     Reason(<<"v">>, FALSE, FALSE)}],
     empty  |-> [thinking |-> TRUE, buffered |-> TRUE, most |-> 2, events |->
                    {Say(<<"<">>), Say(<<"n">>), Reason(<<>>, TRUE, FALSE),
                     Reason(<<"v">>, TRUE, FALSE), Reason(<<>>, FALSE, TRUE),
                     Tool("t1", <<>>, FALSE), Error, Exception(TRUE), Context(TRUE),
                     Context(FALSE)}]]

\* One sentence that mentions a call, cut anywhere.
MCMention ==
    [mention |-> [thinking |-> FALSE, buffered |-> FALSE, most |-> 4, events |->
                     {Say(<<"u">>), Say(<<"v", "n">>), Say(<<"a">>), Say(<<"b">>),
                      Say(<<"<", "invoke">>), Say(<<"<", "/", "invoke>">>)}]]

================================================================================
