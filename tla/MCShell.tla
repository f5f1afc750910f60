------------------------------ MODULE MCShell ------------------------------
EXTENDS Shell

\* Short names, one of them the start of another, and lines that can hold a
\* command, a space and a text.
MCNames == [ECHO |-> <<"E">>, CLEAR |-> <<"K">>, REBOOT |-> <<"K", "K", "K">>,
            HELP |-> <<"E", "K">>]
MCPrompt  == <<">">>
MCAnswers == [HELP |-> <<"H", Newline>>, UNKNOWN |-> <<"U", Newline>>,
              REBOOT |-> <<"R", Newline>>]

\* A row that holds the prompt and a full line, and rows that make it wrap; one
\* pixel row left over, and none.
MCScreens == {<<4, 5>>, <<2, 6>>, <<3, 7>>}
=============================================================================
