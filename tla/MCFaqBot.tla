------------------------------- MODULE MCFaqBot -------------------------------
(* Instances of FaqBot for TLC. *)
EXTENDS FaqBot

\* Two lists: in the first, entries tie, a keyword is empty, and one counts twice; the
\* second has none of the words asked for.
TwoLists == {<<<<"a">>, <<"b", "">>, <<"a", "b">>, <<"b", "b">>>>, <<<<"c">>>>}

Question(words) == [kind |-> "question", words |-> words]
Help == [kind |-> "help"]
Text(asks) == [own |-> FALSE, text |-> TRUE, asks |-> asks]

\* A question by command that mentions the bot too, and a message of the bot.
SomeMessages ==
  { Text([slash |-> Question({"a", "b"}), mxid |-> Help, short |-> Help, dm |-> Help]),
    [own |-> TRUE, text |-> TRUE, asks |-> [slash |-> Help, dm |-> Help]] }
=============================================================================
