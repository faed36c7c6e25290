------------------------------ MODULE MCRooms ------------------------------
(* Instances of Rooms for TLC. *)
EXTENDS Rooms, TLC

CONSTANTS member1, moderator, event

Levels == (member1 :> 0) @@ (moderator :> 50)
DefaultLevels == [c \in Commands |-> 50]
BotModerates == [r \in RoomIds |-> 50]

Ban(w, m, s) == [word |-> w, mode |-> m, severity |-> s]

\* The second word has been banned before.
OneBan == <<[action |-> "banned_word_added", room |-> 2, arg |-> Ban(2, "substring", "warn")]>>

Part(w) == <<w, "substring">>
Whole(w) == {<<w, "substring">>, <<w, "whole_word">>}

Message(u, c, x, t) == [by |-> u, does |-> c, arg |-> x, says |-> t]
Adding(b) == Message(moderator, "ban-word add", b, Whole(b.word))

\* In room 1 whatever changes rooms, words and pins: the first word is banned, and the
\* second one anew, or no more; and a message with both words, the second inside of
\* another.  In room 2 a message with the second word, a command denied and one
\* carried out.
Talk ==
  <<{Message(moderator, c, None, {}) : c \in {"activate", "deactivate"}}
      \cup {Adding(Ban(1, "substring", "redact")), Adding(Ban(2, "whole_word", "kick"))}
      \cup {Message(moderator, "ban-word remove", [word |-> 2], Whole(2))}
      \cup {Message(moderator, c, event, {}) : c \in {"pin", "unpin"}}
      \cup {Message(member1, "chat", None, {Part(1), Part(2)})},
    {Message(member1, "chat", None, Whole(2))}
      \cup {Message(u, "kick", None, {}) : u \in {member1, moderator}}>>
=============================================================================
