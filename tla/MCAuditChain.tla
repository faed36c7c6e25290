---------------------------- MODULE MCAuditChain ----------------------------
(* Small instances of AuditChain for TLC.                                  *)
EXTENDS AuditChain

\* A perfect hash: the tuple of what it covers.
PerfectHash(id, created, entry, subject, prevHash) ==
  <<id, created, entry, subject, prevHash>>
GenesisHash == <<0, Unparsable, Nobody, EmptySubject, <<>>>>
Pending == <<"PENDING">>

\* One entry without a subject, the others with one.
Subject == [a \in Appenders |->
  IF a = CHOOSE b \in Appenders : TRUE THEN NoSubject ELSE "license"]

\* A text of created_at: a millisecond, and how it is spelt.
Text(ms, form) == [ms |-> ms, form |-> form]
Spellings == {Text(ms, form) : ms \in 1 .. 2, form \in {"millis Z", "micros Z", "millis +00:00"}}
             \cup {Text(0, "no time")}
Formatted(text) == IF text.form = "no time" THEN Unparsable ELSE Text(text.ms, "millis Z")

\* Two entries of one millisecond and one of another.
Time == [a \in Appenders |->
  Text(IF a = CHOOSE b \in Appenders : TRUE THEN 2 ELSE 1, "millis Z")]
=============================================================================
