-------------------------------- MODULE FaqBot --------------------------------
(***************************************************************************)
(* The FAQ bot in one room: the sync loop and on_message                   *)
(* (matrix_client.rs), the choice of the answer (handler.rs) and of the    *)
(* entry (faqs.rs), over the list that FaqReload keeps.                    *)
(*                                                                         *)
(* An operator Mut... is a seeded error of the operator that follows it.   *)
(***************************************************************************)
EXTENDS FaqReload, FiniteSets

CONSTANTS
  Messages,   \* what users may send
  Direct,     \* whether the room is a direct one
  MaxSent     \* bound: messages sent

\* A list is a sequence of entries, an entry the sequence of its keywords (faqs.rs).
ASSUME ListAssumption == Lists \subseteq Seq(Seq(STRING))
ASSUME SentAssumption == Direct \in BOOLEAN /\ MaxSent \in Nat

VARIABLES
  sent,      \* the messages of the room, oldest first
  session,   \* the client: none, or syncing
  position,  \* how many messages its syncs have delivered and passed over
  replies,   \* history: what was sent to which message
  unprimed   \* history: an initial sync has failed

messageVars == <<sent, session, position, replies, unprimed>>
vars == <<file, up, watching, events, channel, task, served, unseen, saves, crashes,
          sent, session, position, replies, unprimed>>

----------------------------------------------------------------------------
(* A message is the bot's own or not, text or not, and has for each form   *)
(* of address in it the question that follows.                             *)

\* A keyword that normalises to nothing does not count; one listed twice counts twice.
Score(entry, words) == Cardinality({k \in DOMAIN entry : entry[k] # "" /\ entry[k] \in words})

\* On a tie the later entry wins.
MutBetter(entry, words, best) == Score(entry, words) >= best.score /\ Score(entry, words) > 0

Better(entry, words, best) == Score(entry, words) > best.score

\* match_faq: one pass over the list; 0 when no entry has a keyword of the question.
MatchFaq(words, faqs) ==
  LET pick(best, i) == IF Better(faqs[i], words, best)
                       THEN [index |-> i, score |-> Score(faqs[i], words)] ELSE best
  IN FoldLeft(pick, [index |-> 0, score |-> 0], [i \in DOMAIN faqs |-> i]).index

\* identify_trigger: the most explicit form of address counts.
IdentifyTrigger(message) ==
  LET forms == DOMAIN message.asks
  IN IF "slash" \in forms THEN {"slash"}
     ELSE IF "mxid" \in forms THEN {"mxid"}
     ELSE IF "short" \in forms THEN {"short"}
     ELSE IF Direct THEN {"dm"} ELSE {}

\* decide_reply, for the question of the trigger.
DecideReply(ask, faqs) ==
  IF ask.kind = "question"
  THEN LET i == MatchFaq(ask.words, faqs)
       IN IF i = 0 THEN [kind |-> "no match"] ELSE [kind |-> "entry", index |-> i]
  ELSE [kind |-> ask.kind]

----------------------------------------------------------------------------
Init ==
  /\ FileInit
  /\ sent = << >> /\ session = "none" /\ position = 0
  /\ replies = << >> /\ unprimed = FALSE

Send(message) ==
  /\ Len(sent) < MaxSent
  /\ sent' = Append(sent, message)
  /\ UNCHANGED <<fileVars, session, position, replies, unprimed>>

\* The token of the initial sync is not used.
MutPrime ==
  /\ up = "running" /\ session = "none"
  /\ session' = "syncing" /\ position' = 0 /\ UNCHANGED unprimed
  /\ UNCHANGED <<fileVars, sent, replies>>

\* run: the initial sync takes the token behind the messages of before; when it
\* fails, the long poll begins without a token and delivers them.
Prime ==
  /\ up = "running" /\ session = "none"
  /\ session' = "syncing"
  /\ \/ position' = Len(sent) /\ UNCHANGED unprimed
     \/ "matrix" \in Faults /\ position' = 0 /\ unprimed' = TRUE
  /\ UNCHANGED <<fileVars, sent, replies>>

\* on_message: the bot's own messages and what is not text are ignored; the list is
\* the one in the store now; a reply that cannot be sent is only logged.
OnMessage ==
  /\ session = "syncing" /\ position < Len(sent)
  /\ position' = position + 1
  /\ LET message == sent[position + 1]
         trigger == IdentifyTrigger(message)
     IN \/ /\ message.own \/ ~message.text \/ trigger = {} \/ "matrix" \in Faults
           /\ UNCHANGED replies
        \/ /\ ~message.own /\ message.text
           /\ \E form \in trigger :
                replies' = Append(replies,
                  [to |-> position + 1, ask |-> message.asks[form], list |-> served,
                   reply |-> DecideReply(message.asks[form], served)])
  /\ UNCHANGED <<fileVars, sent, session, unprimed>>

\* The reload goes on beside; the session ends with the process.
FileStep ==
  /\ FileNext
  /\ IF up' = "down" THEN session' = "none" /\ position' = 0
     ELSE UNCHANGED <<session, position>>
  /\ UNCHANGED <<sent, replies, unprimed>>

Next ==
  \/ FileStep
  \/ \E message \in Messages : Send(message)
  \/ Prime
  \/ OnMessage

Spec == Init /\ [][Next]_vars /\ FileFairness

----------------------------------------------------------------------------
(* Properties                                                              *)

\* The variables keep their types.
TypeOK ==
  /\ FileTypeOK
  /\ sent \in Seq(Messages) /\ Len(sent) <= MaxSent
  /\ session \in {"none", "syncing"} /\ (session = "syncing" => up = "running")
  /\ position \in 0 .. Len(sent)
  /\ \A i \in DOMAIN replies : replies[i].to \in DOMAIN sent /\ replies[i].list \in Lists
  /\ unprimed \in BOOLEAN

\* A message is answered once at most, across restarts, and never before an older
\* one ("so old messages do not trigger replies"), unless an initial sync failed.
AnsweredOnce ==
  ~unprimed => \A i, j \in DOMAIN replies : i < j => replies[i].to < replies[j].to

\* What match_faq is for: an entry with the most keywords of the question, the
\* first of them on a tie ("First match wins on score ties").
Best(words, faqs) ==
  {i \in DOMAIN faqs :
     /\ Score(faqs[i], words) > 0
     /\ \A j \in DOMAIN faqs :
          \/ Score(faqs[j], words) < Score(faqs[i], words)
          \/ Score(faqs[j], words) = Score(faqs[i], words) /\ i <= j}

\* Every question is answered with the best entry of the list it was looked up in,
\* and with "no match" only if there is none.
AnswersBest ==
  \A r \in Range(replies) : r.ask.kind = "question" =>
    IF Best(r.ask.words, r.list) = {} THEN r.reply.kind = "no match"
    ELSE r.reply.kind = "entry" /\ {r.reply.index} = Best(r.ask.words, r.list)
=============================================================================
