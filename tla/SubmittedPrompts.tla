-------------------------- MODULE SubmittedPrompts --------------------------
(***************************************************************************)
(* Prompts sent from the timeline input (submitted_prompts.rs and the      *)
(* prompt route of api/session_routes.rs): a row is stored before a byte   *)
(* reaches the terminal, the text and the Enter key are two requests to    *)
(* the node, and a loop of the control process matches open rows with the  *)
(* turns the ingester has projected.                                       *)
(*                                                                         *)
(* Two people may send at once, so the two requests of one prompt may fall *)
(* between those of another; the harness takes what was pasted before an   *)
(* Enter as one prompt.  A harness on a dialog swallows it.                *)
(***************************************************************************)
EXTENDS Integers, Sequences, FiniteSets

CONSTANTS Text,      \* prompt texts
          MaxSent,   \* bound on the prompts sent
          Skew       \* turns a prompt may seem to precede: the 10 seconds of
                     \* clock skew the matching allows

VARIABLES sent,      \* rows of submitted_prompts, in order of submission
          pasted,    \* texts in the harness's input line
          took,      \* turns of the harness: their prompt texts, in order
          shown      \* turns projected onto the timeline so far

promptVars == <<sent, pasted, took, shown>>

Prompts == 1..Len(sent)
Mixed == "mixed"     \* a turn whose prompt is no single submission

PromptInit == sent = <<>> /\ pasted = <<>> /\ took = <<>> /\ shown = 0

\* record: the row, before anything is delivered.
Record(t) ==
  /\ Len(sent) < MaxSent
  /\ sent' = Append(sent, [text |-> t, at |-> "paste", after |-> Len(took),
                           turn |-> 0, failed |-> FALSE, dismissed |-> FALSE])
  /\ UNCHANGED <<pasted, took, shown>>

\* deliver_prompt: the bracketed paste, then Enter; a failing request ends
\* the delivery and is noted on the row.
Paste(i) ==
  /\ i \in Prompts /\ sent[i].at = "paste"
  /\ pasted' = Append(pasted, sent[i].text)
  /\ sent' = [sent EXCEPT ![i].at = "enter"]
  /\ UNCHANGED <<took, shown>>

Enter(i) ==
  /\ i \in Prompts /\ sent[i].at = "enter"
  /\ sent' = [sent EXCEPT ![i].at = "done"]
  /\ \/ took' = IF pasted = <<>> THEN took
                ELSE Append(took, IF Len(pasted) = 1 THEN pasted[1] ELSE Mixed)
     \/ took' = took
  /\ pasted' = <<>>
  /\ UNCHANGED shown

DeliveryFails(i) ==
  /\ i \in Prompts /\ sent[i].at \in {"paste", "enter"}
  /\ sent' = [sent EXCEPT ![i].at = "done", ![i].failed = TRUE]
  /\ UNCHANGED <<pasted, took, shown>>

\* A prompt typed in the terminal itself is a turn without a row.
Typed(t) ==
  /\ Len(took) < MaxSent
  /\ took' = Append(took, t)
  /\ UNCHANGED <<sent, pasted, shown>>

Project ==
  /\ shown < Len(took)
  /\ shown' = shown + 1
  /\ UNCHANGED <<sent, pasted, took>>

Dismiss(i) ==
  /\ i \in Prompts /\ ~sent[i].dismissed
  /\ sent' = [sent EXCEPT ![i].dismissed = TRUE]
  /\ UNCHANGED <<pasted, took, shown>>

-----------------------------------------------------------------------------
\* reconcile: an open row and a projected turn with its text, not older than
\* the submission and not claimed by any row.
Claimed(t) == \E j \in Prompts : sent[j].turn = t
Qualifies(i, t) ==
  /\ i \in Prompts /\ t \in 1..shown
  /\ sent[i].turn = 0 /\ ~sent[i].dismissed
  /\ took[t] = sent[i].text
  /\ t > sent[i].after - Skew
  /\ ~Claimed(t)

\* per_prompt: each open row's earliest turn; per_turn: for each turn the
\* earliest of the rows that chose it.
Choice(i) == {t \in 1..shown : Qualifies(i, t) /\ \A u \in 1..(t - 1) : ~Qualifies(i, u)}
Wins(i, t) == t \in Choice(i) /\ \A j \in 1..(i - 1) : t \notin Choice(j)

\* Mutant: only the first prompt is looked at.
ReconcileFirstOnly ==
  /\ \E i \in Prompts, t \in 1..shown : Wins(i, t)
  /\ ~\E i \in Prompts : sent[i].turn # 0
  /\ sent' = [i \in Prompts |->
                IF \E t \in 1..shown : Wins(i, t)
                THEN [sent[i] EXCEPT !.turn = CHOOSE t \in 1..shown : Wins(i, t)]
                ELSE sent[i]]
  /\ UNCHANGED <<pasted, took, shown>>

Reconcile ==
  /\ \E i \in Prompts, t \in 1..shown : Wins(i, t)
  /\ sent' = [i \in Prompts |->
                IF \E t \in 1..shown : Wins(i, t)
                THEN [sent[i] EXCEPT !.turn = CHOOSE t \in 1..shown : Wins(i, t)]
                ELSE sent[i]]
  /\ UNCHANGED <<pasted, took, shown>>

PromptNext ==
  \/ \E t \in Text : Record(t) \/ Typed(t)
  \/ \E i \in Prompts : Paste(i) \/ Enter(i) \/ DeliveryFails(i) \/ Dismiss(i)
  \/ Project
  \/ Reconcile

\* The reconciler runs every two seconds, whatever a pass meets.
PromptFairness == WF_promptVars(Reconcile)

-----------------------------------------------------------------------------
PromptTypeOK ==
  /\ shown \in 0..Len(took)
  /\ \A i \in Prompts : sent[i].turn \in 0..shown /\ sent[i].at \in {"paste", "enter", "done"}

\* Two submissions never share a turn, identical texts, clock skew, retyped
\* prompts and dismissed rows included (reconcile's per_turn and NOT EXISTS).
OneTurnPerPrompt ==
  \A i, j \in Prompts : i # j /\ sent[i].turn # 0 => sent[i].turn # sent[j].turn

\* Open rows for which an unclaimed turn qualifies do not stay open: of
\* identical submissions each pass matches one, and later passes the rest.
PromptsAreMatched == []<>(\A i \in Prompts, t \in 1..shown : ~Qualifies(i, t))
=============================================================================
