------------------------------- MODULE AIClient --------------------------------
(***************************************************************************)
(* app/ai/client.py and app/ai/security.py: one call of generate_mapping,  *)
(* the only place where the program asks a language model.  The mapping    *)
(* model answers, the answer is checked, a second model reviews it; an     *)
(* answer that fails a check is sent back with a correction, at most       *)
(* MaxAttempts times.  The actions say what the call does to its own       *)
(* state; who calls it, and what an exception does, is the caller's.       *)
(*                                                                         *)
(* An answer is one value, whatever its text; what the checks tell apart   *)
(* (does it parse, which targets and paths does it name, does it contain a *)
(* blocked keyword) is given by constants.                                 *)
(***************************************************************************)
EXTENDS Naturals, Sequences, FiniteSets

CONSTANTS
    Answers,        \* contents the mapping model may return
    NoContent,      \* what _request returns without choices or content
    Proposals,      \* the answers that parse as an AIProposal
    TargetsOf,      \* the normalized fields each proposal sets
    PathsOf,        \* the payload paths each proposal copies
    BlockedAnswers, \* the proposals that contain a blocked keyword
    SchemaTargets,  \* properties of the normalized event schema
    StaticTargets,  \* ai_static_fields of the event's source
    PayloadPaths,   \* paths of the event's payload
    MaxAttempts     \* max_attempts of the configuration

Protected == {"event_id", "case_id", "source"}

ASSUME ClientAssumption ==
    /\ NoContent \notin Answers
    /\ Proposals \subseteq Answers
    /\ BlockedAnswers \subseteq Proposals
    /\ MaxAttempts \in Nat

VARIABLES
    step,      \* where in generate_mapping the call is
    attempt,   \* attempts begun
    messages,  \* the conversation with the mapping model, sent whole each time
    content,   \* the last answer
    rejected,  \* last_error is not None
    cleared    \* history: the answers the review let pass

clientVars == <<step, attempt, messages, content, rejected, cleared>>

Roles == {"system", "request", "answer", "correction"}

\* A message, and the answer it repeats or speaks of.  The head of a conversation
\* speaks of none, nor does the correction of an empty answer.
Message(role, text) == [role |-> role, text |-> text]

Messages == [role : Roles, text : Answers \cup {NoContent}]

Opening == <<Message("system", NoContent), Message("request", NoContent)>>

\* The answers of the review model that validate_ai_review tells apart.
Verdicts == {"clear", "injection", "leak", "invalid", "none"}

ClientTypeOK ==
    /\ step \in {"idle", "ask", "asked", "check", "reviewing"}
    /\ attempt \in 0..MaxAttempts
    /\ messages \in Seq(Messages)
    /\ content \in Answers \cup {NoContent}
    /\ rejected \in BOOLEAN
    /\ cleared \subseteq Answers

ClientInit ==
    /\ step = "idle"
    /\ attempt = 0
    /\ messages = <<>>
    /\ content = NoContent
    /\ rejected = FALSE
    /\ cleared = {}

--------------------------------------------------------------------------------
\* validate_mapping_structure.
StructureValid(a) ==
    /\ a \in Proposals
    /\ TargetsOf[a] \subseteq SchemaTargets \ (Protected \cup StaticTargets)
    /\ PathsOf[a] \subseteq PayloadPaths \cup {"source"}

\* Mutant: a review that cannot be read does not stop the proposal.
ReviewPassesOpen(v) == v \notin {"injection", "leak"}

\* validate_ai_review.
ReviewPasses(v) == v = "clear"

--------------------------------------------------------------------------------
\* The head of generate_mapping, after the payload passed the keyword check.
Begin ==
    /\ step = "idle"
    /\ step' = "ask"
    /\ attempt' = 0
    /\ messages' = Opening
    /\ content' = NoContent
    /\ rejected' = FALSE
    /\ UNCHANGED cleared

\* Mutant: one attempt too many.
AskOnceMore ==
    /\ step = "ask"
    /\ attempt <= MaxAttempts
    /\ step' = "asked"
    /\ attempt' = attempt + 1
    /\ messages' = IF rejected THEN Append(messages, Message("correction", content)) ELSE messages
    /\ UNCHANGED <<content, rejected, cleared>>

\* An attempt starts: the model is told of the last rejection (last_error speaks
\* of the last answer), and asked.
Ask ==
    /\ step = "ask"
    /\ attempt < MaxAttempts
    /\ step' = "asked"
    /\ attempt' = attempt + 1
    /\ messages' = IF rejected THEN Append(messages, Message("correction", content)) ELSE messages
    /\ UNCHANGED <<content, rejected, cleared>>

\* The mapping model answered, perhaps with nothing.
Answer(a) ==
    /\ step = "asked"
    /\ step' = "check"
    /\ content' = a
    /\ messages' = IF a = NoContent THEN messages ELSE Append(messages, Message("answer", a))
    /\ UNCHANGED <<attempt, rejected, cleared>>

\* Mutant: the reason of the rejection is forgotten.
RejectSilently ==
    /\ step' = "ask"
    /\ UNCHANGED <<rejected, attempt, messages, content, cleared>>

\* An AISecurityError inside the loop: the next attempt, if there is one.
RejectAnswer ==
    /\ step' = "ask"
    /\ rejected' = TRUE
    /\ UNCHANGED <<attempt, messages, content, cleared>>

CheckFails ==
    /\ step = "check"
    /\ ~ StructureValid(content) \/ content \in BlockedAnswers
    /\ RejectAnswer

\* Mutant: the review sees the proposal before the keyword check.
CheckStructureOnly ==
    /\ step = "check"
    /\ StructureValid(content)
    /\ step' = "reviewing"
    /\ UNCHANGED <<attempt, messages, content, rejected, cleared>>

\* Structure and keywords are fine: the answer goes to the review model.
CheckPasses ==
    /\ step = "check"
    /\ StructureValid(content)
    /\ content \notin BlockedAnswers
    /\ step' = "reviewing"
    /\ UNCHANGED <<attempt, messages, content, rejected, cleared>>

ReviewRejects(v) ==
    /\ step = "reviewing"
    /\ ~ ReviewPasses(v)
    /\ RejectAnswer

\* generate_mapping returns the proposal of this attempt.
ReviewClears(v) ==
    /\ step = "reviewing"
    /\ ReviewPasses(v)
    /\ step' = "idle"
    /\ cleared' = IF v = "clear" THEN cleared \cup {content} ELSE cleared
    /\ UNCHANGED <<attempt, messages, content, rejected>>

\* Every attempt was used: AIResponseError.
GiveUp ==
    /\ step = "ask"
    /\ attempt = MaxAttempts
    /\ step' = "idle"
    /\ UNCHANGED <<attempt, messages, content, rejected, cleared>>

\* An exception of the request, or the end of the process: what the call knew
\* is gone.
Abandon ==
    /\ step' = "idle"
    /\ attempt' = 0
    /\ messages' = <<>>
    /\ content' = NoContent
    /\ rejected' = FALSE
    /\ UNCHANGED cleared

================================================================================
