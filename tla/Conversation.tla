---------------------------- MODULE Conversation ----------------------------
(***************************************************************************)
(* What a session promises its caller, whatever its KV, its context and its *)
(* drafts go through (Session::generate and cancel): a turn starts from the  *)
(* conversation, or from nothing when it asks for a new chat, and ends either *)
(* with its prompt and its reply added, or as if it had not been.            *)
(* SessionTurn implements it; FrontEnd is built on it.                       *)
(***************************************************************************)
EXTENDS Naturals, Sequences, SequencesExt

VARIABLES
  talk,      (* the conversation the finished turns left                    *)
  pending,   (* the conversation the turn in progress works on              *)
  busy,      (* a turn is in progress                                       *)
  cancel,    (* cancel_requested                                            *)
  draws,     (* draws of the session's sampler that count                   *)
  outcome    (* how the last turn ended                                     *)

cvars == <<talk, pending, busy, cancel, draws, outcome>>

Outcomes == {"none", "ok", "cancelled", "failed", "rejected", "exhausted"}

CInit ==
  /\ talk = << >> /\ pending = << >> /\ busy = FALSE /\ cancel = FALSE
  /\ draws = 0 /\ outcome = "none"

\* A request: a user message that continues the conversation, or a
\* transcript that replaces it.  A new chat forgets it at once.
Base(clear) == IF clear THEN << >> ELSE talk
Asks(request) == \E i \in DOMAIN request : request[i].role = "user"
BeginKeepsCancel(clear, request) ==
  /\ ~busy /\ Asks(request)
  /\ talk' = Base(clear)
  /\ pending' = request
  /\ busy' = TRUE /\ outcome' = "none"
  /\ draws' = IF clear THEN 0 ELSE draws
  /\ UNCHANGED cancel
Begin(clear, request) ==
  /\ ~busy /\ Asks(request)
  /\ talk' = Base(clear)
  /\ pending' = request
  /\ busy' = TRUE /\ cancel' = FALSE /\ outcome' = "none"
  /\ draws' = IF clear THEN 0 ELSE draws

\* Making room drops whole messages in front of the newest turn, leaving at
\* most one in their place.
NewestFrom(p, b) == \E u \in b..Len(p) : p[u].role = "user"
Shortened(p, q) ==
  /\ Len(q) < Len(p)
  /\ \E a \in 0..Len(q), b \in 1..Len(p) :
       /\ NewestFrom(p, b)
       /\ \/ q = SubSeq(p, 1, a) \o SubSeq(p, b, Len(p))
          \/ a < Len(q) /\ q = SubSeq(p, 1, a) \o <<q[a + 1]>> \o SubSeq(p, b, Len(p))
Shorten ==
  /\ busy /\ Shortened(pending, pending')
  /\ UNCHANGED <<talk, busy, cancel, draws, outcome>>

Commit(reply) ==
  /\ busy /\ reply.role = "assistant"
  /\ talk' = Append(pending, reply)
  /\ pending' = << >>
  /\ busy' = FALSE /\ outcome' = "ok"
  /\ draws' >= draws
  /\ UNCHANGED cancel

\* Cancelled, failed, refused or out of context: nothing of it remains.
Abandon(how) ==
  /\ busy /\ (how = "cancelled" => cancel)
  /\ busy' = FALSE /\ outcome' = how
  /\ pending' = << >>
  /\ UNCHANGED <<talk, cancel, draws>>

Cancel == cancel' = TRUE /\ UNCHANGED <<talk, pending, busy, draws, outcome>>

\* A text is scored in the session's context: the conversation is over, or
\* stays when the text is refused.
Score ==
  /\ ~busy /\ cancel' = FALSE
  /\ \/ talk' = << >> /\ draws' = 0
     \/ UNCHANGED <<talk, draws>>
  /\ UNCHANGED <<pending, busy, outcome>>

CNext ==
  \/ \E clear \in BOOLEAN : Begin(clear, pending')
  \/ Shorten
  \/ talk' # << >> /\ Commit(Last(talk'))
  \/ \E how \in Outcomes \ {"none", "ok"} : Abandon(how)
  \/ Score
  \/ Cancel
CSpec == CInit /\ [][CNext]_cvars
=============================================================================
