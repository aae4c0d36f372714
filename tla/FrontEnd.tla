------------------------------- MODULE FrontEnd -------------------------------
(***************************************************************************)
(* The two programs that put a session in front of a client: meitte-cli      *)
(* --session, a loop that runs the turns and a thread that reads the client's *)
(* lines and cancels at once, and meitte-server, which serves one connection  *)
(* after the other on one thread.  The session is Conversation's.             *)
(***************************************************************************)
EXTENDS Conversation, RequestControls

CONSTANT
  Modes      (* the runs: program, flags, what the client may send, and how *)
             (* many requests there are, at once and in all, and tokens of  *)
             (* a turn                                                      *)

Cmds == {"none", "generate", "cancel", "error", "close"}
AskKinds == {"none", "prompt", "message", "transcript"}
ClearKv == {"unset", "yes", "no"}
ModeOK(m) ==
  /\ m.cmds \subseteq Cmds /\ m.asks \subseteq AskKinds \ {"none"} /\ m.clears \subseteq ClearKv
  /\ m.controls \subseteq Controls /\ m.defaults \in Defaults
ASSUME ModesAssumption == \A m \in Modes : ModeOK(m)

VARIABLES
  mode,      (* the flags and the client of this run                        *)
  sent,      (* requests the client has sent                                *)
  reader,    (* the reader thread: what it does and the command it holds    *)
  stop,      (* SessionLoopState::stop                                      *)
  queue,     (* commands, or connections, that wait                         *)
  loop,      (* the loop that runs the turns                                *)
  current,   (* the request it works on                                     *)
  turn,      (* the thinking controls of the turn in progress               *)
  started,   (* kv_preserve_started                                         *)
  broken,    (* the session met a fatal error                               *)
  view,      (* text and reasoning of what the turn generated               *)
  told,      (* what ProgressDelta, or StreamTextState, says was sent       *)
  client,    (* text and reasoning the client put together                  *)
  accepted,  (* history: requests that were queued, in order                *)
  answered,  (* history: requests that were answered, in order              *)
  heard      (* history: requests during whose turn a cancel came           *)

fvars == <<mode, sent, reader, stop, queue, loop, current, turn, started, broken,
           view, told, client, accepted, answered, heard>>
vars == <<cvars, fvars>>
shown == <<view, told, client>>
history == <<accepted, answered, heard>>

Line == mode.program = "line"
Silence == [text |-> << >>, reasoning |-> << >>]
Bare(id, cmd) == [id |-> id, cmd |-> cmd, ask |-> "none", clear |-> "unset", controls |-> Unsaid]
NoRequest == Bare(0, "none")
CloseRequest == Bare(0, "close")
Requests(id) == [id : {id}, cmd : mode.cmds, ask : mode.asks, clear : mode.clears, controls : mode.controls]

Init ==
  /\ CInit
  /\ mode \in Modes
  /\ sent = 0 /\ reader = [at |-> "reads", cmd |-> NoRequest] /\ stop = FALSE /\ queue = << >>
  /\ loop = "idle" /\ current = NoRequest /\ turn = Refused
  /\ started = FALSE /\ broken = FALSE
  /\ view = Silence /\ told = Silence /\ client = Silence
  /\ accepted = << >> /\ answered = << >> /\ heard = {}

------------------------------------------------------------------------------
(* What a request asks the session for.                                      *)
User(id) == [role |-> "user", of |-> id]
Reply(id) == [role |-> "assistant", of |-> id]
System == [role |-> "system", of |-> 0]
HasSystem(messages) == \E i \in DOMAIN messages : messages[i].role = "system"

\* A prompt alone, one user message, or the client's own transcript.
Given(r) == CASE r.ask = "prompt" -> << >>
              [] r.ask = "message" -> <<User(r.id)>>
              [] r.ask = "transcript" -> <<User(0), Reply(0), User(r.id)>>

Clears(r) == IF r.clear = "unset" THEN ~mode.kvPreserve \/ ~started ELSE r.clear = "yes"
WithSystem(messages) == IF mode.system /\ ~HasSystem(messages) THEN <<System>> \o messages ELSE messages
LineMessages(r) ==
  LET messages == WithSystem(Given(r))
  IN  IF mode.system /\ Len(messages) = 1 THEN Append(messages, User(r.id)) ELSE messages
NeverIncremental(r) == FALSE
Incremental(r) == ~Clears(r) /\ r.ask = "message"
HttpMessages(r) ==
  IF r.ask = "prompt" THEN << >>
  ELSE IF Incremental(r) THEN << >> ELSE WithSystem(Given(r))
Messages(r) == IF Line THEN LineMessages(r) ELSE HttpMessages(r)

\* Session::generate continues its conversation with the prompt, or takes the
\* messages in its place.
TurnOf(r) == IF Messages(r) = << >> THEN Append(Base(Clears(r)), User(r.id)) ELSE Messages(r)

ControlsOf(r) == IF Line THEN LineControls(r.controls, mode.defaults) ELSE HttpControls(r.controls, mode.defaults)
Parsed(r) == IF r.cmd = "generate" /\ ~ControlsOf(r).ok THEN Bare(r.id, "error") ELSE r

------------------------------------------------------------------------------
(* The reader thread, and the backlog of the listening socket.               *)
More == sent < mode.requests /\ Len(queue) < mode.ahead
Running == IF loop = "running" THEN {current.id} ELSE {}
Place(r) == IF r.cmd = "close" THEN 0 ELSE r.id
Holds(r) == [at |-> "holds", cmd |-> r]
Ended == [at |-> "ended", cmd |-> NoRequest]

ReadLine ==
  /\ Line /\ More /\ reader.at = "reads" /\ ~stop
  /\ sent' = sent + 1
  /\ \E r \in Requests(sent') : r.cmd # "cancel" /\ reader' = Holds(Parsed(r))
  /\ UNCHANGED <<cvars, mode, stop, queue, loop, current, turn, started, broken, shown, history>>

\* A cancel goes to the session at once, past the queue.
ReadCancel ==
  /\ Line /\ More /\ reader.at = "reads" /\ ~stop
  /\ \E r \in Requests(sent + 1) : r.cmd = "cancel"
  /\ sent' = sent + 1
  /\ IF loop = "closed" THEN UNCHANGED cvars ELSE Cancel
  /\ heard' = heard \cup Running
  /\ UNCHANGED <<mode, reader, stop, queue, loop, current, turn, started, broken, shown, accepted, answered>>

EnqueueCloseFirst(r) ==
  /\ queue' = IF r.cmd = "close" THEN <<r>> \o queue ELSE Append(queue, r)
  /\ accepted' = Append(accepted, Place(r))
Enqueue(r) == queue' = Append(queue, r) /\ accepted' = Append(accepted, Place(r))

Push ==
  /\ reader.at = "holds" /\ ~stop
  /\ Enqueue(reader.cmd)
  /\ reader' = [at |-> "reads", cmd |-> NoRequest]
  /\ UNCHANGED <<cvars, mode, sent, stop, loop, current, turn, started, broken, shown, answered, heard>>

\* The end of its input closes the session after what was asked, unless the
\* loop has ended.
ReaderEnds ==
  /\ Line /\ reader.at # "ended" /\ (stop \/ reader.at = "reads")
  /\ reader' = Ended
  /\ stop' = TRUE
  /\ IF stop THEN UNCHANGED <<queue, accepted>>
     ELSE Enqueue(CloseRequest)
  /\ UNCHANGED <<cvars, mode, sent, loop, current, turn, started, broken, shown, answered, heard>>

Connect ==
  /\ ~Line /\ More
  /\ sent' = sent + 1
  /\ \E r \in Requests(sent') : Enqueue(Parsed(r))
  /\ UNCHANGED <<cvars, mode, reader, stop, loop, current, turn, started, broken, shown, answered, heard>>

------------------------------------------------------------------------------
(* The loop.                                                                 *)
Next1 == Head(queue)
Take(cmd) == loop = "idle" /\ queue # << >> /\ Next1.cmd = cmd /\ queue' = Tail(queue)
Answer(r) == answered' = Append(answered, r.id)
Done == loop' = "idle" /\ current' = NoRequest /\ turn' = Refused

TakeClose ==
  /\ Take("close")
  /\ loop' = "closed" /\ stop' = TRUE
  /\ UNCHANGED <<cvars, mode, sent, reader, current, turn, started, broken, shown, history>>

SkipError ==
  /\ Take("error")
  /\ UNCHANGED <<cvars, mode, sent, reader, stop, loop, current, turn, started, broken, shown, history>>
\* A line that does not parse is answered with an error, a request with a 400.
TakeError ==
  /\ Take("error") /\ Answer(Next1)
  /\ UNCHANGED <<cvars, mode, sent, reader, stop, loop, current, turn, started, broken, shown, accepted, heard>>

TakeGenerate ==
  /\ Take("generate")
  /\ loop' = "begun" /\ current' = Next1
  /\ UNCHANGED <<cvars, mode, sent, reader, stop, turn, started, broken, shown, history>>

\* The headers of a streamed answer cannot be sent: there is no turn.
StreamRefused ==
  /\ ~Line /\ loop = "begun"
  /\ Done /\ Answer(current)
  /\ UNCHANGED <<cvars, mode, sent, reader, stop, queue, started, broken, shown, accepted, heard>>

StartTurn ==
  /\ loop = "begun"
  /\ Begin(Clears(current), TurnOf(current))
  /\ loop' = "running" /\ turn' = ControlsOf(current)
  /\ view' = Silence /\ told' = Silence /\ client' = Silence
  /\ UNCHANGED <<mode, sent, reader, stop, queue, current, started, broken, history>>

\* A token is one more piece of the answer; parsing what there is again may
\* find that more or less of it is reasoning.
Generated == view.reasoning \o view.text
Views(generated) == {[reasoning |-> SubSeq(generated, 1, k), text |-> SubSeq(generated, k + 1, Len(generated))]
                      : k \in 0..Len(generated)}
ExtendsText(now, before) == IsPrefix(before.text, now.text)
Extends(now, before) == IsPrefix(before.text, now.text) /\ IsPrefix(before.reasoning, now.reasoning)
Suffix(now, before) == SubSeq(now, Len(before) + 1, Len(now))

\* BMOE_PROGRESS appends, or with "reset" replaces both.
LineDelta(now) ==
  client' = IF Extends(now, told)
            THEN [text      |-> client.text \o Suffix(now.text, told.text),
                  reasoning |-> client.reasoning \o Suffix(now.reasoning, told.reasoning)]
            ELSE now
\* A chunk of a stream only appends: what no longer extends is sent whole.
StreamSuffix(now, before) == IF IsPrefix(before, now) THEN Suffix(now, before) ELSE now
HttpDelta(now) ==
  client' = [text      |-> client.text \o StreamSuffix(now.text, told.text),
             reasoning |-> client.reasoning \o StreamSuffix(now.reasoning, told.reasoning)]
Show(now) == view' = now /\ told' = now /\ IF Line THEN LineDelta(now) ELSE HttpDelta(now)

Token ==
  /\ loop = "running" /\ Len(Generated) < mode.tokens
  /\ \E now \in Views(Append(Generated, Len(Generated) + 1)) : Show(now)
  /\ UNCHANGED <<cvars, mode, sent, reader, stop, queue, loop, current, turn, started, broken, history>>

\* A chunk cannot be sent: the server cancels its own turn.
ClientGone ==
  /\ ~Line /\ loop = "running" /\ ~cancel
  /\ Cancel /\ heard' = heard \cup Running
  /\ UNCHANGED <<mode, sent, reader, stop, queue, loop, current, turn, started, broken, shown, accepted, answered>>

\* The turn ends well; a stream ends with what the final parse adds to it.
TurnDone ==
  /\ loop = "running" /\ ~broken
  /\ draws' = draws + 1 /\ Commit(Reply(current.id))
  /\ Done /\ Answer(current)
  /\ started' = (started \/ Line \/ mode.kvPreserve)
  /\ IF Line THEN UNCHANGED shown ELSE \E now \in Views(Generated) : Show(now)
  /\ UNCHANGED <<mode, sent, reader, stop, queue, broken, accepted, heard>>

TurnCancelled ==
  /\ loop = "running" /\ Abandon("cancelled")
  /\ Done /\ Answer(current)
  /\ UNCHANGED <<mode, sent, reader, stop, queue, started, broken, shown, accepted, heard>>

\* A turn that fails is reported; the line program ends when the session did
\* not survive it, the server goes on.
TurnFails(how) ==
  /\ loop = "running" /\ how \in {"failed", "rejected", "exhausted"} /\ Abandon(how)
  /\ broken' \in {broken, broken \/ how = "failed"}
  /\ Answer(current)
  /\ loop' = IF broken' /\ Line THEN "closed" ELSE "idle"
  /\ stop' = (stop \/ loop' = "closed")
  /\ current' = NoRequest /\ turn' = Refused
  /\ UNCHANGED <<mode, sent, reader, queue, started, shown, accepted, heard>>

TurnEnds == TurnDone \/ TurnCancelled \/ (\E how \in Outcomes : TurnFails(how))
LoopSteps == TakeClose \/ TakeError \/ TakeGenerate \/ StartTurn

Next ==
  \/ ReadLine \/ ReadCancel \/ Push \/ ReaderEnds \/ Connect
  \/ TakeClose \/ TakeError \/ TakeGenerate \/ StreamRefused \/ StartTurn
  \/ Token \/ ClientGone \/ TurnDone \/ TurnCancelled
  \/ \E how \in Outcomes : TurnFails(how)

\* The loop's thread runs whenever it can, and so does the reader once it holds
\* a command; a turn ends (SessionTurn); the client may be silent.
Spec == Init /\ [][Next]_vars /\ WF_vars(LoopSteps) /\ WF_vars(TurnEnds) /\ WF_vars(Push)

------------------------------------------------------------------------------
(* Properties.                                                               *)

\* Every request that was queued is answered once and in its order, close and
\* the end of the input included: they come after what was asked before.
AnsweredInOrder ==
  LET inHand  == IF loop \in {"begun", "running"} THEN <<current>> ELSE << >>
      waiting == inHand \o queue IN
  /\ loop # "closed" => answered \o [i \in DOMAIN waiting |-> Place(waiting[i])] = accepted
  /\ loop = "closed" /\ ~broken => answered \o <<0>> = SubSeq(accepted, 1, Len(answered) + 1)

\* A turn ends as cancelled only for a cancel that came while it ran: one sent
\* to a turn that is over never stops the next.
CancelsTheirOwn ==
  [][loop = "running" /\ loop' = "idle" /\ outcome' = "cancelled" => current.id \in heard]_vars

\* A new message of a kept conversation is added to it: what was said before is
\* still there when the turn is done.
NewMessageOnly(r) == r.ask = "prompt" \/ (~Line /\ r.ask = "message")
ConversationContinues ==
  [][ busy /\ ~busy' /\ outcome' = "ok" /\ NewMessageOnly(current)
      => \/ talk' = talk \o <<User(current.id), Reply(current.id)>>
         \/ talk = << >> /\ talk' = <<System, User(current.id), Reply(current.id)>> ]_vars

\* A turn thinks as its request asked, in either program.
ControlsHonoured == loop = "running" => turn = Wanted(current.controls, mode.defaults)

\* What the client puts together from the deltas is the answer; a stream, which
\* cannot take back, at least ends with it.
StreamCarriesAnswer ==
  IF Line THEN client = view
  ELSE IsSuffix(view.text, client.text) /\ IsSuffix(view.reasoning, client.reasoning)

\* A request that was queued is answered, unless the loop ends before it.
RequestsAnswered ==
  \A n \in 1..4 : Len(accepted) >= n ~> Len(answered) >= n \/ loop = "closed"
=============================================================================
