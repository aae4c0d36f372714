---------------------------- MODULE FrontEndProofs ----------------------------
(***************************************************************************)
(* For every client, every flag and any number of requests: a turn thinks as  *)
(* its request asked and is cancelled by its own cancel only, what is asked is *)
(* answered in order, what was generated is what the client puts together, and *)
(* a message of a conversation that is kept is added to it.                    *)
(* The parsers of the two programs come first: they resolve the thinking       *)
(* controls of a request alike, for every set of efforts a template may know.  *)
(***************************************************************************)
EXTENDS FrontEnd, SequenceTheorems, TLAPS

\* The flags leave defaults that agree with each other, whatever was typed
\* (main.cpp and server_main.cpp resolve --no-think and --reasoning-effort).
THEOREM FlagsLeaveDefaults ==
  ASSUME NEW noThink \in BOOLEAN, NEW effort \in (Efforts \ TooLong) \cup {"", "none"},
         ~FlagsConflict(noThink, effort)
  PROVE  FlagDefaults(noThink, effort) \in Defaults
  BY EffortsAssumption DEF FlagsConflict, FlagDefaults, Defaults, Think

\* What the fields of a request that do not conflict ask for.
LEMMA Asked ==
  ASSUME NEW c \in Controls, ~Conflict(c.think, c.kwThink), ~Conflict(c.effort, c.kwEffort)
  PROVE  /\ LineThink(c) \in {"on", "off", "unset"} /\ HttpThink(c) = LineThink(c)
         /\ LineEffort(c) \in Efforts \cup {"none", "unset"}
         /\ HttpEffort(c) = ValueOr(LineEffort(c), "")
         /\ AsksOff(c) <=> LineThink(c) = "off" \/ LineEffort(c) = "none"
         /\ AsksOn(c) <=> LineThink(c) = "on" \/ LineEffort(c) \in Efforts
         /\ LineEffort(c) = "unset" => EffortAsked(c) = {}
         /\ LineEffort(c) # "unset" => EffortAsked(c) = {LineEffort(c)}
<1>1. /\ c.think \in {"on", "off", "unset"} /\ c.kwThink \in {"on", "off", "unset"}
      /\ c.effort \in Efforts \cup {"none", "unset"} /\ c.kwEffort \in Efforts \cup {"none", "unset"}
  BY DEF Controls, Think
<1>2. LineThink(c) \in {"on", "off", "unset"} /\ HttpThink(c) = LineThink(c)
  BY <1>1 DEF LineThink, HttpThink, ValueOr, Conflict
<1>3. LineEffort(c) \in Efforts \cup {"none", "unset"} /\ HttpEffort(c) = ValueOr(LineEffort(c), "")
  BY <1>1 DEF LineEffort, HttpEffort, ValueOr, Conflict
<1>4. AsksOff(c) <=> LineThink(c) = "off" \/ LineEffort(c) = "none"
  BY <1>1 DEF AsksOff, LineThink, LineEffort, ValueOr, Conflict
<1>5. AsksOn(c) <=> LineThink(c) = "on" \/ LineEffort(c) \in Efforts
  BY <1>1, EffortsAssumption DEF AsksOn, LineThink, LineEffort, ValueOr, Conflict
<1>6. /\ LineEffort(c) = "unset" => EffortAsked(c) = {}
      /\ LineEffort(c) # "unset" => EffortAsked(c) = {LineEffort(c)}
  BY <1>1 DEF EffortAsked, LineEffort, ValueOr, Conflict
<1> QED BY <1>2, <1>3, <1>4, <1>5, <1>6

\* What the line protocol accepts is what the request asked for
\* (parse_session_generate).
THEOREM LineHonoursRequest ==
  ASSUME NEW c \in Controls, NEW d \in Defaults, LineControls(c, d).ok
  PROVE  LineControls(c, d) = Wanted(c, d)
<1>1. ~Conflict(c.think, c.kwThink) /\ ~Conflict(c.effort, c.kwEffort)
  BY DEF LineControls, Refused
<1>2. LineControls(c, d).ok = TRUE /\ FALSE # TRUE /\ Refused.ok = FALSE
  BY DEF LineControls, Refused, Resolved
<1>3. d.think \in {"on", "off"} /\ d.effort \in Efforts \cup {""} /\ (d.effort # "" => d.think = "on")
  BY DEF Defaults, Think
<1>4. CASE LineEffort(c) = "unset"
  BY <1>1, <1>2, <1>3, <1>4, Asked, EffortsAssumption DEF LineControls, Wanted, ValueOr, Resolved, Refused
<1>5. CASE LineEffort(c) # "unset"
  <2>1. (CHOOSE e \in {LineEffort(c)} : TRUE) = LineEffort(c)
    OBVIOUS
  <2> QED BY <1>1, <1>2, <1>3, <1>5, <2>1, Asked, EffortsAssumption
          DEF LineControls, Wanted, ValueOr, Resolved, Refused
<1> QED BY <1>4, <1>5

\* What the server accepts is what the request asked for
\* (parse_completion_request_impl and handle_completions).
THEOREM HttpHonoursRequest ==
  ASSUME NEW c \in Controls, NEW d \in Defaults, HttpControls(c, d).ok
  PROVE  HttpControls(c, d) = Wanted(c, d)
<1>1. ~HttpParseFails(c)
  BY DEF HttpControls, Refused
<1>2. ~Conflict(c.think, c.kwThink) /\ ~Conflict(c.effort, c.kwEffort)
  BY <1>1 DEF HttpParseFails
<1>3. d.think \in {"on", "off"} /\ d.effort \in Efforts \cup {""} /\ (d.effort # "" => d.think = "on")
  BY DEF Defaults, Think
<1>4. CASE LineEffort(c) = "unset"
  BY <1>1, <1>2, <1>3, <1>4, Asked, EffortsAssumption
     DEF HttpControls, HttpParsed, Wanted, ValueOr, Resolved, Refused
<1>5. CASE LineEffort(c) # "unset"
  <2>1. (CHOOSE e \in {LineEffort(c)} : TRUE) = LineEffort(c)
    OBVIOUS
  <2> QED BY <1>1, <1>2, <1>3, <1>5, <2>1, Asked, EffortsAssumption
          DEF HttpControls, HttpParsed, Wanted, ValueOr, Resolved, Refused
<1> QED BY <1>4, <1>5

\* The server accepts at least what the line protocol does, and both then ask
\* the session for the same turn.
THEOREM ProgramsAgree ==
  ASSUME NEW c \in Controls, NEW d \in Defaults, LineControls(c, d).ok
  PROVE  HttpControls(c, d) = LineControls(c, d)
<1>1. ~Conflict(c.think, c.kwThink) /\ ~Conflict(c.effort, c.kwEffort)
      /\ ValueOr(LineEffort(c), d.effort) \notin TooLong
  BY DEF LineControls, Refused
<1>2. d.think \in {"on", "off"} /\ d.effort \in (Efforts \ TooLong) \cup {""}
  BY DEF Defaults, Think
<1>3. ~HttpParseFails(c)
  BY <1>1, Asked, EffortsAssumption DEF HttpParseFails, ValueOr
<1>4. HttpControls(c, d).ok
  BY <1>1, <1>2, <1>3, Asked, EffortsAssumption DEF HttpControls, HttpParsed, ValueOr, Resolved
<1> QED BY <1>4, LineHonoursRequest, HttpHonoursRequest
------------------------------------------------------------------------------

\* A request that is to run has controls its program accepts: one that is
\* refused became an error when it was parsed.  What it says of clearing the
\* conversation is what the client may say.
AnyRequest == [id : Nat, cmd : Cmds, ask : AskKinds, clear : ClearKv, controls : Controls]
SoundRequests ==
  {r \in AnyRequest :
     r.cmd = "generate" => ControlsOf(r).ok /\ r.ask # "none" /\ r.clear \in mode.clears}

\* The request in hand was parsed, its turn has its controls, and a cancel that
\* is pending came while it ran.
Serving ==
  /\ loop \in {"begun", "running"} => current.cmd = "generate"
  /\ loop = "running" => turn = ControlsOf(current)
  /\ loop = "running" /\ cancel => current.id \in heard

FInv ==
  /\ mode \in Modes /\ sent \in Nat
  /\ queue \in Seq(SoundRequests)
  /\ reader.cmd \in SoundRequests
  /\ current \in SoundRequests
  /\ Serving

LEMMA BareSound ==
  ASSUME NEW id \in Nat, NEW cmd \in Cmds \ {"generate"}
  PROVE  Bare(id, cmd) \in SoundRequests
<1>1. Unsaid \in Controls
  BY DEF Unsaid, Controls
<1>2. Bare(id, cmd) \in AnyRequest /\ Bare(id, cmd).cmd # "generate"
  BY <1>1 DEF Bare, AnyRequest, Cmds, AskKinds, ClearKv
<1> QED BY <1>2 DEF SoundRequests

LEMMA NoneSound == NoRequest \in SoundRequests /\ CloseRequest \in SoundRequests
  BY BareSound DEF NoRequest, CloseRequest, Cmds

LEMMA ParsedSound ==
  ASSUME mode \in Modes, NEW id \in Nat, NEW r \in Requests(id)
  PROVE  Parsed(r) \in SoundRequests
<1>1. r \in AnyRequest
  BY ModesAssumption DEF Requests, AnyRequest, ModeOK
<1>2. CASE r.cmd = "generate" /\ ~ControlsOf(r).ok
  <2>1. "error" \in Cmds \ {"generate"} /\ r.id \in Nat
    BY <1>1 DEF AnyRequest, Cmds
  <2> QED BY <1>2, <2>1, BareSound DEF Parsed
<1>3. CASE ~(r.cmd = "generate" /\ ~ControlsOf(r).ok)
  <2>1. r.ask # "none" /\ r.clear \in mode.clears
    BY ModesAssumption DEF Requests, ModeOK
  <2> QED BY <1>1, <1>3, <2>1 DEF Parsed, SoundRequests
<1> QED BY <1>2, <1>3

\* A step that keeps the mode keeps what sound means.
LEMMA SoundKept == ASSUME mode' = mode PROVE SoundRequests' = SoundRequests
  BY DEF SoundRequests, ControlsOf, Line

LEMMA InitFInv == Init => FInv
<1> SUFFICES ASSUME Init PROVE FInv
  OBVIOUS
<1>1. << >> \in Seq(SoundRequests)
  OBVIOUS
<1> QED BY <1>1, NoneSound DEF Init, FInv, Serving

LEMMA StepFInv == FInv /\ [Next]_vars => FInv'
<1> SUFFICES ASSUME FInv, [Next]_vars PROVE FInv'
  OBVIOUS
<1> USE DEF FInv
<1>0. mode' = mode /\ SoundRequests' = SoundRequests /\ (\A r : ControlsOf(r)' = ControlsOf(r))
  <2>1. mode' = mode
    BY DEF Next, vars, fvars, ReadLine, ReadCancel, Push, ReaderEnds, Connect, TakeClose, TakeError, TakeGenerate,
           StreamRefused, StartTurn, Token, ClientGone, TurnDone, TurnCancelled, TurnFails
  <2> QED BY <2>1, SoundKept DEF ControlsOf, Line
<1>1. CASE ReadLine
  <2>1. PICK r \in Requests(sent') : reader' = Holds(Parsed(r))
    BY <1>1 DEF ReadLine
  <2>2. reader'.cmd \in SoundRequests
    BY <1>1, <2>1, ParsedSound DEF ReadLine, Holds
  <2> QED BY <1>0, <1>1, <2>2 DEF ReadLine, Serving, cvars, history
<1>2. CASE ReadCancel
  <2>1. loop = "running" => current.id \in heard'
    BY <1>2 DEF ReadCancel, Running
  <2> QED BY <1>0, <1>2, <2>1 DEF ReadCancel, Serving
<1>3. CASE Push
  BY <1>0, <1>3, NoneSound DEF Push, Enqueue, Serving, cvars
<1>4. CASE ReaderEnds
  BY <1>0, <1>4, NoneSound DEF ReaderEnds, Ended, Enqueue, Serving, cvars
<1>5. CASE Connect
  <2>1. PICK r \in Requests(sent') : Enqueue(Parsed(r))
    BY <1>5 DEF Connect
  <2>2. queue' \in Seq(SoundRequests)
    BY <1>5, <2>1, ParsedSound DEF Connect, Enqueue
  <2> QED BY <1>0, <1>5, <2>2 DEF Connect, Serving, cvars
<1>6. CASE TakeClose
  BY <1>0, <1>6 DEF TakeClose, Take, Serving, cvars, history
<1>7. CASE TakeError
  BY <1>0, <1>7 DEF TakeError, Take, Serving, cvars
<1>8. CASE TakeGenerate
  BY <1>0, <1>8 DEF TakeGenerate, Take, Next1, Serving, cvars, history
<1>9. CASE StreamRefused
  BY <1>0, <1>9, NoneSound DEF StreamRefused, Done, Serving, cvars
<1>10. CASE StartTurn
  BY <1>0, <1>10 DEF StartTurn, Begin, Serving, history
<1>11. CASE Token
  BY <1>0, <1>11 DEF Token, Serving, cvars, history
<1>12. CASE ClientGone
  <2>1. loop = "running" => current.id \in heard'
    BY <1>12 DEF ClientGone, Running
  <2> QED BY <1>0, <1>12, <2>1 DEF ClientGone, Serving
<1>13. CASE TurnDone
  BY <1>0, <1>13, NoneSound DEF TurnDone, Done, Serving
<1>14. CASE TurnCancelled
  BY <1>0, <1>14, NoneSound DEF TurnCancelled, Done, Serving
<1>15. ASSUME NEW how \in Outcomes, TurnFails(how) PROVE FInv'
  BY <1>0, <1>15, NoneSound DEF TurnFails, Serving
<1>16. CASE UNCHANGED vars
  BY <1>0, <1>16 DEF vars, cvars, fvars, Serving
<1> QED BY <1>1, <1>2, <1>3, <1>4, <1>5, <1>6, <1>7, <1>8, <1>9, <1>10, <1>11, <1>12, <1>13, <1>14,
           <1>15, <1>16 DEF Next

LEMMA Serves == Spec => []FInv
  BY InitFInv, StepFInv, PTL DEF Spec

\* In either program, whatever its flags and whatever is asked of it, a turn
\* thinks as its request asked.
THEOREM TurnsThinkAsAsked == Spec => []ControlsHonoured
<1>1. FInv => ControlsHonoured
  <2> SUFFICES ASSUME FInv, loop = "running" PROVE turn = Wanted(current.controls, mode.defaults)
    BY DEF ControlsHonoured
  <2>1. /\ turn = ControlsOf(current) /\ ControlsOf(current).ok
        /\ current.controls \in Controls /\ mode.defaults \in Defaults
    BY ModesAssumption DEF FInv, Serving, SoundRequests, AnyRequest, ModeOK
  <2> QED BY <2>1, LineHonoursRequest, HttpHonoursRequest DEF ControlsOf
<1> QED BY <1>1, Serves, PTL

\* However the reader and the loop interleave, a turn is cancelled only by a
\* cancel that came while it ran.
THEOREM CancelsReachTheirTurn == Spec => CancelsTheirOwn
<1>1. FInv /\ [Next]_vars =>
        [loop = "running" /\ loop' = "idle" /\ outcome' = "cancelled" => current.id \in heard]_vars
  <2> SUFFICES ASSUME FInv, Next, loop = "running", loop' = "idle", outcome' = "cancelled"
               PROVE  current.id \in heard
    OBVIOUS
  <2>1. CASE TurnCancelled
    BY <2>1 DEF TurnCancelled, Abandon, FInv, Serving
  <2>2. CASE TurnDone
    BY <2>2 DEF TurnDone, Commit
  <2>3. ASSUME NEW how \in Outcomes, TurnFails(how) PROVE FALSE
    BY <2>3 DEF TurnFails, Abandon
  <2>4. CASE ReadLine \/ ReadCancel \/ Push \/ ReaderEnds \/ Connect
    BY <2>4 DEF ReadLine, ReadCancel, Push, ReaderEnds, Connect
  <2>5. CASE TakeClose \/ TakeError \/ TakeGenerate \/ StreamRefused
    BY <2>5 DEF TakeClose, TakeError, TakeGenerate, StreamRefused, Take
  <2>6. CASE StartTurn \/ Token \/ ClientGone
    BY <2>6 DEF StartTurn, Token, ClientGone
  <2> QED BY <2>1, <2>2, <2>3, <2>4, <2>5, <2>6 DEF Next
<1> QED BY <1>1, Serves, PTL DEF Spec, CancelsTheirOwn
------------------------------------------------------------------------------
(* The order of the answers.                                                 *)

\* What waits to be answered: the request in hand, then the queue.
InHand == IF loop \in {"begun", "running"} THEN 1 ELSE 0
Waits(n) ==
  /\ Len(accepted) = n + InHand + Len(queue)
  /\ InHand = 1 => accepted[n + 1] = Place(current)
  /\ \A j \in 1..Len(queue) : accepted[n + InHand + j] = Place(queue[j])
ClosedBehind(n) == Len(accepted) >= n + 1 /\ accepted[n + 1] = 0

OrderInv ==
  /\ answered \in Seq(Nat) /\ accepted \in Seq(Nat)
  /\ loop \in {"idle", "begun", "running", "closed"}
  /\ loop # "closed" \/ ~broken =>
       /\ Len(answered) <= Len(accepted)
       /\ \A i \in 1..Len(answered) : accepted[i] = answered[i]
  /\ loop # "closed" => Waits(Len(answered))
  /\ loop = "closed" /\ ~broken => ClosedBehind(Len(answered))

LEMMA PlaceIsId == \A r \in SoundRequests : Place(r) \in Nat /\ r.id \in Nat
BY DEF Place, SoundRequests, AnyRequest

LEMMA InitOrder == Init => OrderInv
BY DEF Init, OrderInv, Waits, InHand

\* A request joins the end of the queue.
LEMMA EnqueueKeepsOrder ==
  ASSUME FInv, OrderInv, NEW r \in SoundRequests, Enqueue(r),
         UNCHANGED <<loop, current, broken, answered>>
  PROVE  OrderInv'
<1>1. /\ queue \in Seq(SoundRequests) /\ accepted \in Seq(Nat) /\ Place(r) \in Nat
      /\ answered \in Seq(Nat)
  BY PlaceIsId DEF FInv, OrderInv
<1>2. /\ queue' = Append(queue, r) /\ Len(queue') = Len(queue) + 1
      /\ \A j \in 1..Len(queue) : queue'[j] = queue[j]
      /\ queue'[Len(queue) + 1] = r /\ Len(queue) \in Nat
  BY <1>1 DEF Enqueue
<1>3. /\ accepted' \in Seq(Nat) /\ Len(accepted') = Len(accepted) + 1
      /\ \A j \in 1..Len(accepted) : accepted'[j] = accepted[j]
      /\ accepted'[Len(accepted) + 1] = Place(r) /\ Len(accepted) \in Nat
  BY <1>1 DEF Enqueue
<1>4. Len(answered) \in Nat /\ InHand \in {0, 1} /\ InHand' = InHand
  BY <1>1 DEF InHand
<1>5. loop # "closed" => Waits(Len(answered))'
  <2> SUFFICES ASSUME loop # "closed" PROVE Waits(Len(answered))'
    OBVIOUS
  <2>1. Waits(Len(answered))
    BY DEF OrderInv
  <2>2. Len(accepted') = Len(answered) + InHand + Len(queue')
    BY <2>1, <1>2, <1>3, <1>4 DEF Waits
  <2>3. InHand = 1 => accepted'[Len(answered) + 1] = Place(current)
    <3>1. InHand = 1 => Len(answered) + 1 \in 1..Len(accepted) /\ accepted[Len(answered) + 1] = Place(current)
      BY <2>1, <1>2, <1>4 DEF Waits
    <3> QED BY <3>1, <1>3
  <2>4. ASSUME NEW j \in 1..Len(queue') PROVE accepted'[Len(answered) + InHand + j] = Place(queue'[j])
    <3>1. CASE j <= Len(queue)
      <4>1. j \in 1..Len(queue)
        BY ONLY <3>1, <1>2, j \in 1..Len(queue')
      <4>2. /\ Len(accepted) = Len(answered) + InHand + Len(queue)
            /\ accepted[Len(answered) + InHand + j] = Place(queue[j])
        BY ONLY <2>1, <4>1 DEF Waits
      <4>3. Len(answered) + InHand + j \in 1..Len(accepted)
        BY ONLY <4>1, <4>2, <1>2, <1>3, <1>4
      <4> QED BY ONLY <4>1, <4>2, <4>3, <1>2, <1>3
    <3>2. CASE j = Len(queue) + 1
      BY <2>1, <1>2, <1>3, <1>4, <3>2 DEF Waits
    <3> QED BY <1>2, <3>1, <3>2
  <2> QED BY <1>4, <2>2, <2>3, <2>4 DEF Waits, Place
<1> QED BY <1>3, <1>4, <1>5 DEF OrderInv, ClosedBehind

\* The head of the queue is answered, or taken in hand.
LEMMA HeadTaken ==
  ASSUME FInv, OrderInv, loop = "idle", queue # << >>
  PROVE  /\ Next1 \in SoundRequests /\ Place(Next1) \in Nat
         /\ Len(queue) >= 1 /\ Len(Tail(queue)) = Len(queue) - 1
         /\ \A j \in 1..Len(Tail(queue)) : Tail(queue)[j] = queue[j + 1]
         /\ Len(accepted) = Len(answered) + Len(queue)
         /\ accepted[Len(answered) + 1] = Place(Next1)
         /\ \A j \in 1..Len(Tail(queue)) : accepted[Len(answered) + 1 + j] = Place(Tail(queue)[j])
<1>1. /\ queue \in Seq(SoundRequests) /\ Len(queue) \in Nat /\ Len(queue) >= 1
      /\ Head(queue) = queue[1]
  BY DEF FInv
<1>2. Len(answered) \in Nat /\ Len(accepted) \in Nat
  BY DEF OrderInv
<1>3. /\ Len(accepted) = Len(answered) + Len(queue)
      /\ \A j \in 1..Len(queue) : accepted[Len(answered) + j] = Place(queue[j])
  BY <1>1, <1>2 DEF OrderInv, Waits, InHand
<1>4. Next1 = queue[1] /\ Next1 \in SoundRequests
  BY <1>1 DEF Next1
<1>5. /\ Len(Tail(queue)) = Len(queue) - 1
      /\ \A j \in 1..Len(Tail(queue)) : Tail(queue)[j] = queue[j + 1]
  BY <1>1, HeadTailProperties
<1>6. ASSUME NEW j \in 1..Len(Tail(queue))
      PROVE  accepted[Len(answered) + 1 + j] = Place(Tail(queue)[j])
  <2>1. j + 1 \in 1..Len(queue) /\ Len(answered) + (j + 1) = Len(answered) + 1 + j
    BY <1>1, <1>2, <1>5
  <2>2. accepted[Len(answered) + (j + 1)] = Place(queue[j + 1])
    BY <1>3, <2>1
  <2> QED BY <1>5, <2>1, <2>2
<1>7. accepted[Len(answered) + 1] = Place(Next1)
  BY <1>1, <1>3, <1>4
<1> QED BY <1>1, <1>3, <1>4, <1>5, <1>6, <1>7, PlaceIsId

\* The request that is first in order is answered.
LEMMA AnswerKeepsOrder ==
  ASSUME OrderInv, loop # "closed", NEW r, Answer(r), r.id \in Nat,
         UNCHANGED accepted, Len(accepted) > Len(answered), accepted[Len(answered) + 1] = r.id
  PROVE  /\ answered' \in Seq(Nat) /\ Len(answered') = Len(answered) + 1
         /\ Len(answered') <= Len(accepted')
         /\ \A i \in 1..Len(answered') : accepted'[i] = answered'[i]
<1>1. /\ answered \in Seq(Nat) /\ accepted \in Seq(Nat)
      /\ Len(answered) \in Nat /\ Len(accepted) \in Nat
      /\ \A i \in 1..Len(answered) : accepted[i] = answered[i]
  BY DEF OrderInv
<1>2. /\ answered' \in Seq(Nat) /\ Len(answered') = Len(answered) + 1
      /\ \A i \in 1..Len(answered) : answered'[i] = answered[i]
      /\ answered'[Len(answered) + 1] = r.id
  BY <1>1 DEF Answer
<1>3. ASSUME NEW i \in 1..Len(answered') PROVE accepted'[i] = answered'[i]
  <2>1. CASE i <= Len(answered)
    BY SMTT(30), <1>1, <1>2, <2>1
  <2>2. CASE i = Len(answered) + 1
    BY <1>1, <1>2, <2>2
  <2> QED BY <1>1, <1>2, <2>1, <2>2
<1> QED BY <1>1, <1>2, <1>3

\* A turn's request leaves the loop's hand with its answer.
LEMMA HandAnswered ==
  ASSUME FInv, OrderInv, InHand = 1, Answer(current), UNCHANGED <<queue, accepted>>,
         loop' = "idle" \/ (loop' = "closed" /\ broken')
  PROVE  OrderInv'
<1>1. /\ current \in SoundRequests /\ loop # "closed" /\ current.cmd = "generate"
      /\ queue \in Seq(SoundRequests) /\ Len(queue) \in Nat
  BY DEF FInv, Serving, InHand
<1>2. Place(current) = current.id /\ current.id \in Nat
  BY <1>1, PlaceIsId DEF Place
<1>3. /\ answered \in Seq(Nat) /\ accepted \in Seq(Nat)
      /\ Len(answered) \in Nat /\ Len(accepted) \in Nat
      /\ Waits(Len(answered))
  BY <1>1 DEF OrderInv
<1>4. Len(accepted) > Len(answered) /\ accepted[Len(answered) + 1] = current.id
  BY <1>1, <1>2, <1>3 DEF Waits
<1>5. /\ answered' \in Seq(Nat) /\ Len(answered') = Len(answered) + 1
      /\ Len(answered') <= Len(accepted')
      /\ \A i \in 1..Len(answered') : accepted'[i] = answered'[i]
  BY <1>1, <1>2, <1>4, AnswerKeepsOrder
<1>6. InHand' = 0
  BY DEF InHand
<1>7. Waits(Len(answered))'
  BY <1>1, <1>3, <1>5, <1>6 DEF Waits, Place
<1> QED BY <1>3, <1>5, <1>7 DEF OrderInv

LEMMA StepOrder == FInv /\ FInv' /\ OrderInv /\ [Next]_vars => OrderInv'
<1> SUFFICES ASSUME FInv, FInv', OrderInv, [Next]_vars PROVE OrderInv'
  OBVIOUS
<1>0. CASE UNCHANGED <<queue, loop, current, broken, accepted, answered>>
  BY <1>0 DEF OrderInv, Waits, ClosedBehind, InHand, Place
<1>1. CASE ReadLine \/ ReadCancel \/ StartTurn \/ Token \/ ClientGone
  <2>1. CASE StartTurn
    <3>1. loop = "begun" /\ loop' = "running" /\ UNCHANGED <<queue, current, broken, accepted, answered>>
      BY <2>1 DEF StartTurn, history
    <3> QED BY <3>1 DEF OrderInv, Waits, ClosedBehind, InHand, Place
  <2>2. CASE ReadLine \/ ReadCancel \/ Token \/ ClientGone
    BY <1>0, <2>2 DEF ReadLine, ReadCancel, Token, ClientGone, history
  <2> QED BY <1>1, <2>1, <2>2
<1>2. CASE Push
  <2>1. reader.cmd \in SoundRequests
    BY DEF FInv
  <2> QED BY <1>2, <2>1, EnqueueKeepsOrder DEF Push
<1>3. CASE ReaderEnds
  <2>1. CASE stop
    BY <1>0, <1>3, <2>1 DEF ReaderEnds
  <2>2. CASE ~stop
    BY <1>3, <2>2, NoneSound, EnqueueKeepsOrder DEF ReaderEnds
  <2> QED BY <2>1, <2>2
<1>4. CASE Connect
  <2>1. PICK r \in Requests(sent') : Enqueue(Parsed(r))
    BY <1>4 DEF Connect
  <2>2. Parsed(r) \in SoundRequests
    BY <1>4, ParsedSound DEF Connect, FInv
  <2> QED BY <1>4, <2>1, <2>2, EnqueueKeepsOrder DEF Connect
<1>5. CASE TakeClose
  <2>1. /\ loop = "idle" /\ queue # << >> /\ Next1.cmd = "close" /\ loop' = "closed"
        /\ UNCHANGED <<broken, accepted, answered>>
    BY <1>5 DEF TakeClose, Take, history
  <2>2. Place(Next1) = 0
    BY <2>1 DEF Place
  <2>3. Len(answered) \in Nat /\ Len(accepted) \in Nat
    BY DEF OrderInv
  <2> QED BY <2>1, <2>2, <2>3, HeadTaken DEF OrderInv, ClosedBehind
<1>6. CASE TakeError
  <2>1. /\ loop = "idle" /\ queue # << >> /\ Next1.cmd = "error" /\ queue' = Tail(queue)
        /\ Answer(Next1) /\ UNCHANGED <<loop, current, broken, accepted>>
    BY <1>6 DEF TakeError, Take
  <2>2. Place(Next1) = Next1.id /\ Next1.id \in Nat
    BY <2>1, HeadTaken, PlaceIsId DEF Place
  <2>3. Len(answered) \in Nat /\ Len(accepted) \in Nat /\ accepted \in Seq(Nat)
    BY DEF OrderInv
  <2>4. Len(accepted) > Len(answered) /\ accepted[Len(answered) + 1] = Next1.id
    BY <2>1, <2>2, <2>3, HeadTaken
  <2>5. /\ answered' \in Seq(Nat) /\ Len(answered') = Len(answered) + 1
        /\ Len(answered') <= Len(accepted')
        /\ \A i \in 1..Len(answered') : accepted'[i] = answered'[i]
    BY <2>1, <2>2, <2>4, AnswerKeepsOrder
  <2>6. Waits(Len(answered))'
    <3>1. /\ Len(queue') = Len(queue) - 1 /\ Len(queue) \in Nat
          /\ Len(accepted) = Len(answered) + Len(queue)
          /\ \A j \in 1..Len(queue') : accepted[Len(answered) + 1 + j] = Place(queue'[j])
      BY <2>1, HeadTaken DEF FInv
    <3>2. InHand' = 0
      BY <2>1 DEF InHand
    <3>3. \A j \in 1..Len(queue') : accepted'[Len(answered') + 0 + j] = Place(queue'[j])
      BY <2>1, <2>3, <2>5, <3>1
    <3>4. Len(accepted') = Len(answered') + 0 + Len(queue')
      BY <2>1, <2>3, <2>5, <3>1
    <3> QED BY <3>2, <3>3, <3>4 DEF Waits, Place
  <2> QED BY <2>1, <2>3, <2>5, <2>6 DEF OrderInv
<1>7. CASE TakeGenerate
  <2>1. /\ loop = "idle" /\ queue # << >> /\ queue' = Tail(queue) /\ loop' = "begun"
        /\ current' = Next1 /\ UNCHANGED <<broken, accepted, answered>>
    BY <1>7 DEF TakeGenerate, Take, history
  <2>2. Len(answered) \in Nat /\ Len(accepted) \in Nat
    BY DEF OrderInv
  <2>3. Waits(Len(answered))'
    BY <2>1, <2>2, HeadTaken DEF Waits, InHand, Place
  <2> QED BY <2>1, <2>3 DEF OrderInv
<1>8. CASE StreamRefused
  BY <1>8, HandAnswered DEF StreamRefused, Done, InHand
<1>9. CASE TurnDone \/ TurnCancelled
  BY <1>9, HandAnswered DEF TurnDone, TurnCancelled, Done, InHand
<1>10. ASSUME NEW how \in Outcomes, TurnFails(how) PROVE OrderInv'
  <2>1. loop' = "idle" \/ (loop' = "closed" /\ broken')
    BY <1>10 DEF TurnFails
  <2> QED BY <1>10, <2>1, HandAnswered DEF TurnFails, InHand
<1>11. CASE UNCHANGED vars
  BY <1>0, <1>11 DEF vars, fvars, history
<1> QED BY <1>1, <1>2, <1>3, <1>4, <1>5, <1>6, <1>7, <1>8, <1>9, <1>10, <1>11 DEF Next

LEMMA OrderShows == FInv /\ OrderInv => AnsweredInOrder
<1> SUFFICES ASSUME FInv, OrderInv PROVE AnsweredInOrder
  OBVIOUS
<1> DEFINE inHand  == IF loop \in {"begun", "running"} THEN <<current>> ELSE << >>
           waiting == inHand \o queue
           places  == [i \in DOMAIN waiting |-> Place(waiting[i])]
<1>0. /\ answered \in Seq(Nat) /\ accepted \in Seq(Nat) /\ queue \in Seq(SoundRequests)
      /\ current \in SoundRequests
      /\ Len(answered) \in Nat /\ Len(accepted) \in Nat /\ Len(queue) \in Nat
  BY DEF FInv, OrderInv
<1>1. ASSUME loop # "closed" PROVE answered \o places = accepted
  <2>1. /\ inHand \in Seq(SoundRequests) /\ Len(inHand) = InHand /\ InHand \in {0, 1}
        /\ InHand = 1 => inHand[1] = current
    BY <1>0 DEF InHand
  <2> HIDE DEF inHand
  <2>2. /\ waiting \in Seq(SoundRequests) /\ Len(waiting) = InHand + Len(queue)
        /\ \A i \in 1..Len(waiting) : waiting[i] = IF i <= InHand THEN inHand[i] ELSE queue[i - InHand]
    BY <1>0, <2>1, ConcatProperties
  <2>3. DOMAIN waiting = 1..Len(waiting) /\ Len(waiting) \in Nat
    BY <2>2
  <2> HIDE DEF waiting
  <2>4. places \in Seq(Nat) /\ Len(places) = Len(waiting)
    BY SMTT(30), <2>2, <2>3, PlaceIsId
  <2>5. \A i \in 1..Len(waiting) : places[i] = Place(waiting[i])
    BY <2>3
  <2> HIDE DEF places
  <2>6. /\ answered \o places \in Seq(Nat)
        /\ Len(answered \o places) = Len(answered) + Len(places)
        /\ \A i \in 1..Len(answered) + Len(places) : (answered \o places)[i] =
             IF i <= Len(answered) THEN answered[i] ELSE places[i - Len(answered)]
    BY <1>0, <2>4, ConcatProperties
  <2>7. Waits(Len(answered)) /\ \A i \in 1..Len(answered) : accepted[i] = answered[i]
    BY <1>1 DEF OrderInv
  <2> DEFINE whole == answered \o places
             a == Len(answered)
             h == InHand
  <2>8. /\ whole \in Seq(Nat) /\ Len(whole) = Len(accepted)
        /\ a \in Int /\ h \in Int /\ 0 <= a /\ 0 <= h
        /\ Len(waiting) = h + Len(queue) /\ Len(accepted) = a + Len(waiting)
    BY <1>0, <2>1, <2>2, <2>4, <2>6, <2>7 DEF Waits
  <2>9. /\ \A i \in 1..a : whole[i] = answered[i]
        /\ \A k \in 1..Len(waiting) : whole[a + k] = Place(waiting[k])
    BY <1>0, <2>3, <2>4, <2>5, <2>6
  <2>10. /\ h = 1 => accepted[a + 1] = Place(current)
         /\ \A j \in 1..Len(queue) : accepted[a + h + j] = Place(queue[j])
         /\ \A i \in 1..a : accepted[i] = answered[i]
    BY <2>7 DEF Waits
  <2>11. /\ h \in {0, 1}
         /\ h = 1 => waiting[1] = current
         /\ \A j \in 1..Len(queue) : waiting[h + j] = queue[j]
    <3>1. h = 1 => waiting[1] = current
      BY <1>0, <2>1, <2>2
    <3>2. ASSUME NEW j \in 1..Len(queue) PROVE waiting[h + j] = queue[j]
      <4>1. h + j \in 1..Len(waiting) /\ ~(h + j <= h) /\ (h + j) - h = j
        BY <1>0, <2>1, <2>8
      <4> QED BY <2>2, <4>1
    <3> QED BY <2>1, <3>1, <3>2
  <2> HIDE DEF whole, a, h
  <2>12. ASSUME NEW i \in 1..Len(accepted) PROVE whole[i] = accepted[i]
    <3>0. Len(accepted) \in Int /\ Len(queue) \in Int
      BY <1>0
    <3>1. CASE i <= a
      BY <2>8, <2>9, <2>10, <3>1
    <3>2. CASE i = a + 1 /\ h = 1
      <4>1. 1 \in 1..Len(waiting)
        BY <1>0, <2>8, <3>2
      <4> QED BY <2>9, <2>10, <2>11, <3>2, <4>1
    <3>3. CASE i > a + h
      <4> DEFINE j == i - a - h
      <4>1. j \in 1..Len(queue) /\ i = a + h + j /\ h + j \in 1..Len(waiting) /\ i = a + (h + j)
        BY <2>8, <3>0, <3>3
      <4> HIDE DEF j
      <4> QED BY <2>9, <2>10, <2>11, <4>1
    <3> QED BY <2>8, <2>11, <3>0, <3>1, <3>2, <3>3
  <2>13. whole = accepted
    BY <1>0, <2>8, <2>12, SeqEqual
  <2> QED BY <2>13 DEF whole
<1>2. ASSUME loop = "closed", ~broken
      PROVE  answered \o <<0>> = SubSeq(accepted, 1, Len(answered) + 1)
  <2> DEFINE n == Len(answered) + 1
  <2>1. /\ answered \o <<0>> \in Seq(Nat) /\ Len(answered \o <<0>>) = n
        /\ \A i \in 1..Len(answered) : (answered \o <<0>>)[i] = answered[i]
        /\ (answered \o <<0>>)[n] = 0
    BY <1>0
  <2>2. n <= Len(accepted) /\ accepted[n] = 0 /\ \A i \in 1..Len(answered) : accepted[i] = answered[i]
    <3>1. ClosedBehind(Len(answered)) /\ \A i \in 1..Len(answered) : accepted[i] = answered[i]
      BY ONLY OrderInv, <1>2 DEF OrderInv
    <3> QED BY ONLY <3>1 DEF ClosedBehind, n
  <2>3. \A i \in 1..n : accepted[i] \in Nat
    BY <1>0, <2>2, ElementOfSeq
  <2>4. /\ SubSeq(accepted, 1, n) \in Seq(Nat) /\ Len(SubSeq(accepted, 1, n)) = n
        /\ \A i \in 1..n : SubSeq(accepted, 1, n)[i] = accepted[i]
    BY <1>0, <2>3, SubSeqProperties
  <2>5. \A i \in 1..n : (answered \o <<0>>)[i] = SubSeq(accepted, 1, n)[i]
    BY <1>0, <2>1, <2>2, <2>4
  <2> HIDE DEF n
  <2>6. answered \o <<0>> = SubSeq(accepted, 1, n)
    BY <2>1, <2>4, <2>5, SeqEqual
  <2> QED BY <2>6 DEF n
<1> QED BY <1>1, <1>2 DEF AnsweredInOrder

\* Every request that was queued is answered once and in its order, however
\* many there are and however the reader and the loop interleave.
THEOREM AnswersKeepTheirOrder == Spec => []AnsweredInOrder
<1>1. Spec => [](FInv /\ OrderInv)
  <2>1. FInv /\ OrderInv /\ [Next]_vars => (FInv /\ OrderInv)'
    BY StepFInv, StepOrder
  <2> QED BY InitFInv, InitOrder, <2>1, PTL DEF Spec
<1> QED BY <1>1, OrderShows, PTL
------------------------------------------------------------------------------
(* What the client puts together.                                            *)

Pieces == [text : Seq(Nat), reasoning : Seq(Nat)]
EndsWith(t, s) == \E head \in Seq(Nat) : t = head \o s
ShownInv ==
  /\ view \in Pieces /\ client \in Pieces /\ told = view
  /\ IF Line THEN client = view
     ELSE EndsWith(client.text, view.text) /\ EndsWith(client.reasoning, view.reasoning)

\* IsSuffix looks at the two from their ends.
LEMMA SuffixOfConcat ==
  ASSUME NEW head \in Seq(Nat), NEW s \in Seq(Nat)
  PROVE  IsSuffix(s, head \o s)
<1> DEFINE t == head \o s
           m == Len(s)
           n == Len(t)
<1>1. /\ t \in Seq(Nat) /\ m \in Nat /\ n \in Nat /\ n >= m
      /\ \A i \in 1..m : t[n - m + i] = s[i]
  <2>1. /\ t \in Seq(Nat) /\ n = Len(head) + m
        /\ \A i \in 1..Len(head) + m : t[i] = IF i <= Len(head) THEN head[i] ELSE s[i - Len(head)]
    BY ConcatProperties
  <2>2. Len(head) \in Nat /\ m \in Nat
    OBVIOUS
  <2> HIDE DEF t, m, n
  <2>3. ASSUME NEW i \in 1..m PROVE t[n - m + i] = s[i]
    <3>1. Len(head) + i \in 1..Len(head) + m /\ n - m + i = Len(head) + i
          /\ ~(Len(head) + i <= Len(head)) /\ (Len(head) + i) - Len(head) = i
      BY <2>1, <2>2
    <3> QED BY <2>1, <3>1
  <2> QED BY <2>1, <2>2, <2>3
<1>2. /\ Reverse(s) \in Seq(Nat) /\ Len(Reverse(s)) = m
      /\ \A i \in 1..m : Reverse(s)[i] = s[(m - i) + 1]
  BY DEF Reverse
<1> HIDE DEF t
<1>3. /\ Reverse(t) \in Seq(Nat) /\ Len(Reverse(t)) = n
      /\ \A i \in 1..n : Reverse(t)[i] = t[(n - i) + 1]
  BY <1>1 DEF Reverse
<1> DEFINE rs == Reverse(s)
           rt == Reverse(t)
<1> HIDE DEF rs, rt, m, n
<1>4. ASSUME NEW i \in 1..m PROVE rs[i] = rt[i]
  <2>1. (m - i) + 1 \in 1..m /\ n - m + ((m - i) + 1) = (n - i) + 1 /\ i \in 1..n
    BY <1>1
  <2> QED BY <1>1, <1>2, <1>3, <2>1 DEF rs, rt
<1>5. /\ SubSeq(rs, 1, m) \in Seq(Nat) /\ Len(SubSeq(rs, 1, m)) = m
      /\ \A i \in 1..m : SubSeq(rs, 1, m)[i] = rs[i]
  <2>1. \A i \in 1..m : rs[i] \in Nat
    BY <1>1, <1>2, ElementOfSeq DEF rs
  <2> QED BY <1>1, <2>1, SubSeqProperties
<1>6. /\ SubSeq(rt, 1, m) \in Seq(Nat) /\ Len(SubSeq(rt, 1, m)) = m
      /\ \A i \in 1..m : SubSeq(rt, 1, m)[i] = rt[i]
  <2>1. \A i \in 1..m : rt[i] \in Nat
    <3>1. \A i \in 1..m : i \in 1..Len(rt)
      BY <1>1, <1>3 DEF rt
    <3> QED BY <1>3, <3>1, ElementOfSeq DEF rt
  <2> QED BY <1>1, <2>1, SubSeqProperties
<1>7. SubSeq(rs, 1, m) = SubSeq(rt, 1, m)
  BY <1>4, <1>5, <1>6, SeqEqual
<1> QED BY <1>1, <1>2, <1>3, <1>7 DEF IsSuffix, IsPrefix, rs, rt, t

\* What extends a sequence is the sequence and the suffix.
LEMMA SuffixCompletes ==
  ASSUME NEW before \in Seq(Nat), NEW now \in Seq(Nat), IsPrefix(before, now)
  PROVE  before \o Suffix(now, before) = now
<1> DEFINE m == Len(before)
           n == Len(now)
<1>1. m \in Nat /\ n \in Nat /\ m <= n /\ SubSeq(before, 1, m) = SubSeq(now, 1, m)
  BY DEF IsPrefix
<1>2. SubSeq(before, 1, m) = before
  BY SubSeqFull
<1>3. 1 \in 1..n + 1 /\ m \in (1 - 1)..n /\ n \in m..n
  BY <1>1
<1>4. SubSeq(now, 1, m) \o SubSeq(now, m + 1, n) = SubSeq(now, 1, n)
  <2> HIDE DEF m
  <2> QED BY <1>3, ConcatAdjacentSubSeq
<1>5. SubSeq(now, 1, n) = now
  BY SubSeqFull
<1> QED BY <1>1, <1>2, <1>4, <1>5 DEF Suffix

LEMMA SuffixTyped == ASSUME NEW before \in Seq(Nat), NEW now \in Seq(Nat) PROVE Suffix(now, before) \in Seq(Nat)
<1>1. Len(before) + 1 \in Int /\ Len(now) \in Int
      /\ \A i \in Len(before) + 1..Len(now) : now[i] \in Nat
  BY LenProperties, ElementOfSeq
<1> QED BY <1>1, SubSeqProperties DEF Suffix

\* A chunk of a stream: what was there is continued, or all of it is sent.
LEMMA ChunkKeepsEnd ==
  ASSUME NEW old \in Seq(Nat), NEW before \in Seq(Nat), NEW now \in Seq(Nat), EndsWith(old, before)
  PROVE  /\ old \o StreamSuffix(now, before) \in Seq(Nat)
         /\ EndsWith(old \o StreamSuffix(now, before), now)
<1>1. StreamSuffix(now, before) \in Seq(Nat)
  BY SuffixTyped DEF StreamSuffix
<1>4. old \o StreamSuffix(now, before) \in Seq(Nat)
  BY <1>1, ConcatProperties
<1>2. CASE IsPrefix(before, now)
  <2>1. PICK head \in Seq(Nat) : old = head \o before
    BY DEF EndsWith
  <2>2. (head \o before) \o Suffix(now, before) = head \o (before \o Suffix(now, before))
    BY SMTT(30), SuffixTyped, ConcatAssociative
  <2>3. old \o StreamSuffix(now, before) = head \o now
    <3>1. before \o Suffix(now, before) = now
      BY <1>2, SuffixCompletes
    <3>2. StreamSuffix(now, before) = Suffix(now, before)
      BY <1>2 DEF StreamSuffix
    <3> QED BY <2>1, <2>2, <3>1, <3>2
  <2> QED BY <1>4, <2>3 DEF EndsWith
<1>3. CASE ~IsPrefix(before, now)
  <2>1. old \o StreamSuffix(now, before) = old \o now
    BY <1>3 DEF StreamSuffix
  <2> QED BY <1>4, <2>1 DEF EndsWith
<1> QED BY <1>2, <1>3

LEMMA ShowKeeps ==
  ASSUME ShownInv, mode' = mode, NEW now \in Pieces, Show(now)
  PROVE  ShownInv'
<1>1. /\ view' = now /\ told' = now /\ view \in Pieces /\ client \in Pieces /\ told = view
      /\ Line' = Line
  BY DEF Show, ShownInv, Line
<1>2. CASE Line
  <2>1. client = view /\ LineDelta(now)
    BY <1>2 DEF Show, ShownInv
  <2>2. client' = now
    <3>1. CASE Extends(now, told)
      <4>1. client' = [text |-> client.text \o Suffix(now.text, told.text),
                       reasoning |-> client.reasoning \o Suffix(now.reasoning, told.reasoning)]
        BY <2>1, <3>1 DEF LineDelta
      <4>2. /\ view.text \o Suffix(now.text, view.text) = now.text
            /\ view.reasoning \o Suffix(now.reasoning, view.reasoning) = now.reasoning
        BY <1>1, <3>1, SuffixCompletes DEF Extends, Pieces
      <4> QED BY <1>1, <2>1, <4>1, <4>2 DEF Pieces
    <3>2. CASE ~Extends(now, told)
      BY <2>1, <3>2 DEF LineDelta
    <3> QED BY <3>1, <3>2
  <2> QED BY <1>1, <1>2, <2>2 DEF ShownInv
<1>3. CASE ~Line
  <2>1. /\ EndsWith(client.text, view.text) /\ EndsWith(client.reasoning, view.reasoning)
        /\ client' = [text      |-> client.text \o StreamSuffix(now.text, told.text),
                      reasoning |-> client.reasoning \o StreamSuffix(now.reasoning, told.reasoning)]
    BY <1>3 DEF Show, ShownInv, HttpDelta
  <2>2. /\ client.text \o StreamSuffix(now.text, view.text) \in Seq(Nat)
        /\ EndsWith(client.text \o StreamSuffix(now.text, view.text), now.text)
    BY <1>1, <2>1, ChunkKeepsEnd DEF Pieces
  <2>3. /\ client.reasoning \o StreamSuffix(now.reasoning, view.reasoning) \in Seq(Nat)
        /\ EndsWith(client.reasoning \o StreamSuffix(now.reasoning, view.reasoning), now.reasoning)
    BY <1>1, <2>1, ChunkKeepsEnd DEF Pieces
  <2> QED BY <1>1, <1>3, <2>1, <2>2, <2>3 DEF ShownInv, Pieces
<1> QED BY <1>2, <1>3

\* A parse of what was generated.
LEMMA ViewsTyped == ASSUME NEW g \in Seq(Nat), NEW now \in Views(g) PROVE now \in Pieces
<1>1. PICK k \in 0..Len(g) :
        now = [reasoning |-> SubSeq(g, 1, k), text |-> SubSeq(g, k + 1, Len(g))]
  BY DEF Views
<1>2. Len(g) \in Nat /\ k \in Int /\ \A i \in 1..Len(g) : g[i] \in Nat
  BY LenProperties, ElementOfSeq
<1>3. SubSeq(g, 1, k) \in Seq(Nat)
  <2>1. \A i \in 1..k : g[i] \in Nat
    BY <1>2
  <2> QED BY <1>2, <2>1, SubSeqProperties
<1>4. SubSeq(g, k + 1, Len(g)) \in Seq(Nat)
  <2>1. \A i \in k + 1..Len(g) : g[i] \in Nat
    BY <1>2
  <2>2. k + 1 \in Int /\ Len(g) \in Int
    BY <1>2
  <2> QED BY <2>1, <2>2, SubSeqProperties
<1> QED BY <1>1, <1>3, <1>4 DEF Pieces

LEMMA SilenceEnds == Silence \in Pieces /\ EndsWith(<< >>, << >>)
<1>1. << >> \in Seq(Nat) /\ << >> = << >> \o << >>
  BY ConcatEmptySeq
<1> QED BY <1>1 DEF Silence, Pieces, EndsWith

LEMMA InitShown == Init => ShownInv
BY SilenceEnds DEF Init, ShownInv, Silence

LEMMA StepShown == ShownInv /\ [Next]_vars => ShownInv'
<1> SUFFICES ASSUME ShownInv, [Next]_vars PROVE ShownInv'
  OBVIOUS
<1>0. mode' = mode
  BY DEF Next, vars, fvars, ReadLine, ReadCancel, Push, ReaderEnds, Connect, TakeClose, TakeError, TakeGenerate,
         StreamRefused, StartTurn, Token, ClientGone, TurnDone, TurnCancelled, TurnFails
<1>1. Generated \in Seq(Nat)
  BY ConcatProperties DEF ShownInv, Pieces, Generated
<1>2. CASE UNCHANGED shown
  BY <1>0, <1>2 DEF shown, ShownInv, Line
<1>3. ASSUME NEW now \in Pieces, Show(now) PROVE ShownInv'
  BY <1>0, <1>3, ShowKeeps
<1>4. CASE StartTurn
  <2>1. view' = Silence /\ told' = Silence /\ client' = Silence
    BY <1>4 DEF StartTurn
  <2> QED BY <2>1, SilenceEnds DEF ShownInv, Silence
<1>5. CASE Token
  <2>1. PICK now \in Views(Append(Generated, Len(Generated) + 1)) : Show(now)
    BY <1>5 DEF Token
  <2>2. Append(Generated, Len(Generated) + 1) \in Seq(Nat)
    BY <1>1
  <2> QED BY <1>3, <2>1, <2>2, ViewsTyped
<1>6. CASE TurnDone
  <2>1. UNCHANGED shown \/ \E now \in Views(Generated) : Show(now)
    BY <1>6 DEF TurnDone
  <2> QED BY <1>1, <1>2, <1>3, <2>1, ViewsTyped
<1>7. CASE ReadLine \/ ReadCancel \/ Push \/ ReaderEnds \/ Connect \/ TakeClose \/ TakeError
           \/ TakeGenerate \/ StreamRefused \/ ClientGone \/ TurnCancelled
           \/ (\E how \in Outcomes : TurnFails(how)) \/ UNCHANGED vars
  BY <1>2, <1>7 DEF vars, fvars, shown, ReadLine, ReadCancel, Push, ReaderEnds, Connect, TakeClose,
         TakeError, TakeGenerate, StreamRefused, ClientGone, TurnCancelled, TurnFails
<1> QED BY <1>4, <1>5, <1>6, <1>7 DEF Next

\* Whatever a later parse makes of an earlier token: the client of the line
\* program holds the answer, and a stream ends with it.
THEOREM ClientsHoldTheAnswer == Spec => []StreamCarriesAnswer
<1>1. Spec => []ShownInv
  BY InitShown, StepShown, PTL DEF Spec
<1>2. ShownInv => StreamCarriesAnswer
  <2> SUFFICES ASSUME ShownInv PROVE StreamCarriesAnswer
    OBVIOUS
  <2>1. ASSUME NEW s \in Seq(Nat), NEW t, EndsWith(t, s) PROVE IsSuffix(s, t)
    BY <2>1, SuffixOfConcat DEF EndsWith
  <2> QED BY <2>1 DEF ShownInv, StreamCarriesAnswer, Pieces
<1> QED BY <1>1, <1>2, PTL
------------------------------------------------------------------------------
(* The conversation that a turn continues.                                  *)

\* A message of a conversation: whose it is and of which request.
Chat == [role : {"user", "assistant", "system"}, of : Nat]

\* What the two programs put into a conversation are messages.
LEMMA RolesAreChat ==
  ASSUME NEW id \in Nat
  PROVE  User(id) \in Chat /\ Reply(id) \in Chat /\ System \in Chat
BY DEF User, Reply, System, Chat

\* Two and three messages.
LEMMA PairJoins ==
  ASSUME NEW a, NEW b, NEW c
  PROVE  /\ Append(<<a>>, b) = <<a, b>> /\ <<a>> \o <<b>> = <<a, b>>
         /\ Append(<<a, b>>, c) = <<a, b, c>>
<1> DEFINE S == {a, b, c}
<1>1. a \in S /\ b \in S /\ c \in S
  OBVIOUS
<1> HIDE DEF S
<1>2. <<a>> \in Seq(S) /\ <<b>> \in Seq(S) /\ <<a, b>> \in Seq(S) /\ <<a, b, c>> \in Seq(S)
  BY <1>1
<1>3. Append(<<a>>, b) = <<a, b>>
  <2> DEFINE s == <<a>>
             t == Append(s, b)
             p == <<a, b>>
  <2>1. s \in Seq(S) /\ Len(s) = 1 /\ s[1] = a
    BY <1>2
  <2>2. p \in Seq(S) /\ Len(p) = 2 /\ p[1] = a /\ p[2] = b
    BY <1>2
  <2> HIDE DEF s, p
  <2>3. t \in Seq(S) /\ Len(t) = 2 /\ t[1] = a /\ t[2] = b
    BY <1>1, <2>1, AppendProperties
  <2> HIDE DEF t
  <2>4. \A i \in 1..2 : t[i] = p[i]
    BY <2>2, <2>3
  <2>5. t = p
    BY <2>2, <2>3, <2>4, SeqEqual
  <2> QED BY <2>5 DEF s, t, p
<1>4. Append(<<a, b>>, c) = <<a, b, c>>
  <2> DEFINE s == <<a, b>>
             t == Append(s, c)
             p == <<a, b, c>>
  <2>1. s \in Seq(S) /\ Len(s) = 2 /\ s[1] = a /\ s[2] = b
    BY <1>2
  <2>2. p \in Seq(S) /\ Len(p) = 3 /\ p[1] = a /\ p[2] = b /\ p[3] = c
    BY <1>2
  <2> HIDE DEF s, p
  <2>3. t \in Seq(S) /\ Len(t) = 3 /\ t[1] = a /\ t[2] = b /\ t[3] = c
    <3>1. /\ t \in Seq(S) /\ Len(t) = Len(s) + 1 /\ t[Len(s) + 1] = c
          /\ \A i \in 1..Len(s) : t[i] = s[i]
      <4>1. s \in Seq(S)
        BY <2>1
      <4> QED BY <1>1, <4>1, AppendProperties
    <3>2. Len(s) + 1 = 3 /\ 1 \in 1..Len(s) /\ 2 \in 1..Len(s)
      BY <2>1
    <3> HIDE DEF t
    <3> QED BY <2>1, <3>1, <3>2
  <2> HIDE DEF t
  <2>4. \A i \in 1..3 : t[i] = p[i]
    BY <2>2, <2>3
  <2>5. t = p
    BY <2>2, <2>3, <2>4, SeqEqual
  <2> QED BY <2>5 DEF s, t, p
<1>5. <<a>> \o <<b>> = Append(<<a>>, b)
  BY <1>1, <1>2, AppendIsConcat
<1> QED BY <1>3, <1>4, <1>5

\* On the line a turn that may find a conversation to continue has no system
\* prompt put before its message: a session that is not kept clears it anyway.
ClearsAlways(m) == ~m.kvPreserve /\ m.clears \subseteq {"unset", "yes"}
SystemIsApart(m) == m.program = "line" /\ m.system => ClearsAlways(m)

\* A turn in progress works on the conversation it found and its message, or
\* starts one with the system prompt.
TalkInv ==
  /\ talk \in Seq(Chat) /\ pending \in Seq(Chat)
  /\ busy => loop = "running"
  /\ busy /\ NewMessageOnly(current) =>
       \/ pending = talk \o <<User(current.id)>>
       \/ talk = << >> /\ pending = <<System, User(current.id)>>

\* What a request asks of the session is a conversation.
LEMMA MessagesTyped ==
  ASSUME NEW r, r.id \in Nat, r.ask \in AskKinds \ {"none"}
  PROVE  Given(r) \in Seq(Chat) /\ Messages(r) \in Seq(Chat)
<1>1. User(r.id) \in Chat /\ User(0) \in Chat /\ Reply(0) \in Chat /\ System \in Chat
  BY RolesAreChat
<1>2. Given(r) \in Seq(Chat)
  <2>1. CASE r.ask = "prompt"
    BY <2>1 DEF Given
  <2>2. CASE r.ask = "message"
    BY <1>1, <2>2 DEF Given
  <2>3. CASE r.ask = "transcript"
    BY <1>1, <2>3 DEF Given
  <2> QED BY <2>1, <2>2, <2>3 DEF AskKinds
<1>3. ASSUME NEW s \in Seq(Chat) PROVE WithSystem(s) \in Seq(Chat)
  <2>1. <<System>> \in Seq(Chat)
    BY <1>1
  <2>2. <<System>> \o s \in Seq(Chat)
    BY <2>1, ConcatProperties
  <2> QED BY <2>2 DEF WithSystem
<1>4. LineMessages(r) \in Seq(Chat)
  <2> DEFINE s == WithSystem(Given(r))
  <2>1. s \in Seq(Chat)
    BY <1>2, <1>3
  <2>2. LineMessages(r) = IF mode.system /\ Len(s) = 1 THEN Append(s, User(r.id)) ELSE s
    BY DEF LineMessages
  <2> HIDE DEF s
  <2>3. Append(s, User(r.id)) \in Seq(Chat)
    BY <1>1, <2>1, AppendProperties
  <2> QED BY <2>1, <2>2, <2>3
<1>5. HttpMessages(r) \in Seq(Chat)
  BY <1>2, <1>3, EmptySeq DEF HttpMessages
<1> QED BY <1>2, <1>4, <1>5 DEF Messages

\* What a turn works on, when it starts.
LEMMA TurnContinues ==
  ASSUME FInv, TalkInv, SystemIsApart(mode), current.cmd = "generate"
  PROVE  LET found == Base(Clears(current))
             text == TurnOf(current)
         IN  /\ found \in Seq(Chat) /\ text \in Seq(Chat)
             /\ NewMessageOnly(current) =>
                  \/ text = found \o <<User(current.id)>>
                  \/ found = << >> /\ text = <<System, User(current.id)>>
<1> DEFINE found == Base(Clears(current))
           text == TurnOf(current)
           u == User(current.id)
           asked == Messages(current)
<1>1. /\ current.id \in Nat /\ current.ask \in AskKinds \ {"none"} /\ current.clear \in mode.clears
      /\ current.clear \in ClearKv
  BY DEF FInv, SoundRequests, AnyRequest
<1>2. u \in Chat /\ System \in Chat
  BY <1>1, RolesAreChat
<1>3. found \in Seq(Chat)
  BY EmptySeq DEF TalkInv, Base
<1>4. asked \in Seq(Chat) /\ text = IF asked = << >> THEN Append(found, u) ELSE asked
  BY <1>1, MessagesTyped DEF TurnOf
<1>5. Append(found, u) \in Seq(Chat) /\ Append(found, u) = found \o <<u>>
  <2> HIDE DEF found, u
  <2> QED BY <1>2, <1>3, AppendProperties, AppendIsConcat
<1>6. ASSUME NewMessageOnly(current)
      PROVE  \/ asked = << >>
             \/ found = << >> /\ (asked = <<u>> \/ asked = <<System, u>>)
  <2>1. HasSystem(<< >>) = FALSE /\ HasSystem(<<u>>) = FALSE
    BY DEF HasSystem, User
  <2>2. CASE Line /\ ~mode.system
    BY <1>6, <2>2 DEF NewMessageOnly, Messages, LineMessages, WithSystem, Given
  <2>3. CASE Line /\ mode.system
    <3>1. current.ask = "prompt"
      BY <1>6, <2>3 DEF NewMessageOnly
    <3>2. Given(current) = << >>
      BY <3>1 DEF Given
    <3>3. WithSystem(<< >>) = <<System>>
      BY <2>1, <2>3 DEF WithSystem
    <3>4. asked = <<System, u>>
      <4>1. asked = IF mode.system /\ Len(WithSystem(<< >>)) = 1
                      THEN Append(WithSystem(<< >>), u) ELSE WithSystem(<< >>)
        BY <2>3, <3>2 DEF Messages, LineMessages
      <4>2. asked = Append(<<System>>, u)
        BY <2>3, <3>3, <4>1
      <4> QED BY <4>2, PairJoins
    <3>5. Clears(current)
      BY <1>1, <2>3 DEF SystemIsApart, ClearsAlways, Line, Clears, ClearKv
    <3>6. found = << >>
      BY <3>5 DEF Base
    <3> QED BY <3>4, <3>6
  <2>4. CASE ~Line /\ (current.ask = "prompt" \/ Incremental(current))
    BY <2>4 DEF Messages, HttpMessages
  <2>5. CASE ~Line /\ current.ask = "message" /\ ~Incremental(current)
    <3>1. found = << >>
      BY <2>5 DEF Incremental, Base
    <3>2. asked = WithSystem(<<u>>)
      BY <2>5 DEF Messages, HttpMessages, Given
    <3>3. WithSystem(<<u>>) = <<u>> \/ WithSystem(<<u>>) = <<System, u>>
      BY PairJoins DEF WithSystem
    <3> QED BY <3>1, <3>2, <3>3
  <2> QED BY <1>6, <2>2, <2>3, <2>4, <2>5 DEF NewMessageOnly
<1>7. << >> \o <<u>> = <<u>>
  BY <1>2
<1>8. <<u>> # << >> /\ <<System, u>> # << >>
  OBVIOUS
<1>9. text \in Seq(Chat)
  BY <1>4, <1>5
<1>10. NewMessageOnly(current) => text = found \o <<u>> \/ (found = << >> /\ text = <<System, u>>)
  <2> HIDE DEF asked, text, found, u
  <2> QED BY <1>4, <1>5, <1>6, <1>7, <1>8
<1> QED BY <1>3, <1>9, <1>10

\* Every step keeps that.
LEMMA StepTalk == FInv /\ TalkInv /\ SystemIsApart(mode) /\ [Next]_vars => TalkInv'
<1> SUFFICES ASSUME FInv, TalkInv, SystemIsApart(mode), [Next]_vars PROVE TalkInv'
  OBVIOUS
<1>1. mode' = mode
  BY DEF Next, vars, fvars, ReadLine, ReadCancel, Push, ReaderEnds, Connect, TakeClose, TakeError, TakeGenerate,
         StreamRefused, StartTurn, Token, ClientGone, TurnDone, TurnCancelled, TurnFails
<1>2. (\A r : NewMessageOnly(r)' = NewMessageOnly(r))
  BY <1>1 DEF NewMessageOnly, Line
<1>3. ASSUME UNCHANGED <<talk, pending, busy, loop, current>> PROVE TalkInv'
  BY <1>2, <1>3 DEF TalkInv
<1>4. ASSUME UNCHANGED <<talk, pending, busy>>, loop # "running" PROVE TalkInv'
  BY <1>4 DEF TalkInv
<1>5. CASE ReadLine \/ ReadCancel \/ Push \/ ReaderEnds \/ Connect
  BY <1>3, <1>5 DEF ReadLine, ReadCancel, Cancel, Push, ReaderEnds, Connect, cvars
<1>6. CASE TakeClose \/ TakeError \/ TakeGenerate \/ StreamRefused
  BY <1>4, <1>6 DEF TakeClose, TakeError, TakeGenerate, StreamRefused, Take, cvars
<1>7. CASE StartTurn
  <2>1. /\ talk' = Base(Clears(current)) /\ pending' = TurnOf(current)
        /\ loop' = "running" /\ current' = current /\ current.cmd = "generate"
    BY <1>7 DEF StartTurn, Begin, FInv, Serving
  <2> QED BY <1>2, <2>1, TurnContinues DEF TalkInv
<1>8. CASE Token \/ ClientGone \/ UNCHANGED vars
  BY <1>3, <1>8 DEF Token, ClientGone, Cancel, vars, fvars, cvars
<1>9. CASE TurnDone
  <2>1. talk' = Append(pending, Reply(current.id)) /\ pending' = << >> /\ ~busy'
    BY <1>9 DEF TurnDone, Commit
  <2>2. Reply(current.id) \in Chat
    BY RolesAreChat DEF FInv, SoundRequests, AnyRequest
  <2>3. talk' \in Seq(Chat)
    BY <2>1, <2>2, AppendProperties DEF TalkInv
  <2> QED BY <2>1, <2>3, EmptySeq DEF TalkInv
<1>10. ASSUME NEW how, Abandon(how) PROVE TalkInv'
  BY <1>10, EmptySeq DEF Abandon, TalkInv
<1>11. CASE TurnCancelled
  BY <1>10, <1>11 DEF TurnCancelled
<1>12. CASE \E how \in Outcomes : TurnFails(how)
  BY <1>10, <1>12 DEF TurnFails
<1> QED BY <1>5, <1>6, <1>7, <1>8, <1>9, <1>11, <1>12 DEF Next

\* In either program, a new message of a conversation that is kept is added to
\* it: what was said before is still there when the turn is done.  On the line
\* with a system prompt this is true of conversations that are not kept; of
\* kept ones front_system_prompt shows that it is not.
THEOREM ConversationsAreKept ==
  ASSUME \A m \in Modes : SystemIsApart(m)
  PROVE  Spec => ConversationContinues
<1>1. Init => TalkInv
  BY EmptySeq DEF Init, CInit, TalkInv
<1>2. FInv => SystemIsApart(mode)
  BY DEF FInv
<1>3. FInv /\ TalkInv /\ [Next]_vars => TalkInv'
  BY <1>2, StepTalk
<1>4. FInv /\ TalkInv /\ [Next]_vars =>
        [ busy /\ ~busy' /\ outcome' = "ok" /\ NewMessageOnly(current)
          => \/ talk' = talk \o <<User(current.id), Reply(current.id)>>
             \/ talk = << >> /\ talk' = <<System, User(current.id), Reply(current.id)>> ]_vars
  <2> SUFFICES ASSUME FInv, TalkInv, Next, busy, ~busy', outcome' = "ok", NewMessageOnly(current)
               PROVE  \/ talk' = talk \o <<User(current.id), Reply(current.id)>>
                      \/ talk = << >> /\ talk' = <<System, User(current.id), Reply(current.id)>>
    OBVIOUS
  <2>1. CASE TurnDone
    <3> DEFINE u == User(current.id)
               r == Reply(current.id)
    <3>1. talk' = Append(pending, r)
      BY <2>1 DEF TurnDone, Commit
    <3>2. u \in Chat /\ r \in Chat /\ System \in Chat
      BY RolesAreChat DEF FInv, SoundRequests, AnyRequest
    <3>3. pending = talk \o <<u>> \/ (talk = << >> /\ pending = <<System, u>>)
      BY DEF TalkInv
    <3>4. talk \in Seq(Chat)
      BY DEF TalkInv
    <3> HIDE DEF u, r
    <3>5. Append(talk \o <<u>>, r) = talk \o <<u, r>>
      BY <3>2, <3>4
    <3>6. Append(<<System, u>>, r) = <<System, u, r>>
      BY PairJoins
    <3>7. talk' = talk \o <<u, r>> \/ (talk = << >> /\ talk' = <<System, u, r>>)
      BY <3>1, <3>3, <3>5, <3>6
    <3> QED BY <3>7 DEF u, r
  <2>2. CASE TurnCancelled
    BY <2>2 DEF TurnCancelled, Abandon
  <2>3. ASSUME NEW how \in Outcomes, TurnFails(how) PROVE FALSE
    BY <2>3 DEF TurnFails, Abandon
  <2>4. CASE ReadLine \/ ReadCancel \/ Push \/ ReaderEnds \/ Connect
    BY <2>4 DEF ReadLine, ReadCancel, Cancel, Push, ReaderEnds, Connect, cvars
  <2>5. CASE TakeClose \/ TakeError \/ TakeGenerate \/ StreamRefused
    BY <2>5 DEF TakeClose, TakeError, TakeGenerate, StreamRefused, cvars
  <2>6. CASE StartTurn \/ Token \/ ClientGone
    BY <2>6 DEF StartTurn, Begin, Token, ClientGone, Cancel, cvars
  <2> QED BY <2>1, <2>2, <2>3, <2>4, <2>5, <2>6 DEF Next
<1> QED BY <1>1, <1>3, <1>4, Serves, PTL DEF Spec, ConversationContinues
=============================================================================
