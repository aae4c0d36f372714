---------------------------- MODULE RequestControls ----------------------------
(***************************************************************************)
(* What a request's thinking controls come to.  Four fields speak of it:     *)
(* think, reasoning_effort and the two keys of chat_template_kwargs with the *)
(* same meaning; the line protocol (parse_session_generate) and the HTTP     *)
(* server (parse_completion_request, then handle_completions) resolve them   *)
(* each in its own way against the flags the program was started with.       *)
(* Thinking is "on" or "off", a field that is not given "unset".              *)
(***************************************************************************)
CONSTANTS
  Efforts,   (* reasoning efforts other than "none", normalised             *)
  TooLong    (* those of more than 64 bytes                                  *)

ASSUME EffortsAssumption == TooLong \subseteq Efforts /\ Efforts \cap {"", "none", "unset"} = {}

Think == {"on", "off"}
ValueOr(o, d) == IF o = "unset" THEN d ELSE o
Conflict(a, b) == a # "unset" /\ b # "unset" /\ a # b

Controls == [think : Think \cup {"unset"}, kwThink : Think \cup {"unset"},
             effort : Efforts \cup {"none", "unset"}, kwEffort : Efforts \cup {"none", "unset"}]

Unsaid == [think |-> "unset", kwThink |-> "unset", effort |-> "unset", kwEffort |-> "unset"]

\* The defaults the flags leave: "none" turns thinking off, and --no-think
\* with an effort is refused at start.
Defaults == {d \in [think : Think, effort : (Efforts \ TooLong) \cup {""}] : d.effort # "" => d.think = "on"}
FlagsConflict(noThink, effort) == noThink /\ effort \notin {"", "none"}
FlagDefaults(noThink, effort) ==
  IF effort = "none" THEN [think |-> "off", effort |-> ""]
  ELSE [think |-> IF noThink THEN "off" ELSE "on", effort |-> effort]

Refused == [ok |-> FALSE, think |-> "off", effort |-> ""]
Resolved(think, effort) == [ok |-> TRUE, think |-> think, effort |-> effort]

------------------------------------------------------------------------------
(* Line protocol.                                                            *)
LineEffort(c) == ValueOr(c.effort, c.kwEffort)
LineThink(c) == ValueOr(c.think, c.kwThink)
LineEffortAlone(c, d) ==
  LET effort == ValueOr(LineEffort(c), d.effort)
      think  == ValueOr(LineThink(c), d.think) IN
  IF Conflict(c.think, c.kwThink) \/ Conflict(c.effort, c.kwEffort) \/ effort \in TooLong THEN Refused
  ELSE IF effort = "none" THEN Resolved("off", "")
  ELSE Resolved(think, IF think = "on" THEN effort ELSE "")
LineControls(c, d) ==
  LET effort == ValueOr(LineEffort(c), d.effort)
      think  == ValueOr(LineThink(c), d.think) IN
  IF Conflict(c.think, c.kwThink) \/ Conflict(c.effort, c.kwEffort) \/ effort \in TooLong THEN Refused
  ELSE IF effort = "none" THEN Resolved("off", "")
  ELSE IF LineEffort(c) # "unset" /\ LineThink(c) = "unset" THEN Resolved("on", effort)
  ELSE Resolved(think, IF think = "on" THEN effort ELSE "")

------------------------------------------------------------------------------
(* HTTP server: what the parser leaves of the request ...                     *)
HttpThink(c) == ValueOr(c.kwThink, c.think)
HttpEffort(c) == ValueOr(ValueOr(c.kwEffort, c.effort), "")
HttpParseFails(c) ==
  \/ Conflict(c.think, c.kwThink)
  \/ Conflict(c.effort, c.kwEffort)
  \/ (c.kwThink # "unset" \/ c.kwEffort # "unset") /\ HttpEffort(c) \in TooLong
HttpParsed(c) ==
  IF HttpEffort(c) = "none" THEN [think |-> "off", effort |-> ""]
  ELSE [think |-> HttpThink(c), effort |-> IF HttpThink(c) = "off" THEN "" ELSE HttpEffort(c)]

\* ... and the turn it asks the session for, which checks the length again.
HttpControls(c, d) ==
  LET api    == HttpParsed(c)
      think  == ValueOr(api.think, IF api.effort # "" THEN "on" ELSE d.think)
      effort == IF think = "off" THEN "" ELSE IF api.effort = "" THEN d.effort ELSE api.effort IN
  IF HttpParseFails(c) \/ effort \in TooLong THEN Refused ELSE Resolved(think, effort)

------------------------------------------------------------------------------
(* The reference: no thinking wins, an effort asks for thinking, and what is  *)
(* not asked is the default.                                                  *)
AsksOff(c) == "off" \in {c.think, c.kwThink} \/ "none" \in {c.effort, c.kwEffort}
AsksOn(c) == "on" \in {c.think, c.kwThink} \/ {c.effort, c.kwEffort} \cap Efforts # {}
EffortAsked(c) == {c.effort, c.kwEffort} \ {"unset"}
Wanted(c, d) ==
  IF AsksOff(c) \/ ~(AsksOn(c) \/ d.think = "on") THEN Resolved("off", "")
  ELSE Resolved("on", IF EffortAsked(c) = {} THEN d.effort ELSE CHOOSE e \in EffortAsked(c) : TRUE)
=============================================================================
