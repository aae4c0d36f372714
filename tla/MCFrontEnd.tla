------------------------------ MODULE MCFrontEnd ------------------------------
(***************************************************************************)
(* Small instances of FrontEnd: conversations of three requests, a reader     *)
(* that races the loop, every combination of thinking controls on one         *)
(* request, and the text of one answer.                                        *)
(***************************************************************************)
EXTENDS FrontEnd

On == [think |-> "on", effort |-> ""]
Talk == [program |-> "line", kvPreserve |-> TRUE, system |-> FALSE, cmds |-> {"generate", "cancel"},
         asks |-> {"prompt", "transcript"}, clears |-> {"unset", "yes", "no"}, controls |-> {Unsaid},
         defaults |-> On, requests |-> 3, ahead |-> 2, tokens |-> 0]
Race == [Talk EXCEPT !.cmds = {"generate", "cancel", "error", "close"}, !.asks = {"prompt"},
                     !.clears = {"unset"}, !.requests = 4, !.ahead = 4]
Http == [Talk EXCEPT !.program = "http", !.cmds = {"generate", "error"}, !.asks = {"prompt", "message", "transcript"}]
Text == [Race EXCEPT !.cmds = {"generate"}, !.requests = 1, !.tokens = 3]
Think1 == [Text EXCEPT !.tokens = 0, !.controls = Controls, !.asks = {"message"}]

Programs(m) == {m, [m EXCEPT !.program = "http"]}
SafeModes ==
  {Talk, Race, Http, [Http EXCEPT !.system = TRUE], [Talk EXCEPT !.kvPreserve = FALSE, !.system = TRUE, !.clears = {"unset"}]}
  \cup Programs(Text)
  \cup UNION {Programs([Think1 EXCEPT !.defaults = d]) : d \in Defaults}
SystemModes == {[Talk EXCEPT !.system = TRUE, !.asks = {"prompt"}, !.clears = {"unset"}, !.requests = 2]}
=============================================================================
