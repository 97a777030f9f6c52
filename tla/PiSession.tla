------------------------------ MODULE PiSession ------------------------------
(***************************************************************************)
(* runSession of harness-pi/src/index.ts: one session of the Pi agent under *)
(* a wall-clock timer.  driveClarificationLoop prompts the agent, and again *)
(* with a fixed text while it only talks; the timer aborts the session; the *)
(* first of the two to be through ends the race, the statistics are read   *)
(* and the session is shut down.  What the events amount to is the matter  *)
(* of module Measurement.                                                  *)
(*                                                                         *)
(* What follows a promise that settles, up to the next await, runs before  *)
(* any timer or event, so it belongs to the step that settles it.  Agent,  *)
(* session and timer are external: `prompt` may settle before or after     *)
(* `abort` does, or never; the adapter relies on no more than that.        *)
(***************************************************************************)
EXTENDS Naturals

CONSTANT MaxFallbacks   \* MAX_CLARIFICATION_FALLBACKS

ASSUME PiSessionAssumption == MaxFallbacks \in Nat

VARIABLES
    stage,       \* where runSession is: "setup", "race", "shutdown" or "over"
    timer,       \* "none", "armed", "fired" or "cleared"
    abort,       \* session.abort(): "none", "pending" or "settled"
    prompting,   \* a call of session.prompt is pending
    heard,       \* [tool, text]: the two flags of the clarification heuristic
    requests,    \* clarificationRequestsCount
    prompts,     \* history: calls of session.prompt
    lateEvents,  \* history: an event was heard after the statistics were read
    result       \* what runSession has for its caller

sessionVars == <<stage, timer, abort, prompting, heard, requests, prompts, lateEvents, result>>

Nothing == [kind |-> "none", timedOut |-> FALSE, requests |-> 0]
Error   == [Nothing EXCEPT !.kind = "error"]

Silence == [tool |-> FALSE, text |-> FALSE]

-----------------------------------------------------------------------------
SessionInit ==
    /\ stage = "setup" /\ timer = "none" /\ abort = "none"
    /\ prompting = FALSE
    /\ heard = Silence
    /\ requests = 0 /\ prompts = 0
    /\ lateEvents = FALSE
    /\ result = Nothing

\* An unknown model, an extension that does not load, a session that cannot
\* be created: there is nothing to shut down yet.
SetupFails ==
    /\ stage = "setup"
    /\ stage' = "over" /\ result' = Error
    /\ UNCHANGED <<timer, abort, prompting, heard, requests, prompts, lateEvents>>

\* The timer is armed and the first prompt sent in one turn.
Begin ==
    /\ stage = "setup"
    /\ stage' = "race" /\ timer' = "armed"
    /\ prompting' = TRUE /\ prompts' = 1
    /\ UNCHANGED <<abort, heard, requests, lateEvents, result>>

\* Mutated form: the flags are not reset when the agent starts again.
HearForGood(event) ==
    /\ prompting /\ stage # "over"
    /\ heard' = CASE event = "start" -> heard
                  [] event = "tool"  -> [heard EXCEPT !.tool = TRUE]
                  [] event = "text"  -> [heard EXCEPT !.text = TRUE]
                  [] event = "other" -> heard
    /\ lateEvents' = (lateEvents \/ stage = "shutdown")
    /\ UNCHANGED <<stage, timer, abort, prompting, requests, prompts, result>>

\* The loop's listener sees an event: the agent starts, calls a tool or says
\* something; the rest it ignores.  It hears no more once the loop has ended
\* or the session is disposed of.
Hear(event) ==
    /\ prompting /\ stage # "over"
    /\ heard' = CASE event = "start" -> Silence
                  [] event = "tool"  -> [heard EXCEPT !.tool = TRUE]
                  [] event = "text"  -> [heard EXCEPT !.text = TRUE]
                  [] event = "other" -> heard
    /\ lateEvents' = (lateEvents \/ stage = "shutdown")
    /\ UNCHANGED <<stage, timer, abort, prompting, requests, prompts, result>>

\* Mutated form: the bound is off by one.
AsksAgainOnceMore == timer # "fired" /\ ~heard.tool /\ heard.text /\ requests <= MaxFallbacks

\* Text and no tool since the agent last started, and the cap not reached.
AsksAgain == timer # "fired" /\ ~heard.tool /\ heard.text /\ requests < MaxFallbacks

\* Mutated form: timedOut is set when abort has settled.
ReadingLateFlag ==
    [kind |-> "session", timedOut |-> timer = "fired" /\ abort = "settled", requests |-> requests]

\* The session's statistics, read when the race is over.
Reading == [kind |-> "session", timedOut |-> timer = "fired", requests |-> requests]

\* Mutated form: the timer is not cleared.
EndRaceUncleared(outcome) ==
    /\ UNCHANGED timer
    /\ IF stage = "race"
       THEN result' = outcome /\ stage' \in {"shutdown", "over"}
       ELSE UNCHANGED <<result, stage>>

\* Whoever settles the promise first ends the race: the timer is cleared and
\* the shutdown begun, which without handlers is over in the same turn.
EndRace(outcome) ==
    IF stage = "race"
    THEN /\ timer' = IF timer = "armed" THEN "cleared" ELSE timer
         /\ result' = outcome
         /\ stage' \in {"shutdown", "over"}
    ELSE UNCHANGED <<timer, result, stage>>

\* session.prompt resolves and the loop sends the fallback text ...
PromptAgain ==
    /\ prompting /\ AsksAgain
    /\ requests' = requests + 1 /\ prompts' = prompts + 1
    /\ UNCHANGED <<stage, timer, abort, prompting, heard, lateEvents, result>>

\* ... or returns.
LoopReturns ==
    /\ prompting /\ ~AsksAgain
    /\ prompting' = FALSE
    /\ EndRace(Reading)
    /\ UNCHANGED <<abort, heard, requests, prompts, lateEvents>>

PromptRejects ==
    /\ prompting
    /\ prompting' = FALSE
    /\ EndRace(Error)
    /\ UNCHANGED <<abort, heard, requests, prompts, lateEvents>>

TimerFires ==
    /\ timer = "armed"
    /\ timer' = "fired" /\ abort' = "pending"
    /\ UNCHANGED <<stage, prompting, heard, requests, prompts, lateEvents, result>>

\* Mutated form: the handler leaves it to the loop to end the race.
AbortSettlesAlone ==
    /\ abort = "pending"
    /\ abort' = "settled"
    /\ UNCHANGED <<stage, timer, prompting, heard, requests, prompts, lateEvents, result>>

AbortSettles ==
    /\ abort = "pending"
    /\ abort' = "settled"
    /\ EndRace(Reading)
    /\ UNCHANGED <<prompting, heard, requests, prompts, lateEvents>>

\* The handlers of session_shutdown are through, and the session disposed of;
\* if one of them rejects, that is what the caller gets.
ShutDown ==
    /\ stage = "shutdown"
    /\ stage' = "over"
    /\ result' \in {result, Error}
    /\ UNCHANGED <<timer, abort, prompting, heard, requests, prompts, lateEvents>>

\* Every step but the hearing of an event.
SessionStep ==
    \/ SetupFails \/ Begin \/ PromptAgain \/ LoopReturns \/ PromptRejects
    \/ TimerFires \/ AbortSettles \/ ShutDown

-----------------------------------------------------------------------------
\* The session's part of the type invariant.
SessionTypeOK ==
    /\ stage \in {"setup", "race", "shutdown", "over"}
    /\ timer \in {"none", "armed", "fired", "cleared"}
    /\ abort \in {"none", "pending", "settled"}
    /\ prompting \in BOOLEAN /\ lateEvents \in BOOLEAN
    /\ heard \in [tool : BOOLEAN, text : BOOLEAN]
    /\ requests \in 0..MaxFallbacks /\ prompts \in 0..(MaxFallbacks + 1)
    /\ result \in [kind : {"none", "session", "error"}, timedOut : BOOLEAN,
                   requests : 0..MaxFallbacks]

\* What a session reports is final: the count of clarification requests is the
\* number of fallback texts that were ever sent, also when the loop outlives the
\* timeout; and one that is not reported as timed out was over when its tokens and
\* cost were read, with no prompt pending and no event to come.
ReportIsFinal ==
    result.kind = "session" =>
        /\ prompts = result.requests + 1
        /\ ~result.timedOut => ~prompting /\ ~lateEvents

\* Only a session that is reported as timed out, or fails, was aborted; the
\* timer does not abort one that has been read or disposed of.
AbortedIsTold == abort # "none" /\ stage = "over" => result.timedOut \/ result.kind = "error"

\* A session that was begun comes to its end, even if its agent never answers.
SessionEnds == (stage = "race") ~> (stage = "over")
=============================================================================
