------------------------------ MODULE OtpCodes -------------------------------
(***************************************************************************)
(* The list of codes of an app that may be prompt.  A prompt app has the   *)
(* speed of practice: the repository is polled in every second; an answer  *)
(* is decrypted and its codes computed before the next poll (docs/01,      *)
(* NFR-2: a code takes less than 50 ms), and a refresh takes less than a   *)
(* second as well.  Each may still straddle the moment at which the clock  *)
(* goes on, and a window may end there.  The timer of the refresh keeps    *)
(* its freedom: it is late, stopped or not started.  An app that is not    *)
(* prompt does what OtpList allows.                                        *)
(***************************************************************************)
EXTENDS OtpList

CONSTANT SlowTime   \* bound: seconds that pass for an app that is not prompt

\* Windows of two seconds or more: 30 unless a form or an otpauth URI says otherwise.
ASSUME LongPeriodAssumption == \A i \in Ids : Period[i] > 1

VARIABLES
    prompt,     \* the app keeps up with the clock
    asked,      \* the repository was polled since the clock went on, by a prompt app
    carried     \* what was under way when the clock went on, and still is

timedVars == <<vars, prompt, asked, carried>>

TimedInit == Init /\ prompt \in BOOLEAN /\ asked = TRUE /\ carried = {}

\* A poll's answer awaited, or the codes of the accounts it brought.
Loading == polled # None \/ \E l \in Loads : loads[l] # None

UnderWay ==
    {x \in {"load"} : Loading} \cup {x \in {"refresh"} : regen # None}

TimedTick ==
    /\ IF prompt THEN asked /\ carried = {} ELSE now < SlowTime
    /\ Tick
    /\ asked' = ~prompt
    /\ carried' = {x \in UnderWay : prompt}
    /\ UNCHANGED prompt

TimedPoll ==
    /\ prompt => ~Loading
    /\ Poll
    /\ asked' = TRUE
    /\ UNCHANGED <<prompt, carried>>

\* A step of the app between two turns of the clock.
Timed(step) ==
    /\ step
    /\ carried' = carried \cap UnderWay'
    /\ UNCHANGED <<prompt, asked>>

TimedNext ==
    \/ TimedTick \/ TimedPoll
    \/ Timed(Change) \/ Timed(SetAutoRefresh) \/ Timed(CheckTokenRotation)
    \/ Timed(Deliver) \/ Timed(Refresh) \/ \E l \in Loads : Timed(Finish(l))

TimedSpec == TimedInit /\ [][TimedNext]_timedVars

\* The poll is a periodic timer, and the event loop runs an async function whose await is over.
\* The rotation timer may come late or be stopped, and nobody has to change an account.  That
\* a prompt app is in time is in the guards of its clock.
TimedFairness ==
    /\ WF_timedVars(TimedPoll) /\ WF_timedVars(Timed(Deliver)) /\ WF_timedVars(Timed(Refresh))
    /\ \A l \in Loads : WF_timedVars(Timed(Finish(l)))

TimedFairSpec == TimedSpec /\ TimedFairness

-----------------------------------------------------------------------------
(***************************************************************************)
(* On the screen of a prompt app no code outlives its window by more than  *)
(* two seconds, although a load or a refresh may finish in a later window  *)
(* than it began in, a refresh stores a copy that is older than the list,  *)
(* polls are dropped during a refresh, and the timer may miss the second   *)
(* it looks for or not run at all.                                         *)
(***************************************************************************)
Fresh(item) ==
    \/ item.code = None
    \/ \E t \in {now, now - 1, now - 2} : item.code = t \div Period[item.row.id]

CodesAreFresh == prompt => \A i \in DOMAIN state : Fresh(state[i])
=============================================================================
