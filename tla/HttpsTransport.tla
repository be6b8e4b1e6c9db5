---------------------------- MODULE HttpsTransport ----------------------------
(***************************************************************************)
(* One call of httpsPostJson() (https-transport.ts): attempts with a       *)
(* timeout each, sleeps between them, one deadline over all, an abort      *)
(* signal, and a backend that may act on a request whose answer is lost.   *)
(*                                                                         *)
(* Timers fire at their time or up to Lag later: the event loop is busy.   *)
(***************************************************************************)
EXTENDS Naturals, Sequences, FiniteSetsExt

CONSTANTS Timeout,      \* timeoutMs, of an attempt
          Deadline,     \* totalDeadlineMs, of the call
          MaxAttempts,
          RetryDelays,  \* retryDelaysMs
          Lag           \* bound: how late a timer may fire

\* No caller asks for no attempt at all.
ASSUME TransportAssumption ==
  /\ {Timeout, Deadline, Lag} \subseteq Nat /\ MaxAttempts \in Nat \ {0}
  /\ RetryDelays \in Seq(Nat) /\ RetryDelays # <<>>

VARIABLES now,
          post,        \* the locals of the loop
          timer,       \* when the pending timer is due; it is off at NoTimer
          listening,   \* the abort listener is registered
          aborted,     \* the caller's signal
          socket       \* of each attempt: unused, open, answering or closed

postVars == <<now, post, timer, listening, aborted, socket>>

Attempt == 1 .. MaxAttempts
NoTimer == Deadline + Timeout + Lag + 1

Pending == post.pc # "settled"
Sent == {a \in Attempt : socket[a] # "unused"}

Least(a, b) == Min({a, b})

\* Mutant: an attempt is settled and its timer goes on.
Cleanup_KeepsTimer == timer' = timer /\ listening' = FALSE

\* cleanup(): of an attempt or of a sleep.
Cleanup == timer' = NoTimer /\ listening' = FALSE

SettlesAs(result) == post' = [post EXCEPT !.pc = "settled", !.result = result]

\* Mutant: each attempt has its full timeout.
NextAttempt_FullTimeout ==
  /\ post.pc = "loop"
  /\ \/ aborted /\ SettlesAs("transport") /\ UNCHANGED <<timer, listening, socket>>
     \/ ~ aborted /\ now >= Deadline /\ SettlesAs("transport") /\ UNCHANGED <<timer, listening, socket>>
     \/ /\ ~ aborted /\ now < Deadline
        /\ post' = [post EXCEPT !.pc = "sending", !.attempt = @ + 1]
        /\ socket' = [socket EXCEPT ![post.attempt + 1] = "open"]
        /\ timer' = now + Timeout
        /\ listening' = TRUE
  /\ UNCHANGED <<now, aborted>>

\* The head of the loop; `now` is the time that has passed.
NextAttempt ==
  /\ post.pc = "loop"
  /\ \/ aborted /\ SettlesAs("transport") /\ UNCHANGED <<timer, listening, socket>>
     \/ ~ aborted /\ now >= Deadline /\ SettlesAs("transport") /\ UNCHANGED <<timer, listening, socket>>
     \/ /\ ~ aborted /\ now < Deadline
        /\ post' = [post EXCEPT !.pc = "sending", !.attempt = @ + 1]
        /\ socket' = [socket EXCEPT ![post.attempt + 1] = "open"]
        /\ timer' = now + Least(Timeout, Deadline - now)
        /\ listening' = TRUE
  /\ UNCHANGED <<now, aborted>>

Current == post.attempt
Socket(state) == socket' = [socket EXCEPT ![Current] = state]

Delay == RetryDelays[Least(Current, Len(RetryDelays))]

\* Mutant: the sleep does not look at the signal.
RetryAfterFailure_Deaf ==
  IF Current = MaxAttempts \/ now >= Deadline
  THEN SettlesAs("transport") /\ Cleanup
  ELSE /\ post' = [post EXCEPT !.pc = "sleeping"]
       /\ timer' = now + Least(Delay, Deadline - now) /\ listening' = FALSE

\* The catch of the loop: the last attempt and a spent budget end it, else it
\* sleeps; a sleep rejects at once when the signal is aborted.
RetryAfterFailure ==
  IF Current = MaxAttempts \/ now >= Deadline \/ aborted
  THEN SettlesAs("transport") /\ Cleanup
  ELSE /\ post' = [post EXCEPT !.pc = "sleeping"]
       /\ timer' = now + Least(Delay, Deadline - now) /\ listening' = TRUE

\* The response begins, and the backend has acted on the request.
ResponseBegins ==
  /\ post.pc = "sending" /\ socket[Current] = "open"
  /\ Socket("answering")
  /\ UNCHANGED <<now, post, timer, listening, aborted>>

\* "end": 2xx with JSON or nothing, another status, or not JSON.
ResponseEnds ==
  /\ post.pc = "sending" /\ socket[Current] = "answering"
  /\ Socket("closed")
  /\ \E result \in {"answer", "status", "parse"} : SettlesAs(result)
  /\ Cleanup
  /\ UNCHANGED <<now, aborted>>

\* "error" of the request or of the response.
ConnectionFails ==
  /\ post.pc = "sending"
  /\ Socket("closed")
  /\ RetryAfterFailure
  /\ UNCHANGED <<now, aborted>>

\* Mutant: the request of an attempt that timed out is not destroyed.
AttemptTimesOut_LeavesSocket ==
  /\ post.pc = "sending" /\ now >= timer
  /\ UNCHANGED socket
  /\ RetryAfterFailure
  /\ UNCHANGED <<now, aborted>>

\* The timer, or the socket's own timeout that is as long.
AttemptTimesOut ==
  /\ post.pc = "sending" /\ now >= timer
  /\ Socket("closed")
  /\ RetryAfterFailure
  /\ UNCHANGED <<now, aborted>>

SleepEnds ==
  /\ post.pc = "sleeping" /\ now >= timer
  /\ Cleanup
  /\ post' = [post EXCEPT !.pc = "loop"]
  /\ UNCHANGED <<now, aborted, socket>>

\* The listener of whatever is under way: an attempt's rejection goes through
\* the catch, where the sleep rejects too.
Abort ==
  /\ Pending /\ ~ aborted
  /\ aborted' = TRUE
  /\ \/ /\ post.pc = "sending" /\ listening
        /\ Socket("closed")
        /\ SettlesAs("transport")
        /\ Cleanup
     \/ /\ post.pc = "sleeping" /\ listening
        /\ SettlesAs("transport")
        /\ Cleanup
        /\ UNCHANGED socket
     \/ /\ ~ listening
        /\ UNCHANGED <<post, timer, listening, socket>>
  /\ UNCHANGED now

TimePasses ==
  /\ Pending /\ post.pc # "loop"
  /\ now < timer + Lag
  /\ now' = now + 1
  /\ UNCHANGED <<post, timer, listening, aborted, socket>>

PostInit ==
  /\ now = 0
  /\ post = [pc |-> "loop", attempt |-> 0, result |-> "none"]
  /\ timer = NoTimer /\ listening = FALSE
  /\ aborted \in BOOLEAN
  /\ socket = [a \in Attempt |-> "unused"]

\* The caller goes on with the result.
Settled == ~ Pending /\ UNCHANGED postVars

PostNext ==
  \/ NextAttempt \/ ResponseBegins \/ ResponseEnds \/ ConnectionFails
  \/ AttemptTimesOut \/ SleepEnds \/ Abort \/ TimePasses \/ Settled

PostSpec == PostInit /\ [][PostNext]_postVars

-----------------------------------------------------------------------------
\* Properties

\* However often it retries and however late the timers are, the call is over
\* when the deadline and one lag have passed: lags do not add up.
SettledInTime == Pending => now <= Deadline + Lag

\* Only the attempt under way has an open socket; when the call is over none
\* has, and no timer or listener is left on the caller's signal.
NothingLeftBehind ==
  /\ \A a \in Sent : socket[a] # "closed" => post.pc = "sending" /\ a = Current
  /\ ~ Pending => timer = NoTimer /\ ~ listening
  /\ post.pc = "loop" => timer = NoTimer /\ ~ listening

\* In time and with nothing left behind.
SettlesCleanly == SettledInTime /\ NothingLeftBehind

\* Once the signal is aborted no further attempt reaches the backend, and the
\* call is over without waiting for a timer.
AbortStops ==
  [][aborted => socket' = socket /\ (post.pc = "loop" \/ UNCHANGED post)]_postVars
=============================================================================
