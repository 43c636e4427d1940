------------------------------- MODULE Server -------------------------------
(***************************************************************************)
(* cmd/main.go: boot, the goroutines it starts, the requests it serves     *)
(* (module Admission), the reload of .env while it serves, and the         *)
(* shutdown on a signal.                                                   *)
(*                                                                         *)
(* Of .env only TOKEN is kept; <<>> is a file without it.  The token file  *)
(* is what LoadBucketTokens makes of it.                                   *)
(***************************************************************************)
EXTENDS Admission

CONSTANTS
  BootTokens,   \* what TOKEN may be in the environment the process is given
  EnvTokens,    \* what TOKEN may be in .env
  Sound,        \* the ones ValidateGeneralToken accepts
  TokenFiles,   \* the token files: loaded entries, or "invalid"
  BootAnswers,  \* for which limiters Redis may answer at boot
  MaxEdits      \* bound on how often .env is rewritten

ASSUME ServerAssumption ==
  /\ <<>> \notin Sound
  /\ BootAnswers \subseteq [Limiters -> BOOLEAN]
  /\ MaxEdits \in Nat

VARIABLES
  main,       \* where main is
  envFile,    \* TOKEN in .env
  dirty,      \* an event the watcher has not taken
  edits,      \* how often .env was rewritten
  watcher,    \* where watchEnvChanges is
  ctxDone,    \* the context of the background tasks is cancelled
  listening   \* the listener accepts connections

processVars == <<main, envFile, dirty, edits, watcher, ctxDone, listening>>

vars == <<admissionVars, processVars>>

Alive == main \notin {"fatal", "exited"}

Init ==
  /\ token \in BootTokens
  /\ scoped = <<>>
  /\ now = 0
  /\ store = <<>>
  /\ switch = [l \in Limiters |-> FALSE]
  /\ mutex = [l \in Limiters |-> NoRequest]
  /\ req = [r \in Requests |-> Idle]
  /\ faults = 0
  /\ passes = {}
  /\ main = "load_env"
  /\ envFile \in EnvTokens
  /\ dirty = FALSE
  /\ edits = 0
  /\ watcher = "none"
  /\ ctxDone = FALSE
  /\ listening = FALSE

-----------------------------------------------------------------------------
(* Boot.                                                                   *)

\* godotenv.Load leaves what the environment already sets.
LoadEnv ==
  /\ main = "load_env"
  /\ token' = IF token = <<>> THEN envFile ELSE token
  /\ main' = "check_token"
  /\ UNCHANGED <<scoped, now, store, switch, mutex, req, faults, passes, envFile, dirty, edits,
                 watcher, ctxDone, listening>>

ValidateGeneralToken ==
  /\ main = "check_token"
  /\ main' = IF token \in Sound THEN "load_tokens" ELSE "fatal"
  /\ UNCHANGED <<admissionVars, envFile, dirty, edits, watcher, ctxDone, listening>>

\* A missing or empty file holds no entries; one that cannot be read, parsed
\* or validated stops the boot.
LoadBucketTokens(file) ==
  /\ main = "load_tokens"
  /\ main' = IF file.invalid THEN "fatal" ELSE "spawn"
  /\ scoped' = IF file.invalid THEN <<>> ELSE file.entries
  /\ UNCHANGED <<token, now, store, switch, mutex, req, faults, passes, envFile, dirty, edits,
                 watcher, ctxDone, listening>>

\* The tracer may fail; then the watcher is started.  The retention job, whose
\* loop leaves on the context too, and the destination check, which only logs,
\* share no state with the rest and are left out.
Spawn(tracer) ==
  /\ main = "spawn"
  /\ main' = IF tracer THEN "limiters" ELSE "fatal"
  /\ watcher' = IF tracer THEN "starting" ELSE watcher
  /\ UNCHANGED <<admissionVars, envFile, dirty, edits, ctxDone, listening>>

\* NewAdvancedRateLimiter, once per limiter: when Redis answers none of its
\* attempts the limiter is off for the life of the process.
StartLimiters(answers) ==
  /\ main = "limiters"
  /\ switch' = answers
  /\ main' = "serving"
  /\ UNCHANGED <<token, scoped, now, store, mutex, req, faults, passes, envFile, dirty, edits,
                 watcher, ctxDone, listening>>

\* app.Listen on its own goroutine; a port it cannot bind ends the process.
Listen(ok) ==
  /\ main = "serving" /\ ~listening
  /\ listening' = ok
  /\ main' = IF ok THEN main ELSE "fatal"
  /\ UNCHANGED <<admissionVars, envFile, dirty, edits, watcher, ctxDone>>

-----------------------------------------------------------------------------
(* The background goroutines.                                              *)

\* NewWatcher and Add("/app"); either failing is log.Fatalf.
WatchStart(ok) ==
  /\ Alive /\ watcher = "starting"
  /\ watcher' = "watching"
  /\ main' = IF ok THEN main ELSE "fatal"
  /\ UNCHANGED <<admissionVars, envFile, dirty, edits, ctxDone, listening>>

\* Someone rewrites .env.
EditEnv(t) ==
  /\ Alive /\ edits < MaxEdits
  /\ envFile' = t
  /\ dirty' = (watcher \in {"watching", "reloading"})
  /\ edits' = edits + 1
  /\ UNCHANGED <<admissionVars, main, watcher, ctxDone, listening>>

WatchEvent ==
  /\ Alive /\ watcher = "watching" /\ dirty
  /\ watcher' = "reloading"
  /\ dirty' = FALSE
  /\ UNCHANGED <<admissionVars, main, envFile, edits, ctxDone, listening>>

\* Mutation: a file that cannot be read ends the watcher.
Reload_returning(ok) ==
  /\ Alive /\ watcher = "reloading"
  /\ token' = IF ok /\ envFile # <<>> THEN envFile ELSE token
  /\ watcher' = IF ok THEN "watching" ELSE "none"
  /\ UNCHANGED <<scoped, now, store, switch, mutex, req, faults, passes, main, envFile, dirty, edits,
                 ctxDone, listening>>

\* ReadEnvAndSet overrides the environment with what the file holds, unchecked;
\* what it does not hold, or a file that cannot be read, changes nothing.
Reload(ok) ==
  /\ Alive /\ watcher = "reloading"
  /\ token' = IF ok /\ envFile # <<>> THEN envFile ELSE token
  /\ watcher' = "watching"
  /\ UNCHANGED <<scoped, now, store, switch, mutex, req, faults, passes, main, envFile, dirty, edits,
                 ctxDone, listening>>

\* watchEnvChanges returns on the cancelled context.
WatchLeave ==
  /\ Alive /\ watcher = "watching" /\ ctxDone
  /\ watcher' = "left"
  /\ UNCHANGED <<admissionVars, main, envFile, dirty, edits, ctxDone, listening>>

-----------------------------------------------------------------------------
(* Shutdown.                                                               *)

\* SIGINT or SIGTERM, and the cancellation of the background tasks.
Signal ==
  /\ main = "serving"
  /\ main' = "stop_watcher"
  /\ ctxDone' = TRUE
  /\ UNCHANGED <<admissionVars, envFile, dirty, edits, watcher, listening>>

\* envWatcher <- true on an unbuffered channel: the watcher has to be in its
\* select to take it.
StopWatcher ==
  /\ main = "stop_watcher" /\ watcher = "watching"
  /\ watcher' = "stopped"
  /\ main' = "shutdown"
  /\ UNCHANGED <<admissionVars, envFile, dirty, edits, ctxDone, listening>>

\* ShutdownWithContext closes the listener,
CloseListener ==
  /\ main = "shutdown"
  /\ listening' = FALSE
  /\ main' = "draining"
  /\ UNCHANGED <<admissionVars, envFile, dirty, edits, watcher, ctxDone>>

\* and returns when no request is in flight or after ten seconds, whichever is
\* first: at any time.  The cache is closed and main returns, and whatever
\* still runs ends with it.
Drain ==
  /\ main = "draining"
  /\ main' = "exited"
  /\ UNCHANGED <<admissionVars, envFile, dirty, edits, watcher, ctxDone, listening>>

-----------------------------------------------------------------------------
Boot ==
  \/ LoadEnv
  \/ ValidateGeneralToken
  \/ \E file \in TokenFiles : LoadBucketTokens(file)
  \/ \E tracer \in BOOLEAN : Spawn(tracer)
  \/ \E answers \in BootAnswers : StartLimiters(answers)
  \/ \E ok \in BOOLEAN : Listen(ok)

Watch == WatchEvent \/ WatchLeave \/ \E ok \in BOOLEAN : WatchStart(ok) \/ Reload(ok)

Shutdown == StopWatcher \/ CloseListener \/ Drain

Accept(r) == listening /\ Alive /\ (\E s \in Shapes[r] : Arrive(r, s)) /\ UNCHANGED processVars
Serve(r) == Alive /\ Step(r) /\ UNCHANGED processVars
Clock == Alive /\ Tick /\ UNCHANGED processVars

Next ==
  \/ Boot \/ Watch \/ Signal \/ Shutdown \/ Clock
  \/ \E t \in EnvTokens : EditEnv(t)
  \/ \E r \in Requests : Accept(r) \/ Serve(r)

Spec == Init /\ [][Next]_vars

\* Goroutines run.  Nobody has to call, edit .env or send a signal.
FairSpec ==
  /\ Spec
  /\ WF_vars(Boot) /\ WF_vars(Watch) /\ WF_vars(Shutdown)
  /\ \A r \in Requests : WF_vars(Serve(r))

-----------------------------------------------------------------------------
(* What the server promises.                                               *)

TypeOK ==
  /\ token \in BootTokens \cup EnvTokens /\ envFile \in EnvTokens
  /\ now \in 0 .. MaxTime
  /\ \A k \in DOMAIN store : store[k].hits > 0 /\ store[k].exp \in Window .. MaxTime + Window
  /\ switch \in [Limiters -> BOOLEAN]
  /\ mutex \in [Limiters -> Requests \cup {NoRequest}]
  /\ main \in {"load_env", "check_token", "load_tokens", "spawn", "limiters", "serving",
               "stop_watcher", "shutdown", "draining", "exited", "fatal"}
  /\ watcher \in {"none", "starting", "watching", "reloading", "left", "stopped"}
  /\ {dirty, ctxDone, listening} \subseteq BOOLEAN
  /\ edits \in 0 .. MaxEdits

\* A request is answered, or the process ends first: no limiter's mutex is
\* kept, whatever Redis answers and whoever else waits for it.
RequestsEnd == \A r \in Requests : (r \in InFlight) ~> (r \notin InFlight \/ ~Alive)

\* After a signal the process ends, unless the watcher saw the cancelled
\* context before main could hand it its stop message.
ShutdownEnds ==
  ctxDone ~> (~Alive \/ (main = "stop_watcher" /\ watcher = "left"))

\* After a signal the process ends: "Graceful shutdown" within ten seconds.
ShutdownReturns == ctxDone ~> ~Alive

=============================================================================
