------------------------------- MODULE ImageBuild -------------------------------
(***************************************************************************)
(* images.build() (packages/disk/src/images.ts): request an image, then    *)
(* poll until it is ready.  An interrupted build is requested again, a few *)
(* times; a build that goes on is requested again from time to time, which *)
(* restarts it when the host it ran on is gone.  One call; others may join *)
(* the same build.  Time passes in ticks, one for each poll.               *)
(***************************************************************************)
EXTENDS Naturals

CONSTANTS
  BuildTimeout,          \* timeoutSeconds, in ticks
  RequestAgain,          \* REQUEST_AGAIN_MS, in ticks
  MaxInterruptedRetries

ASSUME BuildAssumption ==
  BuildTimeout \in Nat /\ RequestAgain \in Nat \ {0} /\ MaxInterruptedRetries \in Nat

VARIABLES
  image,       \* the status of the image at the control plane
  goneSince,   \* the tick since which the build's host has been gone, or never
  phase,       \* where the call is
  seen,        \* image.status, and failureReason, as the call last saw them
  retries,
  clock,       \* ticks since the call began
  lastRequest

buildVars == <<image, goneSince, phase, seen, retries, clock, lastRequest>>

Never == BuildTimeout + 1
Failures == {"interrupted", "invalid_source"}
Ends == {"returned", "failed", "timeout"}

BuildTypeOK ==
  /\ image \in {"none", "building", "ready"} \cup Failures
  /\ goneSince \in 0..Never
  /\ phase \in {"idle", "look", "request", "asleep"} \cup Ends
  /\ seen \in {"none", "building", "ready"} \cup Failures
  /\ retries \in 0..MaxInterruptedRetries
  /\ clock \in 0..BuildTimeout /\ lastRequest \in 0..clock

BuildInit ==
  /\ image = "none" /\ goneSince = Never /\ phase = "idle" /\ seen = "none"
  /\ retries = 0 /\ clock = 0 /\ lastRequest = 0

-----------------------------------------------------------------------------
(* The control plane. *)

\* A request joins a healthy build, and starts one otherwise; an image that
\* was named by its digest is not built twice.
Requested ==
  /\ image' \in IF image = "ready" THEN {"ready", "building"} ELSE {"building"}
  /\ goneSince' = Never

BuildEnds(how) ==
  /\ image = "building" /\ goneSince = Never /\ phase # "idle"
  /\ image' = how /\ UNCHANGED <<goneSince, phase, seen, retries, clock, lastRequest>>

HostGoes ==
  /\ image = "building" /\ goneSince = Never
  /\ goneSince' = clock /\ UNCHANGED <<image, phase, seen, retries, clock, lastRequest>>

OthersRequest ==
  /\ phase # "idle" /\ image # "none"
  /\ Requested /\ UNCHANGED <<phase, seen, retries, clock, lastRequest>>

-----------------------------------------------------------------------------
(* The call. *)

Start ==
  /\ phase = "idle" /\ phase' = "request"
  /\ UNCHANGED <<image, goneSince, seen, retries, clock, lastRequest>>

\* _request: its answer is looked at.
RequestImage ==
  /\ phase = "request" /\ phase' = "look"
  /\ Requested /\ seen' = image'
  /\ lastRequest' = clock /\ UNCHANGED <<retries, clock>>

\* A request or a poll is repeated by retryApiRequest and may fail for good.
RequestFails ==
  /\ phase \in {"request", "asleep"} /\ phase' = "failed"
  /\ UNCHANGED <<image, goneSince, seen, retries, clock, lastRequest>>

Retries == retries < MaxInterruptedRetries /\ retries' = retries + 1

Look ==
  /\ phase = "look"
  /\ \/ seen = "ready" /\ phase' = "returned" /\ UNCHANGED retries
     \/ seen = "interrupted" /\ Retries /\ phase' = "request"
     \/ /\ seen \in Failures /\ (seen = "interrupted" => retries = MaxInterruptedRetries)
        /\ phase' = "failed" /\ UNCHANGED retries
     \/ seen = "building" /\ clock >= BuildTimeout /\ phase' = "timeout" /\ UNCHANGED retries
     \/ seen = "building" /\ clock < BuildTimeout /\ phase' = "asleep" /\ UNCHANGED retries
  /\ UNCHANGED <<image, goneSince, seen, clock, lastRequest>>

Stale_NotAtTheDeadline == clock' - lastRequest >= RequestAgain /\ clock' < BuildTimeout
Stale == clock' - lastRequest >= RequestAgain

\* The poll, and the request again.
Poll ==
  /\ phase = "asleep" /\ clock' = clock + 1 /\ seen' = image
  /\ phase' = IF image = "building" /\ Stale THEN "request" ELSE "look"
  /\ UNCHANGED <<image, goneSince, retries, lastRequest>>

BuildNext ==
  \/ Start \/ RequestImage \/ RequestFails \/ Look \/ Poll
  \/ HostGoes \/ OthersRequest
  \/ \E how \in {"ready"} \cup Failures : BuildEnds(how)

BuildSpec == BuildInit /\ [][BuildNext]_buildVars

\* Requests are answered, and timers fire.
BuildFairness == WF_buildVars(RequestImage) /\ WF_buildVars(Look) /\ WF_buildVars(Poll)

\* The call ends, whatever becomes of the build and however often it is
\* interrupted.
EveryBuildEnds == phase = "request" ~> phase \in Ends

\* A build whose host is gone is not waited for in vain: when the call gives
\* up, the host had been gone for less than the interval of its requests.
GoneBuildsAreRestarted ==
  phase = "timeout" /\ image = "building" => goneSince = Never \/ clock - goneSince < RequestAgain

=============================================================================
