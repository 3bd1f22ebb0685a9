-------------------------------- MODULE MCMixer --------------------------------
(* Four parts of the mixer that share no state, checked side by side: the way of
   a picture to an output, the life of the mixer itself, the playback of a file,
   and the clock of the frames.  A behaviour is of one part; the others stand
   still.                                                                       *)
EXTENDS OutputLane, MixerLifecycle, VideoPump, PlayoutClock

VARIABLE part

SomeRate == CHOOSE r \in Rates : TRUE

vars == <<laneVars, cycleVars, pumpVars, paceVars, part>>

Init ==
    /\ part \in {"output", "lifecycle", "video", "clock"}
    /\ LaneInit /\ CycleInit /\ PumpInit /\ PaceInit
    /\ part # "video" => held = 0
    /\ part # "clock" => user = "render" /\ pace = SomeRate

\* The bounds of one part are not all exhausted together: a second ring comes
\* without a fault, and a spoiled sample with fewer calls of the host.
OutputBudget == ring'.number + faults' <= 2
VideoBudget == calls' + spoiled' <= 3

Next ==
    \/ part = "output" /\ LaneNext /\ OutputBudget /\ UNCHANGED <<cycleVars, pumpVars, paceVars, part>>
    \/ part = "lifecycle" /\ CycleNext /\ UNCHANGED <<laneVars, pumpVars, paceVars, part>>
    \/ part = "video" /\ PumpNext /\ VideoBudget /\ UNCHANGED <<laneVars, cycleVars, paceVars, part>>
    \/ part = "clock" /\ PaceNext /\ UNCHANGED <<laneVars, cycleVars, pumpVars, part>>

\* The fairness of each part, in the behaviours of that part. A step of the
\* output's worker or of a caller is not enabled before something has begun, and
\* so asks nothing of the other behaviours.
Fairness ==
    /\ LaneFairness
    /\ CycleFairness
    /\ WF_pumpVars(part = "video" /\ Turn)
    /\ SF_pumpVars(part = "video" /\ Tick)
    /\ WF_pumpVars(SeekPosition)

Spec == Init /\ [][Next]_vars /\ Fairness

\* The liveness of the pump, of the behaviours that have one at work.
PlaybackSettles == part = "video" => PausedPumpRests /\ NeverLeftBlank
=============================================================================
