----------------------------- MODULE VideoTrigger -----------------------------
(***************************************************************************)
(* The triggers of a video clip (eiviz-control/src/video_trigger.rs) on a  *)
(* mixing unit: a clip plays, starts again or pauses when a picture with   *)
(* it goes to Program, leaves it or goes to Preview.                       *)
(*                                                                         *)
(* The service looks (tick_video) after each live command and at the end   *)
(* of a publish, and compares with what it saw the last time.  It reads    *)
(* the unit in a section of the mixer's lock of its own, so the render     *)
(* thread may come between the command and the look, and it never looks    *)
(* for what the render thread does alone.                                  *)
(*                                                                         *)
(* One clip stands for all, as none depends on another.  Its frames and    *)
(* its position are VideoPump's; starting again is playing here.           *)
(***************************************************************************)
EXTENDS MixingUnit

CONSTANTS
    Places,     \* the sets of scenes a document may show the clip in
    Triggers    \* the triggers a document may give it: [play, restart, pause]

ASSUME TriggerAssumption ==
    /\ \A place \in Places : place \subseteq Sources \cup Pictures
    /\ \A rule \in Triggers :
          /\ rule.play \in {"Never", "OnActive", "OnPreview", "Always"}
          /\ {rule.restart, rule.pause} \subseteq {"Never", "OnActive", "OnDeactivated", "OnPreview"}

VARIABLES
    clip,      \* of the document: where the clip is shown, and its triggers
    playing,   \* the transport in the mixer
    roles,     \* video_roles: what the last look saw of the clip
    looking,   \* a command is carried out and its look is still to come
    unseen,    \* the unit shows other pictures than at the last look
    astray     \* the transport was set by hand or anew, and no trigger has fired since

videoVars == <<clip, playing, roles, looking, unseen, astray>>

NoRoles == [program |-> FALSE, preview |-> FALSE]

\* input_ops: a clip that waits for no trigger plays from the start.
StartsPlaying(rule) == rule.play \in {"Never", "Always"}

VideoInit ==
    /\ Init
    /\ clip \in [in : Places, when : Triggers]
    /\ playing = StartsPlaying(clip.when)
    /\ roles = NoRoles
    /\ looking = TRUE
    /\ unseen = FALSE
    /\ astray = FALSE

-----------------------------------------------------------------------------
(* What the service looks at                                                *)

\* The pictures of the overlays in the list.
OnTop == {p \in Pictures : air[p] > 0}

\* all_live_state reports no incoming picture but Preview: incoming_source is 0
\* in the state of a unit at all times.
ReportedOnProgram ==
    {bus.program} \cup (IF bus.mix > 0 THEN {bus.preview} ELSE {}) \cup OnTop

\* collect_roles and mark
CollectRoles ==
    [program |-> clip.in \cap ReportedOnProgram # {}, preview |-> bus.preview \in clip.in]

\* matches_trigger
Fires(when, now) ==
    \/ when = "OnActive" /\ now.program /\ ~roles.program
    \/ when = "OnDeactivated" /\ ~now.program /\ roles.program
    \/ when = "OnPreview" /\ now.preview /\ ~roles.preview

\* should_play
ShouldPlay(when, now) ==
    \/ when # "Always" /\ Fires(when, now)
    \/ when = "Always" /\ now # NoRoles /\ roles = NoRoles /\ (now.program \/ now.preview)

\* Mutant: a clip that no trigger fired for is not remembered.
MutantTickVideo ==
    LET now == CollectRoles
        plays == Fires(clip.when.restart, now) \/ ShouldPlay(clip.when.play, now)
        pauses == Fires(clip.when.pause, now)
    IN  /\ looking
        /\ looking' = FALSE
        /\ roles' = IF plays THEN now ELSE roles
        /\ playing' = (plays \/ (playing /\ ~pauses))
        /\ astray' = (astray /\ ~plays /\ ~pauses)
        /\ unseen' = FALSE
        /\ UNCHANGED <<clip, vars>>

\* tick_video: playing wins over a pause for the same edge.
TickVideo ==
    LET now == CollectRoles
        plays == Fires(clip.when.restart, now) \/ ShouldPlay(clip.when.play, now)
        pauses == Fires(clip.when.pause, now)
    IN  /\ looking
        /\ looking' = FALSE
        /\ roles' = now
        /\ playing' = (plays \/ (playing /\ ~pauses))
        /\ astray' = (astray /\ ~plays /\ ~pauses)
        /\ unseen' = FALSE
        /\ UNCHANGED <<clip, vars>>

-----------------------------------------------------------------------------
(* What is done to the unit and to the clip                                 *)

\* A command for the unit, or one that changes nothing here (after_live).
Commanded ==
    /\ ~looking
    /\ Commands \/ (publishing = NotPublishing /\ UNCHANGED vars)
    /\ looking' = TRUE
    /\ UNCHANGED <<clip, playing, roles, unseen, astray>>

\* A command that fails is not looked for; it has changed nothing on the screen.
Refused ==
    /\ ~looking
    /\ Refusals
    /\ UNCHANGED videoVars

\* VideoPlay of the operator
PlayByHand(on) ==
    /\ ~looking /\ publishing = NotPublishing
    /\ playing' = on
    /\ looking' = TRUE
    /\ astray' = TRUE
    /\ UNCHANGED <<vars, clip, roles, unseen>>

\* The render thread, at any time.
Rendered ==
    /\ Render
    /\ UNCHANGED <<clip, playing, roles, looking, astray>>
    /\ unseen' = (unseen \/ CollectRoles' # CollectRoles)

\* A publish may move the clip to other pictures; it starts the clip anew if
\* input_desired_equal finds its file or its buffers changed.
PublishClip(new, list, moved, anew) ==
    /\ ~looking
    /\ Publish(new, list, moved)
    /\ \E place \in Places : clip' = [clip EXCEPT !.in = place]
    /\ playing' = IF anew THEN StartsPlaying(clip.when) ELSE playing
    /\ astray' = (astray \/ anew)
    /\ UNCHANGED <<roles, looking, unseen>>

\* The end of a publish looks as well, but not of one that fails.
RepairClip ==
    /\ Repairs
    /\ LET over == publishing' = NotPublishing
           failed == publishing.at = "repair" /\ bus.mix \notin 0..Full
       IN  /\ looking' = (over /\ ~failed)
           /\ unseen' = (unseen \/ failed)
    /\ UNCHANGED <<clip, playing, roles, astray>>

VideoNext ==
    \/ TickVideo
    \/ Commanded
    \/ Refused
    \/ \E on \in BOOLEAN : PlayByHand(on)
    \/ Rendered
    \/ \E new \in [Overlays -> Slots], list \in SUBSET Overlays, moved \in BOOLEAN,
          anew \in BOOLEAN : PublishClip(new, list, moved, anew)
    \/ RepairClip

\* The render thread runs, and a command or a publish comes to its end.
VideoFairness ==
    /\ WF_<<vars, videoVars>>(TickVideo)
    /\ WF_<<vars, videoVars>>(RepairClip)
    /\ WF_<<vars, videoVars>>(Tick /\ Rendered)

VideoSpec == VideoInit /\ [][VideoNext]_<<vars, videoVars>> /\ VideoFairness

-----------------------------------------------------------------------------

\* The pictures that a viewer of Program sees.
OnScreen == {bus.program} \cup (IF bus.mix > 0 THEN {LiveIncoming} ELSE {}) \cup OnTop

Shown == clip.in \cap OnScreen # {}

\* The mix brings in another picture than Preview.
HeldAside == bus.mix > 0 /\ LiveIncoming # bus.preview

FollowsProgram ==
    /\ clip.when.play = "OnActive" /\ clip.when.pause = "OnDeactivated"
    /\ clip.when.restart \in {"Never", "OnActive"}

\* A clip that plays on Program and pauses off it plays if and only if Program
\* shows it, whatever commands, publishes and edits have moved it there or away
\* (video_trigger.rs).  The exceptions are what the service does not look for or
\* does not undo: pictures that the render thread or a failed publish has
\* changed, a picture that is held aside, a transport that was set by hand or
\* started anew.
PlaysWhereShown ==
    FollowsProgram /\ ~looking /\ publishing = NotPublishing /\ ~unseen /\ ~astray /\ ~HeldAside
        => (playing <=> Shown)

\* "Play when: Active (Program)" (Dialogs.swift): a clip with this trigger that a
\* transition brings to Program comes to play, if nobody sets it by hand.
ActivePlays ==
    clip.when.play = "OnActive" /\ Shown ~> playing \/ ~Shown \/ astray
=============================================================================
