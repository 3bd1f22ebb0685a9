-------------------------- MODULE SessionReconcile -------------------------
(***************************************************************************)
(* How a published session reaches the mixer: the plan of port operations  *)
(* that turns the previous document into the next one, their execution and *)
(* the rollback (eiviz-control/src/session/reconcile.rs and                *)
(* replace_session in service.rs).                                         *)
(*                                                                         *)
(* Of a document the model keeps the inputs, the outputs, the RTMP         *)
(* destinations (outputs whose transport is Rtmp) and the stream encoders. *)
(* The other operations of a plan (settings, units, audio, scenes, the web *)
(* API) leave these alone; they matter because any of them can fail, which *)
(* ends the publish at their place in the plan.                            *)
(*                                                                         *)
(* A publish runs in one section of the service's mutex and is one step.   *)
(***************************************************************************)
EXTENDS Naturals, Sequences, SequencesExt, FiniteSets

CONSTANTS
    Inputs,      \* input ids, in document order
    Outputs,     \* output ids, in document order
    Encoders,    \* stream encoder ids, in document order
    Documents,   \* the documents that clients publish
    StatusId,    \* the number and the kind by which a status names an id: an encoder
                 \* and an output may have the same, as both go by ResourceKind::Output
    Files,       \* the `desired` parts of the inputs that play a file
    MaxRefused,  \* bound: how many adds the mixer refuses during a publish
    Absent       \* not in the document, or not running in the mixer

\* The ids of one kind, as a set.
Ids(s) == {s[i] : i \in 1..Len(s)}

AllIds == Ids(Inputs \o Outputs \o Encoders)

\* An id is used once, in one of the lists.
ASSUME IdsAreDistinct ==
    LET all == Inputs \o Outputs \o Encoders
    IN  /\ Inputs \in Seq(AllIds) /\ Outputs \in Seq(AllIds) /\ Encoders \in Seq(AllIds)
        /\ \A j, k \in 1..Len(all) : all[j] = all[k] => j = k
        /\ Absent \notin AllIds

\* An input has a status of its own.
ASSUME InputsHaveTheirStatus ==
    \A i \in Ids(Inputs), x \in Ids(Outputs \o Encoders) : StatusId[i] # StatusId[x]

\* An output names an encoder there may be, or none.
ASSUME OutputsAreTyped ==
    \A d \in Documents : \A o \in Ids(Outputs) : d.outputs[o] # Absent =>
        /\ d.outputs[o].rtmp \in BOOLEAN /\ d.outputs[o].enabled \in BOOLEAN
        /\ d.outputs[o].encoder \in Ids(Encoders) \cup {Absent}

VARIABLES
    session,     \* the store's document (NoSession while there is none)
    loaded,      \* the store has a document
    port,        \* what runs in the mixer
    resources,   \* ControlService::resources: the statuses of the last publish
    last,        \* how the last publish went
    gone         \* the files of `Files` that are not on the disk

reconcileVars == <<session, loaded, port, resources, last, gone>>

\* A document without anything: plan() treats None as this one.
NoSession ==
    [inputs   |-> [i \in Ids(Inputs) |-> Absent],
     outputs  |-> [o \in Ids(Outputs) |-> Absent],
     encoders |-> [e \in Ids(Encoders) |-> Absent]]

\* A mixer that runs nothing.  dests: the destinations attached to an encoder.
EmptyPort ==
    [inputs   |-> NoSession.inputs,
     outputs  |-> NoSession.outputs,
     encoders |-> NoSession.encoders,
     dests    |-> [e \in Ids(Encoders) |-> {}]]

\* result: how it ended; clean: the mixer refused nothing; again: it published
\* what the publish before it had published, both of them without a refusal;
\* stray: some publish since the mixer was created was aborted with no document
\* to go back to; turned: the outputs that a plan took from NDI or OMT to RTMP
\* since then; spared: the inputs whose source a plan left alone when it changed
\* them, and no publish has destroyed since.
NoPublish ==
    [result |-> "none", clean |-> TRUE, again |-> FALSE, stray |-> FALSE, turned |-> {}, spared |-> {}]

ReconcileInit ==
    /\ session = NoSession
    /\ loaded = FALSE
    /\ port = EmptyPort
    /\ resources = {}
    /\ last = NoPublish
    /\ gone = {}

-----------------------------------------------------------------------------
(* The operations of a plan.                                                *)

Op(k, i, c, e) == [op |-> k, id |-> i, cfg |-> c, enc |-> e]

DestroySource(i) == Op("DestroySource", i, Absent, Absent)
ConnectInput(i, c) == Op("ConnectInput", i, c, Absent)
FailInput(i) == Op("FailInput", i, Absent, Absent)
RemoveOutput(o) == Op("RemoveOutput", o, Absent, Absent)
AddOutput(o, dto) == Op("AddOutput", o, dto, Absent)
RemoveEncoder(e) == Op("RemoveEncoder", e, Absent, Absent)
AddEncoder(e, c) == Op("AddEncoder", e, c, Absent)
RemoveDest(e, o) == Op("RemoveDest", o, Absent, e)
AddDest(o, dto) == Op("AddDest", o, dto, dto.encoder)

Adds == {"ConnectInput", "AddOutput", "AddEncoder", "AddDest"}

\* An enabled output that is an RTMP destination, or is not one.
Rtmp(dto) == dto # Absent /\ dto.rtmp
RtmpDestination(dto) == Rtmp(dto) /\ dto.enabled

\* The ids of `order` that opsOf has operations for, each turned into these.
Each(order, opsOf) ==
    LET upTo[i \in 0..Len(order)] ==
            IF i = 0 THEN <<>>
            ELSE IF order[i] \in DOMAIN opsOf THEN upTo[i - 1] \o opsOf[order[i]]
            ELSE upTo[i - 1]
    IN  upTo[Len(order)]

When(condition, ops) == IF condition THEN ops ELSE <<>>

\* input_desired_equal: the fields of an input that a publish looks at.  The rest
\* (audio devices, quality, bandwidth, tone) goes to the mixer with them or not
\* at all.
DesiredEqual(p, n) == p # Absent /\ n # Absent /\ p.desired = n.desired

\* media_file_missing
FileGone(dto) == dto.desired \in gone

\* input_ops
StartInput(i, dto) == IF FileGone(dto) THEN FailInput(i) ELSE ConnectInput(i, dto)

\* The inputs of the next document that are new or changed.
ChangedInputs(prev, next) ==
    {i \in Ids(Inputs) : next.inputs[i] # Absent /\ ~DesiredEqual(prev.inputs[i], next.inputs[i])}

\* Mutant: no source is ever destroyed.
MutantPlanInputsNoDestroy(prev, next) ==
    Each(Inputs, [i \in ChangedInputs(prev, next) |-> <<StartInput(i, next.inputs[i])>>])

PlanInputs(prev, next) ==
    Each(Inputs, [i \in ChangedInputs(prev, next) |->
        When(prev.inputs[i] # Absent /\ ~FileGone(prev.inputs[i]), <<DestroySource(i)>>)
          \o <<StartInput(i, next.inputs[i])>>])
    \o Each(Inputs, [i \in {i \in Ids(Inputs) : prev.inputs[i] # Absent /\ next.inputs[i] = Absent} |->
        <<DestroySource(i)>>])

\* The loop over next.outputs, for one output that is not RTMP.
PlanOutput(p, n, o) ==
    IF n = Absent \/ Rtmp(n) THEN <<>>
    ELSE IF ~n.enabled THEN When(p # Absent, <<RemoveOutput(o)>>)
    ELSE IF p = n THEN <<>>
    ELSE When(p # Absent, <<RemoveOutput(o)>>) \o <<AddOutput(o, n)>>

\* The loop over prev.outputs: the output is kept only if the next document
\* has it and the previous one had it enabled.
PlanGoneOutput(p, n, o) ==
    When(p # Absent /\ ~Rtmp(p) /\ ~(n # Absent /\ p.enabled), <<RemoveOutput(o)>>)

\* The operations on outputs: the loop over the next document, then the one over
\* the previous.
PlanOutputs(prev, next) ==
    Each(Outputs, [o \in Ids(Outputs) |-> PlanOutput(prev.outputs[o], next.outputs[o], o)])
    \o Each(Outputs, [o \in Ids(Outputs) |-> PlanGoneOutput(prev.outputs[o], next.outputs[o], o)])

-----------------------------------------------------------------------------
(* Streams                                                                  *)

\* The enabled destinations of encoder e.
DestsOf(d, e) ==
    {o \in Ids(Outputs) : RtmpDestination(d.outputs[o]) /\ d.outputs[o].encoder = e}

AddDests(next, e) == Each(Outputs, [o \in DestsOf(next, e) |-> <<AddDest(o, next.outputs[o])>>])

RemoveStream(prev, e) ==
    Each(Outputs, [o \in DestsOf(prev, e) |-> <<RemoveDest(e, o)>>]) \o <<RemoveEncoder(e)>>

\* destination_equal: the fields of an RTMP output that matter to its socket.
SameDest(p, n) == p.cfg = n.cfg /\ p.encoder = n.encoder

\* One destination of an encoder that stays as it is.
KeepDest(p, n, e, o) ==
    IF RtmpDestination(p) /\ SameDest(p, n) THEN <<>>
    ELSE When(RtmpDestination(p), <<RemoveDest(e, o)>>) \o <<AddDest(o, n)>>

\* diff_streams for one encoder of the next document.
StreamOps(prev, next, e) ==
    IF DestsOf(next, e) = {} THEN When(prev.encoders[e] # Absent, RemoveStream(prev, e))
    ELSE IF prev.encoders[e] # next.encoders[e]
    THEN When(prev.encoders[e] # Absent, <<RemoveEncoder(e)>>)
           \o <<AddEncoder(e, next.encoders[e])>> \o AddDests(next, e)
    ELSE Each(Outputs, [o \in DestsOf(next, e) |-> KeepDest(prev.outputs[o], next.outputs[o], e, o)])
           \o Each(Outputs, [o \in DestsOf(prev, e) \ DestsOf(next, e) |-> <<RemoveDest(e, o)>>])

EncodersOf(d) == {e \in Ids(Encoders) : d.encoders[e] # Absent}

\* The enabled destinations whose encoder the document does not have.
Unserved(d) ==
    {o \in Ids(Outputs) : RtmpDestination(d.outputs[o]) /\ d.outputs[o].encoder \notin EncodersOf(d)}

\* diff_streams: encoders and their destinations.
PlanStreams(prev, next) ==
    Each(Encoders, [e \in EncodersOf(next) |-> StreamOps(prev, next, e)])
    \o Each(Encoders, [e \in EncodersOf(prev) \ EncodersOf(next) |-> RemoveStream(prev, e)])
    \o Each(Outputs, [o \in Unserved(next) |-> <<AddDest(o, next.outputs[o])>>])

-----------------------------------------------------------------------------
(* Retrying what failed last time                                           *)

Adding(ops, k, i) == \E j \in 1..Len(ops) : ops[j].op = k /\ ops[j].id = i

Status(i, w) == [id |-> StatusId[i], why |-> w]

\* The last publish found the encoder not running.
EncoderDown(statuses, i) == Status(i, "down") \in statuses

\* Adds of destinations that the plan does not have yet.
Readd(next, e, ops) ==
    Each(Outputs, [o \in {o \in DestsOf(next, e) : ~Adding(ops, "AddDest", o)} |->
        <<AddDest(o, next.outputs[o])>>])

Rebuild(next, e) == <<RemoveEncoder(e), AddEncoder(e, next.encoders[e])>> \o AddDests(next, e)

\* Mutant: an encoder that is not running is not rebuilt.
MutantReinforceDestsOnly(statuses, next, ops) ==
    Each(Encoders, [e \in EncodersOf(next) |-> Readd(next, e, ops)])

\* Mutant: every encoder is rebuilt whatever the statuses say.
MutantReinforceAlways(statuses, next, ops) ==
    Each(Encoders, [e \in {e \in EncodersOf(next) : DestsOf(next, e) # {}} |->
        When(~Adding(ops, "AddEncoder", e), Rebuild(next, e))])

ReinforceStreams(statuses, next, ops) ==
    Each(Encoders, [e \in {e \in EncodersOf(next) : DestsOf(next, e) # {}} |->
        IF /\ \E i \in DestsOf(next, e) \cup {e} : EncoderDown(statuses, i)
           /\ ~Adding(ops, "AddEncoder", e)
        THEN Rebuild(next, e)
        ELSE Readd(next, e, ops)])

-----------------------------------------------------------------------------
(* Execution                                                                *)

\* The port, the statuses so far, and what has been stopped so far.
Begin(p) == [port |-> p, statuses |-> {}, stopped |-> {}]

InTrouble(statuses, i) == \E s \in statuses : s.id = StatusId[i] /\ s.why # "ready"

\* Of several troubles of one number only the first is ever looked at.
Reported(statuses, i, w) ==
    IF w # "ready" /\ InTrouble(statuses, i) THEN statuses ELSE statuses \cup {Status(i, w)}

Report(run, i, w) == [run EXCEPT !.statuses = Reported(@, i, w)]

Stop(run, i) == [run EXCEPT !.stopped = @ \cup {i}]

\* An encoder comes without destinations, and goes with them
\* (mixer_stream_encoder_remove).
SetEncoder(run, e, cfg) ==
    [run EXCEPT !.port = [@ EXCEPT !.encoders[e] = cfg, !.dests[e] = {}]]

\* apply_one on the port: an add in `refusing` changes nothing, and only its
\* status says so (accept_io).
ApplyOp(run, o, refusing) ==
    IF o.op \in Adds /\ o.id \in refusing THEN Report(run, o.id, "failed")
    ELSE CASE o.op = "DestroySource" ->
                Stop([run EXCEPT !.port.inputs[o.id] = Absent], o.id)
           [] o.op = "ConnectInput" ->
                Report([run EXCEPT !.port.inputs[o.id] = o.cfg], o.id, "ready")
           [] o.op = "FailInput" -> Report(run, o.id, "failed")
           [] o.op = "RemoveOutput" ->
                Stop([run EXCEPT !.port.outputs[o.id] = Absent], o.id)
           [] o.op = "AddOutput" ->
                Report([run EXCEPT !.port.outputs[o.id] = o.cfg], o.id, "ready")
           [] o.op = "RemoveEncoder" -> Stop(SetEncoder(run, o.id, Absent), o.id)
           [] o.op = "AddEncoder" ->
                Report(SetEncoder(run, o.id, o.cfg), o.id, "ready")
           [] o.op = "RemoveDest" ->
                Stop([run EXCEPT !.port.dests[o.enc] = {d \in @ : d.id # o.id}], o.id)
           [] o.op = "AddDest" ->
                IF o.enc = Absent \/ run.port.encoders[o.enc] = Absent
                THEN Report(run, o.id, "down")
                ELSE Report([run EXCEPT !.port.dests[o.enc] =
                                {d \in @ : d.id # o.id} \cup {[id |-> o.id, cfg |-> o.cfg.cfg]}],
                            o.id, "ready")

CarryOut(run, ops, refusing) ==
    LET after[i \in 0..Len(ops)] ==
            IF i = 0 THEN run ELSE ApplyOp(after[i - 1], ops[i], refusing)
    IN  after[Len(ops)]

Execute(p, ops, refusing) == CarryOut(Begin(p), ops, refusing)

\* The places where an operation that is not modelled can fail, as the part
\* of the plan that has run by then: units come before the inputs, audio
\* between the inputs and the outputs, the web API after the streams.
PlanUpTo(place, prev, next) ==
    CASE place = "units" -> <<>>
      [] place = "audio" -> PlanInputs(prev, next)
      [] place = "api"   -> PlanInputs(prev, next) \o PlanOutputs(prev, next)
                              \o PlanStreams(prev, next)

PlanOf(prev, next) == PlanUpTo("api", prev, next)

\* plan followed by reinforce_streams.
AllOps(prev, next) ==
    LET ops == PlanOf(prev, next)
    IN  ops \o ReinforceStreams(resources, next, ops)

-----------------------------------------------------------------------------
(* replace_session                                                          *)

\* The outputs that go from NDI or OMT to RTMP while they are enabled: neither loop
\* over the outputs removes them.
Turned(prev, next) ==
    {o \in Ids(Outputs) :
        LET p == prev.outputs[o] IN p # Absent /\ ~Rtmp(p) /\ p.enabled /\ Rtmp(next.outputs[o])}

\* The changed inputs whose source is not destroyed, as its file is gone: it may
\* run on, beside what is started in its place or instead of it.
Spared(prev, next) ==
    {i \in ChangedInputs(prev, next) : prev.inputs[i] # Absent /\ FileGone(prev.inputs[i])}

\* The inputs whose source is destroyed.
TakenDown(prev, next) ==
    {i \in Ids(Inputs) : prev.inputs[i] # Absent /\ ~DesiredEqual(prev.inputs[i], next.inputs[i])}
      \ Spared(prev, next)

Outcome(result, next, refusing) ==
    [result |-> result, clean |-> refusing = {},
     again |-> /\ result = "ok" /\ refusing = {} /\ next = session
               /\ last.result = "ok" /\ last.clean,
     stray |-> last.stray \/ (result = "aborted" /\ ~loaded),
     turned |-> last.turned \cup
                    IF result = "aborted" THEN Turned(next, session) ELSE Turned(session, next),
     spared |-> IF result = "aborted"
                THEN last.spared \cup Spared(session, next) \cup Spared(next, session)
                ELSE (last.spared \ TakenDown(session, next)) \cup Spared(session, next)]

\* Every operation of the plan is carried out, though some adds may have been refused.
Publish(next, ops, refusing) ==
    LET run == Execute(port, ops, refusing)
    IN  /\ session' = next
        /\ loaded' = TRUE
        /\ port' = run.port
        /\ resources' = run.statuses
        /\ last' = Outcome("ok", next, refusing)
        /\ UNCHANGED gone

\* An operation at `place` fails: the store goes back to what it was, and if
\* that is a document, the plan that leads back to it runs, errors ignored.
Abort(next, place, refusing) ==
    LET run == Execute(port, PlanUpTo(place, session, next), refusing)
    IN  /\ port' = IF ~loaded THEN run.port
                   ELSE Execute(run.port, PlanOf(next, session), refusing).port
        /\ last' = Outcome("aborted", next, refusing)
        /\ UNCHANGED <<session, loaded, resources, gone>>

\* repair_live or publish_session fails after the plan has been carried out:
\* the error is returned with the new document in the store.
PublishLate(next, ops, refusing) ==
    LET run == Execute(port, ops, refusing)
    IN  /\ session' = next
        /\ loaded' = TRUE
        /\ port' = run.port
        /\ last' = Outcome("late", next, refusing)
        /\ UNCHANGED <<resources, gone>>

\* Shutdown: the mixer and everything in it go, and so does the document.
Destroy ==
    /\ loaded
    /\ session' = NoSession
    /\ loaded' = FALSE
    /\ port' = EmptyPort
    /\ resources' = {}
    /\ last' = NoPublish
    /\ UNCHANGED gone

\* Files come and go.
FilesChange ==
    /\ gone' \in SUBSET Files
    /\ UNCHANGED <<session, loaded, port, resources, last>>

\* The ids that a publish of `next`, or its rollback, starts.
Startable(next) ==
    {op.id : op \in {o \in Range(AllOps(session, next) \o PlanOf(next, session)) : o.op \in Adds}}

Refusals(next) == {r \in SUBSET Startable(next) : Cardinality(r) <= MaxRefused}

\* One call of replace_session.
Attempt(next) ==
    LET ops == AllOps(session, next)
    IN  \E refusing \in Refusals(next) :
            \/ Publish(next, ops, refusing)
            \/ \E place \in {"units", "audio", "api"} : Abort(next, place, refusing)
            \/ PublishLate(next, ops, refusing)

ReconcileNext == (\E next \in Documents : Attempt(next)) \/ Destroy \/ FilesChange

ReconcileSpec == ReconcileInit /\ [][ReconcileNext]_reconcileVars

-----------------------------------------------------------------------------

ReconcileTypeOK ==
    /\ session \in Documents \cup {NoSession}
    /\ loaded \in BOOLEAN
    /\ \A i \in Ids(Inputs) :
          port.inputs[i] \in {Absent} \cup {d.inputs[i] : d \in Documents}
    /\ \A o \in Ids(Outputs) :
          port.outputs[o] \in {Absent} \cup {d.outputs[o] : d \in Documents}
    /\ \A e \in Ids(Encoders) :
          /\ port.encoders[e] \in {Absent} \cup {d.encoders[e] : d \in Documents}
          /\ port.encoders[e] = Absent => port.dests[e] = {}
    /\ \A s \in resources : (\E i \in AllIds : s.id = StatusId[i]) /\ s.why \in {"ready", "failed", "down"}
    /\ last.result \in {"none", "ok", "aborted", "late"}
    /\ gone \subseteq Files

\* An input that runs is in the session as it runs, in the fields that a publish
\* compares, whatever publishes failed and rolled back (plan's inputs,
\* replace_session's rollback), but for an input that changed when its file was
\* gone, until its source is destroyed.
NoGhostInput ==
    ~last.stray => \A i \in Ids(Inputs) \ last.spared :
        port.inputs[i] # Absent => DesiredEqual(port.inputs[i], session.inputs[i])

\* An output that runs is enabled in the session as it runs: what was disabled,
\* removed or rolled back is off the air (plan's outputs), but for an output that
\* has turned from NDI or OMT to RTMP.
NoStaleOutput ==
    ~last.stray => \A o \in Ids(Outputs) \ last.turned :
        LET dto == session.outputs[o]
        IN  port.outputs[o] # Absent => port.outputs[o] = dto /\ dto.enabled

\* An encoder runs only for enabled destinations of the session, with the
\* profile the session gives it (diff_streams, remove_stream).
NoIdleEncoder ==
    ~last.stray => \A e \in Ids(Encoders) :
        port.encoders[e] # Absent =>
            port.encoders[e] = session.encoders[e] /\ DestsOf(session, e) # {}

\* What a publish of the document d takes down on its way.
StoppedBy(d) == Execute(port, AllOps(session, d), {}).stopped

Wanted(e) == {[id |-> o, cfg |-> session.outputs[o].cfg] : o \in DestsOf(session, e)}

\* A stream is sent only to the enabled destinations of its encoder, at their
\* present address: nobody keeps receiving a picture they were taken off.
NoStrayDestination ==
    ~last.stray => \A e \in Ids(Encoders) : port.dests[e] \subseteq Wanted(e)

\* Nothing runs in the mixer that the session does not want, whichever publishes
\* were refused, failed late or were rolled back on the way.
NothingUnwantedRuns == NoGhostInput /\ NoStaleOutput /\ NoIdleEncoder /\ NoStrayDestination

\* A document published twice in a row with nothing refused streams to every
\* destination it enables (reinforce_streams: "rebuild an encoder whose last
\* attempt never started").
StreamsCatchUp ==
    last.again /\ ~last.stray => \A e \in Ids(Encoders) :
        session.encoders[e] # Absent => port.dests[e] = Wanted(e)

\* A publish never interrupts an input or an output that it does not change (an
\* input: in what input_desired_equal compares), nor a stream whose encoder and
\* destination it does not change when the last publish left nothing to retry
\* (plan, diff_streams, reinforce_streams).
UnchangedKeepsRunning ==
    [][last'.result = "ok" /\ ~last.stray =>
        LET stopped == StoppedBy(session') IN
        /\ \A i \in Ids(Inputs) : DesiredEqual(session.inputs[i], session'.inputs[i]) =>
              i \notin stopped /\ port'.inputs[i] = port.inputs[i]
        /\ \A o \in Ids(Outputs) \ last.turned :
              session'.outputs[o] = session.outputs[o] /\ port.outputs[o] # Absent =>
                  o \notin stopped /\ port'.outputs[o] = port.outputs[o]
        /\ \A e \in Ids(Encoders), o \in Ids(Outputs) :
              /\ session'.encoders[e] = session.encoders[e]
              /\ session'.outputs[o] = session.outputs[o]
              /\ \E d \in port.dests[e] : d.id = o
              /\ \A x \in Ids(Outputs \o Encoders) : ~InTrouble(resources, x)
              => {e, o} \cap stopped = {}]_reconcileVars

\* Enabling an output starts it, unless the mixer refuses it.
EnableStartsOutput ==
    [][last'.result = "ok" /\ last'.clean =>
        \A o \in Ids(Outputs) :
            LET was == session.outputs[o]
                dto == session'.outputs[o]
            IN  /\ was # Absent /\ ~was.enabled
                /\ dto # Absent /\ dto.enabled /\ ~dto.rtmp
                => port'.outputs[o] = dto]_reconcileVars
=============================================================================
