------------------------------ MODULE AvbStreams ------------------------------
(***************************************************************************)
(* The AVB streams of the audio application: audio/audio_avb.c, the AVTP   *)
(* source and sink elements and the part of play_pipeline.c for them.      *)
(*                                                                         *)
(* The control thread runs and stops the pipelines and, while they run,    *)
(* takes the AVB stack's requests to connect and to disconnect streams,    *)
(* which it passes to every pipeline in the table.  The data threads use   *)
(* the streams when they run or reset their pipelines.  The protocol that  *)
(* keeps runs, resets and stops apart is the subject of AudioApp.          *)
(***************************************************************************)
EXTENDS Integers

CONSTANTS
  N,             \* data threads, each with a pipeline that has both elements
  MaxPipelines,  \* AUDIO_PIPELINE_MAX_PIPELINES
  StreamN,       \* the streams of an element; the check of a configuration allows up to
                 \* AVTP_RX_STREAM_N, then index StreamN would lie behind the array
  Entities,      \* AVB entities: the audio streams <<element, index>> of each
  CrfIndex,      \* the index of its CRF stream
  BufferMax,     \* AUDIO_PIPELINE_AVB_MAX_BUFFER_SIZE, in periods
  MaxFailures,   \* bound on the RUN commands that fail when a pipeline is there
  NONE

ASSUME ThreadAssumption  == N \in Nat \ {0}
ASSUME EntityAssumption  == Entities \subseteq SUBSET ({"source", "sink"} \X (0..StreamN))
ASSUME CrfAssumption     == CrfIndex \in 0..StreamN
ASSUME NumbersAssumption ==
  MaxPipelines \in Nat \ {0} /\ StreamN \in Nat \ {0} /\ BufferMax \in Nat /\ BufferMax > 3

VARIABLES
  entity,     \* the audio streams the AVB stack may connect
  slot_of,    \* the table slot of each data thread's pipeline
  running,    \* the handler is set
  pipelines,  \* the slots that are used
  genavb_h,   \* the slots whose elements have an AVB handle
  stream,     \* the streams of each slot, with one more for the index StreamN
  level,      \* the periods in the buffers of a source's streams
  mutex,      \* who holds the mutex of an element
  op,         \* the request the control thread works on
  dpc,        \* what a data thread does to which stream
  more,       \* whether the last read of a draining data thread got something
  crf,        \* the CRF stream
  wanted,     \* history: the streams the stack has connected
  swallowed,  \* history: requests that were taken for the CRF stream
  failures

vars == <<entity, slot_of, running, pipelines, genavb_h, stream, level, mutex, op, dpc,
          more, crf, wanted, swallowed, failures>>
stackVars == <<entity, crf, wanted, swallowed, failures>>
tableVars == <<slot_of, running, pipelines, genavb_h>>

Thread  == 0..N-1
Slot    == 0..MaxPipelines-1
Element == {"source", "sink"}
Index   == 0..StreamN

Idle  == [kind |-> "idle"]
Fresh == [connected |-> FALSE, handle |-> "null", first_start |-> TRUE]
NoCrf == [connected |-> FALSE, index |-> 0]  \* memset
Closed == [e \in Element |-> [i \in Index |-> Fresh]]

Init ==
  /\ entity \in Entities
  /\ slot_of = [t \in Thread |-> NONE]
  /\ running = FALSE
  /\ pipelines = {} /\ genavb_h = {}
  /\ stream = [p \in Slot |-> Closed]
  /\ level = [p \in Slot |-> [i \in Index |-> 0]]
  /\ mutex = [p \in Slot |-> [e \in Element |-> "free"]]
  /\ op = Idle
  /\ dpc = [t \in Thread |-> Idle]
  /\ more = [t \in Thread |-> FALSE]
  /\ crf = NoCrf
  /\ wanted = {} /\ swallowed = {}
  /\ failures = 0

-----------------------------------------------------------------------------
(* RUN and STOP.  No data thread uses a pipeline meanwhile.                *)

Free == Slot \ pipelines
First(S) == {p \in S : \A q \in S : p <= q}

\* The slots that k pipelines get, one after the other: each the first that is free.
Allocations(k) ==
  {f \in [0..k-1 -> Free] :
     \A t \in 0..k-1 : /\ \A s \in 0..t-1 : f[s] < f[t]
                       /\ \A p \in Free : p < f[t] => \E s \in 0..t-1 : f[s] = p}

\* play_pipeline_init.  The first pipeline brings the AVB handle, which those get
\* that are in the table at that time (audio_avb_init).
RunInit(k) ==
  \E slots \in Allocations(k) :
  /\ pipelines' = pipelines \cup {slots[t] : t \in 0..k-1}
  /\ genavb_h' = pipelines \cup {slots[0]}
  /\ slot_of' = [t \in Thread |-> IF t < k THEN slots[t] ELSE slot_of[t]]
  /\ stream' = [p \in Slot |-> IF p \in pipelines THEN stream[p] ELSE Closed]
  /\ level' = [p \in Slot |-> IF p \in pipelines THEN level[p] ELSE [i \in Index |-> 0]]
  /\ crf' = NoCrf

Run ==
  /\ ~running /\ op = Idle
  /\ RunInit(N)
  /\ running' = TRUE
  /\ UNCHANGED <<entity, mutex, op, dpc, more, wanted, swallowed, failures>>

\* A RUN that fails later leaves its first pipelines in the table.
RunFails ==
  /\ ~running /\ op = Idle /\ failures < MaxFailures
  /\ \E k \in 1..N : RunInit(k)
  /\ failures' = failures + 1
  /\ UNCHANGED <<entity, running, mutex, op, dpc, more, wanted, swallowed>>

\* Variant: the streams are left alone.
LeftKeeping(p) == stream[p]

\* What is left of the streams of a pipeline, whose memory is freed: the elements
\* disconnect theirs (avtp_source_element_exit, avtp_sink_element_exit), but not
\* one at index StreamN.
Left(p) ==
  [e \in Element |-> [i \in Index |-> IF i < StreamN THEN Fresh ELSE stream[p][e][i]]]

\* audio_stop: audio_avb_exit, which has no regard for the CRF stream, and
\* audio_pipeline_exit.
Stop ==
  /\ running /\ op = Idle /\ \A t \in Thread : dpc[t] = Idle
  /\ LET gone == {slot_of[t] : t \in Thread} IN
     /\ pipelines' = pipelines \ gone
     /\ stream' = [p \in Slot |-> IF p \in gone THEN Left(p) ELSE stream[p]]
     /\ level' = [p \in Slot |-> IF p \in gone THEN [i \in Index |-> 0] ELSE level[p]]
  /\ running' = FALSE
  /\ genavb_h' = {}
  /\ slot_of' = [t \in Thread |-> NONE]
  /\ crf' = NoCrf
  /\ wanted' = {} /\ swallowed' = {}
  /\ UNCHANGED <<entity, mutex, op, dpc, more, failures>>

-----------------------------------------------------------------------------
(* Requests of the AVB stack                                               *)

Audible == entity \cup {<<"crf", CrfIndex>>}

\* The request is passed to the first pipeline in the table.
Request(kind, e, i) ==
  {[kind |-> kind, e |-> e, i |-> i, p |-> p, at |-> "begin"] : p \in First(pipelines)}

Receives == running /\ op = Idle

\* handle_avdecc_event: a stream is connected.  For the CRF stream, this is all
\* (crf_connect, which may fail); a request for an audio stream is passed to all
\* pipelines.
MediaStackConnect ==
  /\ Receives
  /\ \E s \in Audible \ wanted :
       /\ wanted' = wanted \cup {s}
       /\ IF s[1] = "crf"
            THEN /\ \/ ~crf.connected /\ crf' = [connected |-> TRUE, index |-> s[2]]
                    \/ UNCHANGED crf
                 /\ UNCHANGED <<op, swallowed>>
            ELSE /\ op' \in Request("connect", s[1], s[2])
                 /\ swallowed' = swallowed \ {s}
                 /\ UNCHANGED crf
  /\ UNCHANGED <<tableVars, stream, level, mutex, dpc, more, entity, failures>>

\* handle_avdecc_event: a stream is disconnected.  The message only has its index:
\* if it is that of the CRF stream, it is taken for it (crf_disconnect), and a CRF
\* stream with another one is taken for a source.
MediaStackDisconnect ==
  /\ Receives
  /\ \E s \in wanted :
       /\ wanted' = wanted \ {s}
       /\ IF s[2] = crf.index
            THEN /\ crf' = IF crf.connected THEN [connected |-> FALSE, index |-> -1] ELSE crf
                 /\ swallowed' = swallowed \cup ({s} \cap entity)
                 /\ UNCHANGED op
            ELSE /\ op' \in Request("disconnect", IF s[1] = "crf" THEN "source" ELSE s[1], s[2])
                 /\ UNCHANGED <<crf, swallowed>>
  /\ UNCHANGED <<tableVars, stream, level, mutex, dpc, more, entity, failures>>

\* The next pipeline in the table.
NextSlot ==
  LET after == {p \in pipelines : p > op.p} IN
  IF after = {} THEN {Idle} ELSE {[op EXCEPT !.p = p, !.at = "begin"] : p \in First(after)}

Its == stream[op.p][op.e][op.i]

SetIts(its) == stream' = [stream EXCEPT ![op.p][op.e][op.i] = its]

\* avtp_source_connect, avtp_sink_connect.  The stream is created, unless there is
\* no AVB handle, it is connected, or it cannot be; then it is shown to the data
\* thread.
ConnectCreate ==
  /\ op.kind = "connect" /\ op.at = "begin"
  /\ \/ /\ op.p \in genavb_h /\ ~Its.connected
        /\ SetIts([Its EXCEPT !.handle = "live", !.first_start = TRUE])
        /\ op' = [op EXCEPT !.at = "show"]
     \/ op' \in NextSlot /\ UNCHANGED stream
  /\ UNCHANGED <<tableVars, level, mutex, dpc, more, stackVars>>

ConnectShow ==
  /\ op.kind = "connect" /\ op.at = "show" /\ mutex[op.p][op.e] = "free"
  /\ SetIts([Its EXCEPT !.connected = TRUE])
  /\ op' \in NextSlot
  /\ UNCHANGED <<tableVars, level, mutex, dpc, more, stackVars>>

\* Variant: the mutex is not taken.
DisconnectHideAtOnce ==
  /\ op.kind = "disconnect" /\ op.at = "begin"
  /\ IF Its.connected
       THEN SetIts([Its EXCEPT !.connected = FALSE]) /\ op' = [op EXCEPT !.at = "destroy"]
       ELSE op' \in NextSlot /\ UNCHANGED stream
  /\ UNCHANGED <<tableVars, level, mutex, dpc, more, stackVars>>

\* avtp_source_disconnect, avtp_sink_disconnect: the stream is hidden from the data
\* thread, destroyed, and its handle cleared.
DisconnectHide ==
  /\ op.kind = "disconnect" /\ op.at = "begin"
  /\ IF Its.connected
       THEN /\ mutex[op.p][op.e] = "free"
            /\ SetIts([Its EXCEPT !.connected = FALSE]) /\ op' = [op EXCEPT !.at = "destroy"]
       ELSE op' \in NextSlot /\ UNCHANGED stream
  /\ UNCHANGED <<tableVars, level, mutex, dpc, more, stackVars>>

DisconnectDestroy ==
  /\ op.kind = "disconnect" /\ op.at = "destroy"
  /\ SetIts([Its EXCEPT !.handle = "destroyed"])
  /\ op' = [op EXCEPT !.at = "clear"]
  /\ UNCHANGED <<tableVars, level, mutex, dpc, more, stackVars>>

DisconnectClear ==
  /\ op.kind = "disconnect" /\ op.at = "clear"
  /\ SetIts([Its EXCEPT !.handle = "null"])
  /\ op' \in NextSlot
  /\ UNCHANGED <<tableVars, level, mutex, dpc, more, stackVars>>

AudioAvbCtrl ==
  \/ MediaStackConnect \/ MediaStackDisconnect \/ ConnectCreate \/ ConnectShow
  \/ DisconnectHide \/ DisconnectDestroy \/ DisconnectClear

-----------------------------------------------------------------------------
(* The data threads                                                        *)

At(kind, e, i) == [kind |-> kind, e |-> e, i |-> i, at |-> "check"]
That(t) == stream[slot_of[t]][dpc[t].e][dpc[t].i]
Doing(t, kind, at) == dpc[t].kind = kind /\ dpc[t].at = at
Move(t, to) == dpc' = [dpc EXCEPT ![t] = to]
SetMutex(t, e, value) == mutex' = [mutex EXCEPT ![slot_of[t]][e] = value]

\* avtp_source_element_run comes first in a pipeline, avtp_sink_element_run last.
\* Only a pipeline that was reset runs.
RunStarts(t) ==
  /\ running /\ dpc[t] = Idle
  /\ Move(t, At("run", "source", 0))
  /\ SetMutex(t, "source", "data")
  /\ UNCHANGED <<tableVars, stream, level, op, more, stackVars>>

RunChecks(t) ==
  /\ Doing(t, "run", "check") /\ dpc[t].i < StreamN
  /\ Move(t, [dpc[t] EXCEPT !.at = IF That(t).connected THEN "use" ELSE "not"])
  /\ UNCHANGED <<tableVars, stream, level, mutex, op, more, stackVars>>

NextStream(t) == [dpc[t] EXCEPT !.i = @ + 1, !.at = "check"]

\* Variant: a stream that starts again keeps what is in its buffers.
ReceivedOnTop(t) ==
  LET p == slot_of[t]  i == dpc[t].i IN
  \/ /\ That(t).first_start
     /\ \E periods_to_wait \in 0..BufferMax-3 :
          level' = [level EXCEPT ![p][i] = @ + periods_to_wait + 1]
     /\ stream' = [stream EXCEPT ![p]["source"][i].first_start = FALSE]
  \/ /\ ~That(t).first_start
     /\ level' = [level EXCEPT ![p][i] = @ + 1]
     /\ UNCHANGED stream

\* What listener_receive does to the buffers: a stream that starts, or starts
\* again, is put off by some periods of silence for its first samples to be
\* played in time.
Received(t) ==
  LET p == slot_of[t]  i == dpc[t].i IN
  \/ /\ That(t).first_start
     /\ \E periods_to_wait \in 0..BufferMax-3 :
          level' = [level EXCEPT ![p][i] = periods_to_wait + 1]
     /\ stream' = [stream EXCEPT ![p]["source"][i].first_start = FALSE]
  \/ /\ ~That(t).first_start
     /\ level' = [level EXCEPT ![p][i] = @ + 1]
     /\ UNCHANGED stream

\* An error, too few bytes or a time stamp that is not accepted.
ReceivedNothing(t) ==
  /\ level' = [level EXCEPT ![slot_of[t]][dpc[t].i] = @ + 1]
  /\ stream' = [stream EXCEPT ![slot_of[t]]["source"][dpc[t].i].first_start = TRUE]

SourceRun(t) ==
  /\ dpc[t].kind = "run" /\ dpc[t].e = "source"
  /\ \/ dpc[t].at = "use" /\ (Received(t) \/ ReceivedNothing(t))
     \/ /\ dpc[t].at = "not"
        /\ level' = [level EXCEPT ![slot_of[t]][dpc[t].i] = @ + 1]
        /\ UNCHANGED stream
  /\ Move(t, NextStream(t))
  /\ UNCHANGED <<tableVars, mutex, op, more, stackVars>>

SourceDone(t) ==
  /\ Doing(t, "run", "check") /\ dpc[t].e = "source" /\ dpc[t].i = StreamN
  /\ SetMutex(t, "source", "free")
  /\ Move(t, [At("run", "sink", 0) EXCEPT !.at = "lock"])
  /\ UNCHANGED <<tableVars, stream, level, op, more, stackVars>>

\* The elements in between may fail, then all is reset.  If they do not, they have
\* read a period from the buffers of the source.
SinkStarts(t) ==
  /\ Doing(t, "run", "lock")
  /\ \/ /\ Move(t, At("run", "sink", 0))
        /\ SetMutex(t, "sink", "data")
        /\ level' = [level EXCEPT ![slot_of[t]] = [i \in Index |-> IF i < StreamN THEN @[i] - 1 ELSE 0]]
     \/ Move(t, At("reset", "source", 0)) /\ UNCHANGED <<mutex, level>>
  /\ UNCHANGED <<tableVars, stream, op, more, stackVars>>

\* talker_send, or nothing.
SinkRun(t) ==
  /\ dpc[t].kind = "run" /\ dpc[t].e = "sink" /\ dpc[t].at \in {"use", "not"}
  /\ Move(t, NextStream(t))
  /\ UNCHANGED <<tableVars, stream, level, mutex, op, more, stackVars>>

SinkDone(t) ==
  /\ Doing(t, "run", "check") /\ dpc[t].e = "sink" /\ dpc[t].i = StreamN
  /\ SetMutex(t, "sink", "free")
  /\ Move(t, Idle)
  /\ UNCHANGED <<tableVars, stream, level, op, more, stackVars>>

\* audio_pipeline_reset, when the run of any pipeline fails.  No mutex is taken.
ResetStarts(t) ==
  /\ running /\ dpc[t] = Idle
  /\ Move(t, At("reset", "source", 0))
  /\ UNCHANGED <<tableVars, stream, level, mutex, op, more, stackVars>>

\* A stream with a handle is read, or flushed.  Without one, avtp_source_element_reset
\* reads no more, and goes on if the last read got nothing.
ResetChecks(t) ==
  /\ Doing(t, "reset", "check") /\ dpc[t].i < StreamN
  /\ IF That(t).handle # "null"
       THEN Move(t, [dpc[t] EXCEPT !.at = "use"])
       ELSE ~more[t] /\ Move(t, NextStream(t))
  /\ stream' = [stream EXCEPT ![slot_of[t]][dpc[t].e][dpc[t].i].first_start = TRUE]
  /\ UNCHANGED <<tableVars, level, mutex, op, more, stackVars>>

ResetUses(t) ==
  /\ Doing(t, "reset", "use")
  /\ \/ /\ more' = [more EXCEPT ![t] = FALSE]
        /\ Move(t, NextStream(t))
     \/ /\ dpc[t].e = "source"
        /\ more' = [more EXCEPT ![t] = TRUE]
        /\ Move(t, [dpc[t] EXCEPT !.at = "check"])
  /\ UNCHANGED <<tableVars, stream, level, mutex, op, stackVars>>

ResetDone(t) ==
  /\ Doing(t, "reset", "check") /\ dpc[t].i = StreamN
  /\ IF dpc[t].e = "source"
       THEN /\ level' = [level EXCEPT ![slot_of[t]] = [i \in Index |-> 0]]
            /\ Move(t, At("reset", "sink", 0))
       ELSE Move(t, Idle) /\ UNCHANGED level
  /\ UNCHANGED <<tableVars, stream, mutex, op, more, stackVars>>

DataTask(t) ==
  \/ RunStarts(t) \/ RunChecks(t) \/ SourceRun(t) \/ SourceDone(t) \/ SinkStarts(t)
  \/ SinkRun(t) \/ SinkDone(t)
  \/ ResetStarts(t) \/ ResetChecks(t) \/ ResetUses(t) \/ ResetDone(t)

Next ==
  \/ Run \/ RunFails \/ Stop
  \/ AudioAvbCtrl
  \/ \E t \in Thread : DataTask(t)

Spec == Init /\ [][Next]_vars

-----------------------------------------------------------------------------
(* Properties                                                              *)

\* A stream that a run found connected is still there when the run reads from it or
\* sends to it, in every pipeline that runs.
StreamUsedLive ==
  \A t \in Thread : Doing(t, "run", "use") => That(t).handle = "live"

\* Between two requests, in every pipeline in the table, a stream that is not shown
\* as connected does not live on.  Unless a RUN failed, only the first pipeline has
\* streams, those that the stack has connected and those whose disconnection was
\* taken for that of the CRF stream, and none but one at the index one too many
\* outlives a STOP.
StreamsFollowStack ==
  op = Idle =>
    \A p \in Slot, e \in Element, i \in Index :
      LET its == stream[p][e][i] IN
      /\ its.handle = IF its.connected THEN "live" ELSE "null"
      /\ failures = 0 /\ its.connected =>
           IF running THEN /\ p = slot_of[0]
                           /\ <<e, i>> \in wanted \cup swallowed
                      ELSE i = StreamN

\* What reads the buffers of a source finds a period in each, and a source never
\* writes past it: however often streams start, fail, are connected, disconnected
\* and reset, the silence before them does not add up.  This is said of storages of
\* BufferMax periods, which the code does not ask for: the default is two.
SourceBuffered ==
  \A t \in Thread : Doing(t, "run", "lock") =>
    \A i \in 0..StreamN-1 : level[slot_of[t]][i] \in 1..BufferMax-2
===============================================================================
