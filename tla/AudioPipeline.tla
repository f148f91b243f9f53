------------------------------ MODULE AudioPipeline ----------------------------
(***************************************************************************)
(* The pipelines of audio/audio_pipeline.c: how a configuration is checked *)
(* and turned into elements and buffers, how pipelines of different data   *)
(* threads share a buffer, and what the elements do to the buffers when    *)
(* they run and when they are reset.                                       *)
(*                                                                         *)
(* audio_run initialises the pipelines of a configuration one by one,      *)
(* audio_stop removes them; the data threads run the elements.  Here every *)
(* pipeline runs once per period, in any interleaving of their elements,   *)
(* and a failing run makes all of them reset before the next period (the   *)
(* protocol that achieves it is the subject of AudioApp).                  *)
(*                                                                         *)
(* A sample is abstracted to the period it was written in: this one        *)
(* ("now"), the last one or an older one; "head" is the silence that a SAI *)
(* sink puts before its first samples.                                     *)
(***************************************************************************)
EXTENDS AudioBuffer, SequencesExt

CONSTANTS
  Configs,         \* the configurations to choose from: sequences of pipelines
  MaxPipelines,    \* AUDIO_PIPELINE_MAX_PIPELINES
  MaxFailures,     \* bound on the RUN commands that fail by lack of a resource
  NULL             \* no pipeline, no buffer

ASSUME MaxPipelinesAssumption == MaxPipelines \in Nat \ {0}
ASSUME MaxFailuresAssumption == MaxFailures \in Nat \ {0}

ElementType == {"SAI_SOURCE", "SINE_SOURCE", "ROUTING", "SAI_SINK", "AVTP_SINK"}

IsArray(seq) == Len(seq) \in Nat /\ DOMAIN seq = 1..Len(seq)
IsTable(ids) == Cardinality(ids) \in Nat /\ ids = 0..Cardinality(ids)-1

\* The arrays of a pipeline's configuration: elements from the first stage to the
\* last, with the buffers they name; buffers and the periods of storages, from 0.
WellFormed(cfg) ==
  /\ IsArray(cfg.element)
  /\ \A e \in DOMAIN cfg.element :
       /\ \A list \in {cfg.element[e].input, cfg.element[e].output} :
            IsArray(list) /\ \A k \in DOMAIN list : list[k] \in Nat
       /\ cfg.element[e].stage \in Nat /\ cfg.element[e].type \in ElementType
       /\ \A d \in 1..e : cfg.element[d].stage <= cfg.element[e].stage
  /\ IsTable(DOMAIN cfg.buffer) /\ IsTable(DOMAIN cfg.periods)
  /\ \A b \in DOMAIN cfg.buffer :
       /\ cfg.buffer[b].storage \in Nat /\ cfg.buffer[b].shared_id \in Nat
       /\ cfg.buffer[b].flags \in {"none", "shared", "shared_user"}
  /\ \A s \in DOMAIN cfg.periods : cfg.periods[s] \in Nat

\* A reader of a shared buffer has an owner in an earlier pipeline.
OwnersFirst(c) ==
  \A t \in DOMAIN c : \A b \in DOMAIN c[t].buffer :
    c[t].buffer[b].flags = "shared_user" =>
      \E u \in 1..t-1 : \E o \in DOMAIN c[u].buffer :
        /\ c[u].buffer[o].flags = "shared"
        /\ c[u].buffer[o].shared_id = c[t].buffer[b].shared_id

ASSUME ConfigsAssumption ==
  \A c \in Configs :
    IsArray(c) /\ Len(c) > 0 /\ (\A t \in DOMAIN c : WellFormed(c[t])) /\ OwnersFirst(c)

VARIABLES
  config,          \* the configuration that RUN commands name
  pipeline_table,  \* the pipelines by slot, each with the storage it allocated
  handle,          \* the table slot of each data thread's pipeline
  cpc, ci,         \* the control thread: its command and its loop index
  next_element,    \* what each data thread executes next in this period
  resetting,       \* a run has failed in this period
  failures,        \* how many RUN commands have failed
  aligned          \* history: the last reset left every shared reader at index 0

vars == <<config, pipeline_table, handle, cpc, ci, next_element, resetting,
          failures, aligned>>

Slot   == 0..MaxPipelines-1
Thread == DOMAIN config

STORAGE_DEFAULT_PERIODS   == 2
AUDIO_PIPELINE_MAX_STAGES == 4
AVTP_SINK_MAX             == 1
SaiElement                == {"SAI_SOURCE", "SAI_SINK"}

-----------------------------------------------------------------------------
(* Configurations: the elements in the order of the stage loops, each with *)
(* its stage, its type and the buffers it names.                           *)

EarlyConfigCheck(cfg) ==
  \A e \in DOMAIN cfg.element : cfg.element[e].stage < AUDIO_PIPELINE_MAX_STAGES

\* An input or output 0 stands for the one before plus 1 ...
Numbered(list) ==
  LET n[k \in 1..Len(list)] ==
        IF list[k] # 0 THEN list[k] ELSE IF k = 1 THEN 0 ELSE n[k-1] + 1
  IN  n

\* ... storage 0 for the next id not given out yet ...
SetStorage(cfg, b) ==
  LET Default(c) == cfg.buffer[c].storage = 0 /\ cfg.buffer[c].flags # "shared_user"
  IN  IF cfg.buffer[b].storage # 0 THEN cfg.buffer[b].storage
      ELSE IF Default(b) THEN Cardinality({c \in 0..b-1 : Default(c)})
      ELSE cfg.buffer[b].shared_id

\* ... and 0 periods for the default.
SetConfig(cfg) ==
  [element |-> [e \in DOMAIN cfg.element |->
                 [stage |-> cfg.element[e].stage, type |-> cfg.element[e].type,
                  input |-> Numbered(cfg.element[e].input), output |-> Numbered(cfg.element[e].output)]],
   buffer  |-> [b \in DOMAIN cfg.buffer |->
                 [storage |-> SetStorage(cfg, b), flags |-> cfg.buffer[b].flags,
                  shared_id |-> cfg.buffer[b].shared_id]],
   periods |-> [s \in DOMAIN cfg.periods |->
                 IF cfg.periods[s] = 0 THEN STORAGE_DEFAULT_PERIODS ELSE cfg.periods[s]]]

\* The inputs that name buffer b, and the outputs that do from a stage on.
InputRefs(cfg, b) ==
  UNION {{<<e, k>> : k \in {i \in DOMAIN cfg.element[e].input : cfg.element[e].input[i] = b}}
         : e \in DOMAIN cfg.element}

OutputRefs(cfg, stage, b) ==
  UNION {{<<e, k>> : k \in {i \in DOMAIN cfg.element[e].output : cfg.element[e].output[i] = b}}
         : e \in {d \in DOMAIN cfg.element : cfg.element[d].stage >= stage}}

Several(refs) == \E r, s \in refs : r # s

ElementCheck(element) ==
  CASE element.type = "SAI_SOURCE"          -> element.input = <<>>
    [] element.type = "SINE_SOURCE"         -> element.input = <<>> /\ Len(element.output) = 1
    [] element.type = "ROUTING"             -> element.input # <<>> /\ element.output # <<>>
    [] element.type \in {"SAI_SINK", "AVTP_SINK"} -> element.output = <<>>

NoLoop(cfg) ==
  \A e \in DOMAIN cfg.element : \A b \in Range(cfg.element[e].input) :
    OutputRefs(cfg, cfg.element[e].stage, b) = {}

ConfigCheck(cfg) ==
  /\ \A e \in DOMAIN cfg.element :
       /\ Range(cfg.element[e].input) \cup Range(cfg.element[e].output) \subseteq DOMAIN cfg.buffer
       /\ ElementCheck(cfg.element[e])
  /\ \A b \in DOMAIN cfg.buffer :
       /\ cfg.buffer[b].storage \in DOMAIN cfg.periods \/ cfg.buffer[b].flags = "shared_user"
       /\ ~Several(OutputRefs(cfg, 0, b))
  /\ NoLoop(cfg)
  /\ Cardinality({e \in DOMAIN cfg.element : cfg.element[e].type = "AVTP_SINK"}) <= AVTP_SINK_MAX

\* The check accepts these with a warning: a buffer that is not both written
\* and read once.
Warned(cfg) ==
  \E b \in DOMAIN cfg.buffer :
    LET input  == InputRefs(cfg, b)
        output == OutputRefs(cfg, 0, b)
    IN  \/ Several(input)
        \/ IF cfg.buffer[b].flags = "none" THEN input = {} \/ output = {}
           ELSE input = {} /\ output = {}

\* Buffers may lie on one storage (the check warns of it).  No silence is written
\* to that of buffer b while samples are in b: no shared buffer lies on it, and a
\* SAI sink reads another buffer there only after b has been read.
SilenceApart(cfg, b) ==
  \A c \in DOMAIN cfg.buffer :
    cfg.buffer[c].storage = cfg.buffer[b].storage =>
      /\ cfg.buffer[c].flags # "shared"
      /\ cfg.buffer[c].flags = "none" =>
           \A e, i \in DOMAIN cfg.element :
             /\ e < i /\ cfg.element[e].type = "SAI_SINK"
             /\ b \in Range(cfg.element[i].input)
             => c \notin Range(cfg.element[e].input)

\* The shared buffers of a configuration have a storage of their own, of more than
\* one period; they are written once, in their own pipeline, and read at most once
\* in each.
SharedOnce(c) ==
  \A t \in DOMAIN c :
    LET cfg == SetConfig(c[t]) IN
    \A b \in DOMAIN cfg.buffer : cfg.buffer[b].flags # "none" =>
      /\ ~Several(InputRefs(cfg, b))
      /\ OutputRefs(cfg, 0, b) # {} <=> cfg.buffer[b].flags = "shared"
      /\ cfg.buffer[b].flags = "shared" =>
           /\ cfg.periods[cfg.buffer[b].storage] > 1
           /\ \A a \in DOMAIN cfg.buffer :
                cfg.buffer[a].storage = cfg.buffer[b].storage
                  => a = b \/ cfg.buffer[a].flags = "shared_user"

-----------------------------------------------------------------------------
(* From a configuration to a pipeline                                      *)

\* Where storage id begins: after those before it.  The configurations have no
\* storage with a base of its own, which the code would not count here, though it
\* does not place buffers there either.
StorageOff(cfg, id) ==
  LET off[s \in 0..Cardinality(DOMAIN cfg.periods)] ==
        IF s = 0 THEN 0 ELSE off[s-1] + cfg.periods[s-1]
  IN  off[id]

StorageSize(cfg) == StorageOff(cfg, Cardinality(DOMAIN cfg.periods))

\* Variant: the flag is not looked at.
SharedBufferFindAny(table, id) ==
  LET Matches(p) == {b \in DOMAIN table[p].buffer : table[p].buffer[b].shared_id = id}
      Searched   == {p \in Slot : 0..p \subseteq DOMAIN table}
      Found      == {p \in Searched : Matches(p) # {}}
  IN  IF Found = {} THEN NULL ELSE table[Min(Found)].buffer[Min(Matches(Min(Found)))]

\* audio_pipeline_shared_buffer_find: the search ends at the first empty slot.
SharedBufferFind(table, id) ==
  LET Matches(p) == {b \in DOMAIN table[p].buffer :
                       /\ table[p].buffer[b].flags = "shared"
                       /\ table[p].buffer[b].shared_id = id}
      Searched   == {p \in Slot : 0..p \subseteq DOMAIN table}
      Found      == {p \in Searched : Matches(p) # {}}
  IN  IF Found = {} THEN NULL ELSE table[Min(Found)].buffer[Min(Matches(Min(Found)))]

\* Variant: no silence ahead of the owner.
BufferInitSilent(table, slot, cfg, b) ==
  LET buffer == cfg.buffer[b]
      owner  == SharedBufferFind(table, buffer.shared_id)
      base   == [slot |-> slot, off |-> StorageOff(cfg, buffer.storage)]
      size   == cfg.periods[buffer.storage]
  IN  CASE buffer.flags = "shared_user" ->
             BufInit(owner.base, owner.size, 0, buffer.flags, buffer.shared_id)
        [] buffer.flags = "shared" -> BufInit(base, size, 0, buffer.flags, buffer.shared_id)
        [] buffer.flags = "none"   -> BufInit(base, size, 0, "none", 0)

\* audio_pipeline_buffer_init.  The configurations name an owner in an earlier
\* pipeline: without one the code logs an error and leaves the buffer empty.
BufferInit(table, slot, cfg, b) ==
  LET buffer == cfg.buffer[b]
      owner  == SharedBufferFind(table, buffer.shared_id)
      base   == [slot |-> slot, off |-> StorageOff(cfg, buffer.storage)]
      size   == cfg.periods[buffer.storage]
  IN  CASE buffer.flags = "shared_user" ->
             BufInit(owner.base, owner.size, 0, buffer.flags, buffer.shared_id)
        [] buffer.flags = "shared" -> BufInit(base, size, 1, buffer.flags, buffer.shared_id)
        [] buffer.flags = "none"   -> BufInit(base, size, 0, "none", 0)

\* The period of silence that a reset writes at index 0.
Silences(buffer, reset) ==
  {buffer[b].base.off : b \in {c \in reset : buffer[c].silence > 0}}

Create(table, slot, cfg) ==
  LET buffer == [b \in DOMAIN cfg.buffer |-> BufferInit(table, slot, cfg, b)] IN
  [cfg     |-> cfg,
   buffer  |-> buffer,
   memory  |-> [c \in 0..StorageSize(cfg)-1 |->
                 IF c \in Silences(buffer, DOMAIN buffer) THEN "last" ELSE "old"],
   started |-> [e \in DOMAIN cfg.element |-> FALSE]]

-----------------------------------------------------------------------------
(* What elements do to the buffers of the pipeline in slot p               *)

\* How often an element names buffer b.
Times(list, b) == Cardinality({k \in DOMAIN list : list[k] = b})

Cell(buf, index) == <<buf.base.slot, buf.base.off + index>>

Store(table, cells, age) ==
  [q \in DOMAIN table |->
     [table[q] EXCEPT !.memory = [c \in DOMAIN @ |-> IF <<q, c>> \in cells THEN age ELSE @[c]]]]

\* No output is named twice.
WriteAll(table, p, list) ==
  LET buffer == table[p].buffer IN
  [Store(table, {Cell(buffer[b], buffer[b].write) : b \in Range(list)}, "now")
     EXCEPT ![p].buffer = [b \in DOMAIN @ |-> WriteUpdate(@[b], Times(list, b))]]

ReadAll(table, p, list) ==
  [table EXCEPT ![p].buffer = [b \in DOMAIN @ |-> ReadUpdate(@[b], Times(list, b))]]

WriteSilenceAll(table, p, list) ==
  LET buffer == [b \in DOMAIN table[p].buffer |-> WriteHead(table[p].buffer[b], Times(list, b))]
      Silence(b) == {Cell(buffer[b], (buffer[b].read + k) % Wrap(buffer[b].size)) :
                       k \in 0..Times(list, b)-1}
  IN  [Store(table, UNION {Silence(b) : b \in Range(list)}, "head") EXCEPT ![p].buffer = buffer]

\* Variant: a SAI sink that starts fills the FIFO once.
ElementRunFillsOnce(table, p, e) ==
  LET element == table[p].cfg.element[e]
      starting == element.type = "SAI_SINK" /\ ~table[p].started[e]
      ready   == IF starting THEN WriteSilenceAll(table, p, element.input) ELSE table
  IN  [ReadAll(WriteAll(ready, p, element.output), p, element.input)
        EXCEPT ![p].started[e] = element.type \in SaiElement]

\* A run that succeeds: outputs are written, then inputs released.  A SAI sink
\* that starts fills its FIFO twice, with silence ahead.
ElementRun(table, p, e) ==
  LET element  == table[p].cfg.element[e]
      starting == element.type = "SAI_SINK" /\ ~table[p].started[e]
      ready    == IF starting
                  THEN ReadAll(WriteSilenceAll(table, p, element.input), p, element.input)
                  ELSE table
  IN  [ReadAll(WriteAll(ready, p, element.output), p, element.input)
        EXCEPT ![p].started[e] = element.type \in SaiElement]

\* Variant: the routing element does not reset its outputs.
ResetBuffersRouting(cfg) ==
  UNION {Range(IF cfg.element[e].type = "AVTP_SINK" THEN cfg.element[e].input
               ELSE cfg.element[e].output)
         : e \in {d \in DOMAIN cfg.element : cfg.element[d].type # "ROUTING"}}

\* What audio_pipeline_reset resets: outputs, and the inputs of an AVTP sink.
\* A SAI sink does not reset its inputs.
ResetBuffers(cfg) ==
  UNION {Range(IF cfg.element[e].type = "AVTP_SINK" THEN cfg.element[e].input
               ELSE cfg.element[e].output)
         : e \in DOMAIN cfg.element}

Age(age) == CASE age = "now" -> "last" [] age = "head" -> "head" [] OTHER -> "old"

\* The samples grow a period older.
Aged(pipeline) == [pipeline EXCEPT !.memory = [c \in DOMAIN @ |-> Age(@[c])]]

PipelineReset(pipeline) ==
  LET reset == ResetBuffers(pipeline.cfg) IN
  [cfg     |-> pipeline.cfg,
   buffer  |-> [b \in DOMAIN pipeline.buffer |->
                 IF b \in reset THEN Reset(pipeline.buffer[b]) ELSE pipeline.buffer[b]],
   memory  |-> [c \in DOMAIN pipeline.memory |->
                 IF c \in Silences(pipeline.buffer, reset) THEN "last" ELSE pipeline.memory[c]],
   started |-> [e \in DOMAIN pipeline.started |-> FALSE]]

-----------------------------------------------------------------------------
(* The control thread                                                      *)

Init ==
  /\ config \in Configs
  /\ pipeline_table = <<>>
  /\ handle = [t \in Thread |-> NULL]
  /\ cpc = "idle" /\ ci = 1
  /\ next_element = [t \in Thread |-> 1]
  /\ resetting = FALSE
  /\ failures = 0
  /\ aligned = TRUE

Pipeline(t)    == pipeline_table[handle[t]]
Elements(t)    == Len(config[t].element)
Done(t)        == next_element[t] > Elements(t)
SharedReaders(p) ==
  {b \in DOMAIN p.buffer : p.buffer[b].flags = "shared_user"}

CommandRun ==
  /\ cpc = "idle"
  /\ cpc' = "init" /\ ci' = 1
  /\ UNCHANGED <<config, pipeline_table, handle, next_element, resetting, failures, aligned>>

FreeSlots == Slot \ DOMAIN pipeline_table

InitPipeline ==
  LET cfg == SetConfig(config[ci])
      slot == Min(FreeSlots)
  IN  /\ cpc = "init"
      /\ EarlyConfigCheck(config[ci]) /\ ConfigCheck(cfg) /\ FreeSlots # {}
      /\ pipeline_table' = [p \in DOMAIN pipeline_table \cup {slot} |->
           IF p = slot THEN Create(pipeline_table, slot, cfg) ELSE pipeline_table[p]]
      /\ handle' = [handle EXCEPT ![ci] = slot]
      /\ IF ci = Len(config) THEN cpc' = "setup" /\ ci' = 1
                             ELSE cpc' = "init" /\ ci' = ci + 1
      /\ UNCHANGED <<config, next_element, resetting, failures, aligned>>

\* The RUN command gives up; the pipelines it has initialised stay in the table.
Fail == /\ cpc' = "idle" /\ ci' = 1
        /\ failures' = Min({failures + 1, MaxFailures})
        /\ UNCHANGED <<config, pipeline_table, next_element, resetting, aligned>>

\* The configuration is refused, the table is full, or (within the bound) an
\* allocation or the initialisation of an element fails.
InitPipelineFails ==
  /\ cpc = "init"
  /\ \/ ~EarlyConfigCheck(config[ci])
     \/ ~ConfigCheck(SetConfig(config[ci]))
     \/ FreeSlots = {}
     \/ failures < MaxFailures
  /\ handle' = [handle EXCEPT ![ci] = NULL]
  /\ Fail

SaiSetupFails ==
  /\ cpc = "setup" /\ failures < MaxFailures
  /\ Fail
  /\ UNCHANGED handle

SaiSetup ==
  /\ cpc = "setup"
  /\ cpc' = "running"
  /\ next_element' = [t \in Thread |-> 1]
  /\ resetting' = FALSE
  /\ aligned' = TRUE
  /\ UNCHANGED <<config, pipeline_table, handle, ci, failures>>

\* audio_stop takes the mutexes of the data threads: none is in the middle of
\* a run, and none that failed is still resetting the others.
CommandStop ==
  /\ cpc = "running" /\ ~resetting
  /\ \A t \in Thread : next_element[t] = 1 \/ Done(t)
  /\ cpc' = "exit" /\ ci' = 1
  /\ UNCHANGED <<config, pipeline_table, handle, next_element, resetting, failures, aligned>>

ExitPipeline ==
  /\ cpc = "exit"
  /\ pipeline_table' = Restrict(pipeline_table, DOMAIN pipeline_table \ {handle[ci]})
  /\ IF ci = Len(config) THEN cpc' = "idle" /\ ci' = 1 ELSE cpc' = "exit" /\ ci' = ci + 1
  /\ UNCHANGED <<config, handle, next_element, resetting, failures, aligned>>

-----------------------------------------------------------------------------
(* The data threads                                                        *)

RunElement(t) ==
  /\ cpc = "running" /\ ~Done(t)
  /\ pipeline_table' = ElementRun(pipeline_table, handle[t], next_element[t])
  /\ next_element' = [next_element EXCEPT ![t] = @ + 1]
  /\ UNCHANGED <<config, handle, cpc, ci, resetting, failures, aligned>>

\* The FIFO level of a SAI element that has started is out of range: the rest
\* of the pipeline is not run.
RunElementFails(t) ==
  /\ cpc = "running" /\ ~Done(t)
  /\ config[t].element[next_element[t]].type \in SaiElement
  /\ Pipeline(t).started[next_element[t]]
  /\ next_element' = [next_element EXCEPT ![t] = Elements(t) + 1]
  /\ resetting' = TRUE
  /\ UNCHANGED <<config, pipeline_table, handle, cpc, ci, failures, aligned>>

AllDone == cpc = "running" /\ \A t \in Thread : Done(t)

NextPeriod ==
  /\ AllDone /\ ~resetting
  /\ next_element' = [t \in Thread |-> 1]
  /\ pipeline_table' = [p \in DOMAIN pipeline_table |-> Aged(pipeline_table[p])]
  /\ UNCHANGED <<config, handle, cpc, ci, resetting, failures, aligned>>

\* Every pipeline is reset, and all of them are restarted.
ResetPipelines ==
  /\ AllDone /\ resetting
  /\ pipeline_table' = [p \in DOMAIN pipeline_table |->
       IF p \in Range(handle) THEN PipelineReset(Aged(pipeline_table[p]))
                              ELSE Aged(pipeline_table[p])]
  /\ next_element' = [t \in Thread |-> 1]
  /\ resetting' = FALSE
  /\ aligned' = \A t \in Thread : \A b \in SharedReaders(pipeline_table'[handle[t]]) :
                  pipeline_table'[handle[t]].buffer[b].read = 0
  /\ UNCHANGED <<config, handle, cpc, ci, failures>>

Next ==
  \/ CommandRun \/ InitPipeline \/ InitPipelineFails \/ SaiSetup \/ SaiSetupFails
  \/ CommandStop \/ ExitPipeline
  \/ \E t \in Thread : RunElement(t) \/ RunElementFails(t)
  \/ NextPeriod \/ ResetPipelines

Spec == Init /\ [][Next]_vars

-----------------------------------------------------------------------------
(* Properties                                                              *)

\* The age of the samples that the next read of buffer b returns.
AgeRead(t, b) ==
  LET buf == Pipeline(t).buffer[b] IN
  pipeline_table[buf.base.slot].memory[buf.base.off + buf.read]

Reads(t) ==
  IF cpc = "running" /\ ~Done(t)
  THEN Range(Pipeline(t).cfg.element[next_element[t]].input) ELSE {}

\* In a pipeline accepted without a warning, every element is handed the samples
\* that an earlier element of the pipeline wrote in the same period, after any
\* number of failing runs and resets: no buffer is read before it is written
\* (audio_pipeline_config_check), readers and writers stay in phase although
\* only the writers reset them, and no element of any pipeline overwrites them.
FreshInRun ==
  \A t \in Thread : \A b \in Reads(t) :
    LET cfg == Pipeline(t).cfg IN
    Pipeline(t).buffer[b].flags = "none" /\ ~Warned(cfg) /\ SilenceApart(cfg, b)
      => AgeRead(t, b) = "now"

\* A reader of a shared buffer is handed the samples of the last period, in
\* whatever order the threads of the owner and of the readers run: this is what
\* the period of silence ahead of the owner is for.  It needs readers that start
\* with the owner (a SAI sink or a routing element does not reset a shared_user
\* input), and a ring of more than two periods where a starting SAI sink writes
\* silence before its read index.
SharedOneLate ==
  aligned /\ failures = 0 /\ SharedOnce(config) =>
    \A t \in Thread : \A b \in Reads(t) :
      LET buf == Pipeline(t).buffer[b] IN
      buf.flags \in {"shared", "shared_user"} =>
        AgeRead(t, b) \in IF Wrap(buf.size) > 2 THEN {"last"} ELSE {"last", "head"}

\* As long as no RUN command has failed, a shared_user buffer of a running
\* pipeline lies on the storage of the shared buffer with its id in the running
\* configuration (audio_pipeline_shared_buffer_find), and not on a buffer of
\* another id or of a pipeline left behind.
SharesWithItsOwner ==
  cpc = "running" /\ failures = 0 =>
    \A t \in Thread : \A b \in SharedReaders(Pipeline(t)) :
      \E u \in Thread : \E o \in DOMAIN config[u].buffer :
        /\ config[u].buffer[o].flags = "shared"
        /\ config[u].buffer[o].shared_id = config[t].buffer[b].shared_id
        /\ Pipeline(t).buffer[b].base = Pipeline(u).buffer[o].base
        /\ Pipeline(t).buffer[b].size = Pipeline(u).buffer[o].size

\* After a period without a failure nothing is left in a buffer of a pipeline
\* accepted without a warning, and one period in a shared buffer that is also read
\* in its own pipeline: no ring fills up or runs dry however long the pipelines
\* run.  (audio_buf_avail counts modulo the size: sizes that the mask wraps at.)
RingsDrained ==
  AllDone /\ ~resetting =>
    \A t \in Thread : \A b \in DOMAIN Pipeline(t).buffer :
      LET buf == Pipeline(t).buffer[b]
          cfg == Pipeline(t).cfg
          passed == InputRefs(cfg, b) # {} /\ OutputRefs(cfg, 0, b) # {}
      IN  ~Warned(cfg) /\ passed /\ buf.size = Wrap(buf.size) /\ buf.size > 1
            => buf.flags = "shared_user" \/ Avail(buf) = buf.silence

=============================================================================
