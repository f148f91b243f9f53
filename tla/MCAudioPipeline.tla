---------------------------- MODULE MCAudioPipeline ----------------------------
(***************************************************************************)
(* Configurations for AudioPipeline: every pipeline of a source, a routing *)
(* element and a sink over two buffers, well formed or not, one pipeline   *)
(* with several inputs and default ids, one with too many stages, and      *)
(* pairs of pipelines that share a buffer.                                 *)
(***************************************************************************)
EXTENDS AudioPipeline

Element(stage, type, input, output) ==
  [stage |-> stage, type |-> type, input |-> input, output |-> output]

Buffer(storage, flags, shared_id) ==
  [storage |-> storage, flags |-> flags, shared_id |-> shared_id]

Own(storage) == Buffer(storage, "none", 0)

Chain(a, b, c, d) ==
  <<Element(0, "SAI_SOURCE", <<>>, <<a>>), Element(1, "ROUTING", <<b>>, <<c>>),
    Element(2, "SAI_SINK", <<d>>, <<>>)>>

Two(x, y) == [k \in 0..1 |-> IF k = 0 THEN x ELSE y]

Chains ==
  {<<[element |-> Chain(a, b, c, d), buffer |-> Two(Own(s), Own(r)), periods |-> Two(m, n)]>> :
     a, b, c, d \in 0..2, s, r \in 0..1, m, n \in {0, 1, 3}}

Wide ==
  <<[element |-> <<Element(0, "SAI_SOURCE", <<>>, <<0, 0>>),
                   Element(1, "ROUTING", <<0, 0>>, <<2, 0>>),
                   Element(2, "SAI_SINK", <<2, 0>>, <<>>)>>,
     buffer  |-> [b \in 0..3 |-> Own(0)],
     periods |-> [s \in 0..3 |-> 0]]>>

TooDeep ==
  <<[element |-> <<Element(0, "SINE_SOURCE", <<>>, <<0>>), Element(4, "SAI_SINK", <<0>>, <<>>)>>,
     buffer  |-> [b \in {0} |-> Own(0)],
     periods |-> [s \in {0} |-> 0]]>>

Owner(id, periods) ==
  [element |-> Chain(0, 0, 1, 1),
   buffer  |-> Two(Own(0), Buffer(0, "shared", id)),
   periods |-> Two(0, periods)]

SineOwner(id, periods) ==
  [element |-> <<Element(0, "SINE_SOURCE", <<>>, <<0>>)>>,
   buffer  |-> [b \in {0} |-> Buffer(0, "shared", id)],
   periods |-> [s \in {0} |-> periods]]

RoutingUser(id) ==
  [element |-> <<Element(0, "ROUTING", <<0>>, <<1>>), Element(1, "SAI_SINK", <<1>>, <<>>)>>,
   buffer  |-> Two(Buffer(0, "shared_user", id), Own(0)),
   periods |-> [s \in {0} |-> 0]]

SinkUser(type, id) ==
  [element |-> <<Element(0, type, <<0>>, <<>>)>>,
   buffer  |-> [b \in {0} |-> Buffer(0, "shared_user", id)],
   periods |-> <<>>]

Sharing ==
  {<<Owner(0, 4), RoutingUser(0)>>, <<SineOwner(1, 2), RoutingUser(1)>>}
  \cup {<<SineOwner(1, n), SinkUser(type, 1)>> : n \in {2, 4}, type \in {"SAI_SINK", "AVTP_SINK"}}

\* The middle pipeline reads one shared buffer and owns another.
Relay(id, next, periods) ==
  [element |-> <<Element(0, "ROUTING", <<0>>, <<1>>)>>,
   buffer  |-> Two(Buffer(0, "shared_user", id), Buffer(0, "shared", next)),
   periods |-> [s \in {0} |-> periods]]

Relayed == {<<SineOwner(1, 0), Relay(1, 2, 4), SinkUser("AVTP_SINK", 2)>>}

MCConfigs == Chains \cup {Wide, TooDeep} \cup Sharing \cup Relayed
=============================================================================
