------------------------------- MODULE MCWire -------------------------------
(***************************************************************************)
(* The codec with the tables of all generated messages.                    *)
(***************************************************************************)
EXTENDS WireMarshal, TLC

Burn == INSTANCE BurnTypes
Volunteer == INSTANCE VolunteerTypes
Reward == INSTANCE RewardTypes
Ethermint == INSTANCE EthermintTypes
Erc20 == INSTANCE Erc20Types
Evm == INSTANCE EvmTypes
Feemarket == INSTANCE FeemarketTypes
Ethsecp256k1 == INSTANCE Ethsecp256k1Types

\* A message of another repository: one field is enough to see it merged.
MCTables ==
  Burn!Unmarshal @@ Volunteer!Unmarshal @@ Reward!Unmarshal @@ Ethermint!Unmarshal @@
  Erc20!Unmarshal @@ Evm!Unmarshal @@ Feemarket!Unmarshal @@ Ethsecp256k1!Unmarshal @@
  "external" :> (1 :> Bytes("Value"))

MCMarshals ==
  Burn!MarshalToSizedBuffer @@ Volunteer!MarshalToSizedBuffer @@
  Reward!MarshalToSizedBuffer @@ Ethermint!MarshalToSizedBuffer @@
  Erc20!MarshalToSizedBuffer @@ Evm!MarshalToSizedBuffer @@
  Feemarket!MarshalToSizedBuffer @@ Ethsecp256k1!MarshalToSizedBuffer @@
  "external" :> <<<<Bytes("Value"), <<10>>>>>>

MCSizes ==
  Burn!Size @@ Volunteer!Size @@ Reward!Size @@ Ethermint!Size @@
  Erc20!Size @@ Evm!Size @@ Feemarket!Size @@ Ethsecp256k1!Size @@
  "external" :> <<<<Bytes("Value"), 1>>>>

MCNumeral(text) == \A k \in DOMAIN text : text[k] \in 48..57

-----------------------------------------------------------------------------
\* Bytes that would be tags, and a varint of the full width.
Max64 == 2^Width - 1

FieldsOf(t) == {MCTables[t][n] : n \in DOMAIN MCTables[t]}

RECURSIVE Brief(_)

FieldSamples(f) ==
  CASE f.kind = "uint64" -> <<Max64, 128>>
    [] f.kind = "int64" -> <<-1, 64>>
    [] f.kind = "uint32" -> <<2^Half - 1, 127>>
    [] f.kind = "int32" -> <<-1, 1>>
    [] f.kind = "bool" -> <<1>>
    [] f.kind = "double" -> <<<<1, 0, 0, 0, 0, 0, 240, 63>>>>
    [] f.kind = "bytes" -> <<<<10, 128>>>>
    [] f.kind = "strings" -> <<<<<<18>>, <<>>>>>>
    [] f.kind = "packed" -> <<<<128, -1>>, <<5>>>>
    [] f.kind = "number" -> <<<<55>>>>
    [] f.kind = "numberPtr" -> <<<<<<55>>>>, <<<<>>>>>>
    [] f.kind = "message" -> <<Brief(f.of)>>
    [] f.kind = "messagePtr" -> <<<<Brief(f.of)>>, <<EmptyMessage>>>>
    [] f.kind = "messages" -> <<<<Brief(f.of), EmptyMessage>>>>

\* The field with the lowest number set.
Brief(t) ==
  LET f == MCTables[t][Min(DOMAIN MCTables[t])] IN
  [name \in {f.name} |-> FieldSamples(f)[1]]

\* Every field set.
Full(t) ==
  [name \in {f.name : f \in FieldsOf(t)} |->
     FieldSamples(CHOOSE f \in FieldsOf(t) : f.name = name)[1]]

\* One field set.
Single(t) ==
  UNION {{[name \in {f.name} |-> FieldSamples(f)[k]] : k \in DOMAIN FieldSamples(f)} :
           f \in FieldsOf(t)}

MCSamples ==
  UNION {{[type |-> t, messages |-> ms] :
            ms \in {<<m>> : m \in Single(t) \cup {EmptyMessage, Full(t)}}
                   \cup {<<m, Full(t)>> : m \in Single(t)}
                   \cup {<<Full(t), m>> : m \in Single(t) \cup {EmptyMessage}}} :
           t \in DOMAIN MCTables}

\* Field 31 as a varint, eight bytes, two bytes with a length, four bytes, and
\* a group that holds a group.
MCUnknown ==
  {<<248, 1, 150, 1>>, <<249, 1, 8, 7, 6, 5, 4, 3, 2, 1>>, <<250, 1, 2, 10, 255>>,
   <<253, 1, 1, 2, 3, 4>>, <<251, 1, 251, 1, 8, 1, 252, 1, 252, 1>>}

\* Varints that are too long, lengths that are negative, overflow the index or
\* exceed the bytes or only those of an inner message, numbers that are none,
\* fields that are cut while they are skipped.
Edges ==
  {<<255, 255, 255, 255, 255, 1>>, <<10, 255, 255, 255, 255, 1>>,
   <<10, 255, 255, 255, 127>>, <<10, 255, 255, 255, 255, 127, 1>>, <<10, 1, 10>>, <<10, 0>>,
   <<250, 1, 255, 255, 255, 255, 1>>, <<250, 1, 255, 255, 255, 127>>, <<250, 1, 3, 1>>,
   <<18, 2, 10, 2, 1, 1>>, <<249, 1, 1>>, <<253, 1, 1>>, <<254, 1>>, <<251, 1, 249, 1, 1, 252, 1>>,
   <<248, 1, 255, 255, 255, 255, 255>>, <<251, 1, 250, 1, 255, 255, 255, 127>>}

\* Every short string of bytes over tags of the first two fields, of groups
\* and of fields unknown, and varints that go on.
MCInputs ==
  {[type |-> t, bytes |-> b] :
     t \in {"burn.MsgBurn", "evm.Params"},
     b \in UNION {[1..n -> {0, 1, 3, 10, 18, 34, 128, 251, 252, 255}] : n \in 0..3}}
  \cup {[type |-> t, bytes |-> b] : t \in {"burn.MsgBurn", "reward.Params"}, b \in Edges}
=============================================================================
